------------------------ MODULE HeadlessServerProofs ------------------------
(***************************************************************************)
(* Proofs about the headless server, for any number of clients, keys and   *)
(* requests.                                                               *)
(*                                                                         *)
(* The first part proves that it never holds two machines, and marks the   *)
(* one it holds as owning resources. OneMachine is not inductive: a start  *)
(* that is under way has no machine yet, and a stop may release ownership  *)
(* only once that start has ended. IInv counts such a start as live, and   *)
(* says why a stop that talks to the driver cannot meet it: the done       *)
(* channel the stop waited for was the start's own, or one that exists     *)
(* only because the start had ended.                                       *)
(*                                                                         *)
(* The second part proves that what the server reports is true: a machine  *)
(* is stopped only once its window is gone, the active operation it names  *)
(* is in progress, a shutdown that has answered left nothing behind, an    *)
(* operation that ended keeps its result and a machine that stopped or     *)
(* failed is never revived. None of these is inductive either. RInv ties   *)
(* the three records the server keeps of one operation to each other: the  *)
(* place its goroutine is at, the state clients read, and the machine's    *)
(* state and active operation. It rests on IInv, by which a machine has    *)
(* one start.                                                              *)
(***************************************************************************)
EXTENDS HeadlessServer, TLAPS

StartPlaces == {"boot", "created", "guest", "cleanup"}

\* A start that may still make a machine.
Busy(v) == request[v].route = "start" /\ job[v] \in StartPlaces \cup {"queued"}

Live(v) == machine[v] # "none" \/ Busy(v)

Shape ==
  /\ DOMAIN request = Keys /\ DOMAIN reply = Keys /\ DOMAIN job = Keys
  /\ DOMAIN waits = Keys /\ DOMAIN vmState = Keys /\ DOMAIN vmJob = Keys
  /\ DOMAIN machine = Keys
  /\ DOMAIN at = Callers /\ DOMAIN key = Callers /\ DOMAIN out = Callers

\* What is live is owned, and alone.
Owned == \A v \in Keys : Live(v) => v \in owns
Alone == \A v, w \in Keys : Live(v) /\ Live(w) => v = w

\* A job is where its route takes it.
Places ==
  \A k \in Keys : /\ job[k] \in StartPlaces => request[k].route = "start"
                  /\ job[k] \in {"wait", "stop"} => request[k].route = "stop"
                  /\ job[k] = "queued" =>
                       request[k].route \in {"pull", "start", "glass", "stop"}

\* While a start is busy, its machine does not run and holds its done channel.
Holding == \A v \in Keys : Busy(v) => vmState[v] # "running" /\ vmJob[v] = v

\* A stop is about a machine that exists, and waits for its start if that is busy.
Stops ==
  \A k \in Keys :
    request[k].route = "stop" /\ job[k] \in {"queued", "wait", "stop"} =>
      /\ request[k].vm \in Keys
      /\ vmState[request[k].vm] # "none"
      /\ Busy(request[k].vm) => job[k] # "stop" /\ waits[k] = request[k].vm

\* A key that was not used, or whose request is not accepted yet, has no job.
Fresh == \A k \in Keys : reply[k] = "unused" => job[k] = "none" /\ vmState[k] = "none"
Pending ==
  /\ \A c \in Clients : at[c] # "idle" => key[c] \in Keys /\ reply[key[c]] # "unused"
  /\ \A c \in Clients : at[c] = "mutate" => job[key[c]] = "none" /\ vmState[key[c]] = "none"
  /\ \A c, d \in Clients : at[c] = "mutate" /\ at[d] # "idle" /\ key[c] = key[d] => c = d
  /\ \A c \in Clients : at[c] = "answer" => out[c] # "unused"

\* A shutdown that has drained the jobs stays alone with the driver.
Drains ==
  \A c \in Callers : /\ at[c] \in {"drain", "driver"} => closing
                     /\ at[c] = "driver" => Drained

IInv == Shape /\ Owned /\ Alone /\ Places /\ Holding /\ Stops /\ Fresh /\ Pending /\ Drains

-----------------------------------------------------------------------------

\* The server starts with no request, no job and no machine.
LEMMA InitHolds == Init => IInv
BY DEF Init, IInv, Shape, Owned, Alone, Live, Busy, Places, StartPlaces, Holding, Stops,
   Fresh, Pending, Drains, Drained, Callers

\* Steps that touch neither requests nor jobs, and make no machine.
LEMMA Quiet ==
  ASSUME IInv, UNCHANGED <<http, job, waits, vmState, owns, vmJob, closing>>,
         DOMAIN machine' = Keys,
         \A v \in Keys : machine'[v] # "none" => machine[v] # "none"
  PROVE  IInv'
<1>0. UNCHANGED <<at, key, out, request, reply>>
  BY Zenon DEF http
<1>1. Shape'
  BY <1>0, Zenon DEF IInv, Shape
<1>2. \A v \in Keys : Live(v)' => Live(v)
  BY <1>0, Zenon DEF Live, Busy
<1>3. Owned' /\ Alone'
  BY <1>2, Zenon DEF IInv, Owned, Alone
<1>4. Places' /\ Holding' /\ Stops'
  BY <1>0, Zenon DEF IInv, Places, Holding, Stops, Busy
<1>5. Fresh' /\ Pending'
  BY <1>0, Zenon DEF IInv, Fresh, Pending
<1>6. Drains'
  BY <1>0, Zenon DEF IInv, Drains, Drained
<1> QED
  BY <1>1, <1>3, <1>4, <1>5, <1>6, Zenon DEF IInv

\* Timers, a presented frame, a guest that powers off, the monitor's question and
\* the driver's shutdown are such steps.
LEMMA QuietSteps ==
  ASSUME IInv, NEW k \in Keys,
         \/ TimesOut(k) \/ TimerFires(k) \/ TimerCancels(k) \/ GlassPresents(k)
         \/ StopPowersOff(k) \/ GuestExits(k)
         \/ (\E gone \in BOOLEAN : MonitorAsks(k, gone))
         \/ (\E c \in Callers : ShutdownStops(c))
  PROVE  IInv'
<1>1. UNCHANGED <<http, job, waits, vmState, owns, vmJob, closing>>
  BY Zenon DEF TimesOut, TimerFires, TimerCancels, GlassPresents, StopPowersOff, GuestExits,
     MonitorAsks, ShutdownStops, ops, vms, server
<1>2. /\ DOMAIN machine' = Keys
      /\ \A v \in Keys : machine'[v] # "none" => machine[v] # "none"
  <2>0. DOMAIN machine = Keys
    BY Zenon DEF IInv, Shape
  <2>1. CASE UNCHANGED machine
    BY <2>0, <2>1, Zenon
  <2>2. CASE \E v : PowersOff(v)
    BY <2>0, <2>2, Zenon DEF PowersOff
  <2>3. CASE \E v : Releases(v)
    BY <2>0, <2>3, Zenon DEF Releases
  <2> QED
    BY <2>1, <2>2, <2>3, Zenon DEF TimesOut, TimerFires, TimerCancels, GlassPresents,
       StopPowersOff, GuestExits, MonitorAsks, ShutdownStops, driver
<1> QED
  BY <1>1, <1>2, Quiet, Zenon

\* Steps of a job: what is live afterwards was live, and stays owned.
LEMMA Moves ==
  ASSUME IInv, NEW k \in Keys, NEW to,
         job[k] \notin {"none", "done"}, job' = [job EXCEPT ![k] = to],
         to # "queued",
         to \in StartPlaces => job[k] \in StartPlaces \cup {"queued"}
                                /\ request[k].route = "start",
         to \in {"wait", "stop"} => job[k] \in {"queued", "wait"}
                                    /\ request[k].route = "stop",
         to = "stop" => ~Busy(request[k].vm),
         UNCHANGED <<http, waits, vmJob, closing>>,
         DOMAIN vmState' = Keys, DOMAIN machine' = Keys,
         \A v \in Keys : vmState'[v] = "none" <=> vmState[v] = "none",
         \A v \in Keys : vmState'[v] = "running" => vmState[v] = "running" \/ ~Busy(v)',
         \A v \in Keys : machine'[v] # "none" => Live(v),
         \A v \in Keys : Live(v)' /\ v \in owns => v \in owns'
  PROVE  IInv'
<1>0. UNCHANGED <<at, key, out, request, reply>>
  BY Zenon DEF http
<1>job. DOMAIN job' = Keys /\ job'[k] = to /\ \A j \in Keys : j # k => job'[j] = job[j]
  BY Zenon DEF IInv, Shape
<1>1. Shape'
  BY <1>0, <1>job, Zenon DEF IInv, Shape
<1>busy. \A v \in Keys : Busy(v)' => Busy(v)
  BY <1>0, <1>job, Zenon DEF Busy
<1>2. \A v \in Keys : Live(v)' => Live(v)
  BY <1>busy, Zenon DEF Live
<1>3. Owned' /\ Alone'
  BY <1>2, Zenon DEF IInv, Owned, Alone
<1>4. Places'
  BY <1>0, <1>job, Zenon DEF IInv, Places
<1>5. Holding'
  BY <1>busy, Zenon DEF IInv, Holding
<1>6. Stops'
  BY <1>0, <1>job, <1>busy DEF IInv, Stops
<1>7. Fresh'
  BY <1>0, <1>job, Zenon DEF IInv, Fresh
<1>8. Pending'
  BY <1>0, <1>job DEF IInv, Pending
<1>9. Drains'
  BY <1>0, <1>job, Zenon DEF IInv, Drains, Drained
<1> QED
  BY <1>1, <1>3, <1>4, <1>5, <1>6, <1>7, <1>8, <1>9, Zenon DEF IInv

\* Moves that touch no machine.
LEMMA PlainMoves ==
  ASSUME IInv, NEW k \in Keys,
         \/ JobBegins(k) \/ Leave(k) \/ (\E ok \in BOOLEAN : PullEnds(k, ok))
         \/ StartFails(k) \/ StopWaits(k)
         \/ GlassOpens(k) \/ WindowCloses(k) \/ (\E ok \in BOOLEAN : GlassEnds(k, ok))
  PROVE  IInv'
<1>1. UNCHANGED <<http, waits, vmJob, closing, vmState, machine, owns>>
  BY Zenon DEF JobBegins, Leave, PullEnds, StartFails, StopWaits, GlassOpens, WindowCloses,
     GlassEnds, vms, driver, server
<1>2. DOMAIN vmState = Keys /\ DOMAIN machine = Keys
  BY Zenon DEF IInv, Shape
<1>3. ASSUME NEW to, job[k] \notin {"none", "done"}, job' = [job EXCEPT ![k] = to],
             to # "queued",
             to \in StartPlaces => job[k] \in StartPlaces \cup {"queued"}
                                    /\ request[k].route = "start",
             to \in {"wait", "stop"} => job[k] \in {"queued", "wait"}
                                        /\ request[k].route = "stop",
             to = "stop" => ~Busy(request[k].vm)
      PROVE  IInv'
  <2>1. \A v \in Keys : machine'[v] # "none" => Live(v)
    BY <1>1, Zenon DEF Live
  <2> QED
    BY <1>1, <1>2, <1>3, <2>1, Moves, Zenon
<1>4. CASE JobBegins(k)
  <2>1. job[k] = "queued" /\ job' = [job EXCEPT ![k] = Begun(request[k].route)]
    BY <1>4, Zenon DEF JobBegins, At
  <2>2. request[k].route \in {"pull", "start", "glass", "stop"}
    BY <2>1, Zenon DEF IInv, Places
  <2>3. LET to == Begun(request[k].route)
        IN  /\ to # "queued" /\ to # "stop"
            /\ to \in StartPlaces => request[k].route = "start"
            /\ to \in {"wait", "stop"} => request[k].route = "stop"
    BY <2>2, Zenon DEF Begun, StartPlaces
  <2>4. job[k] \notin {"none", "done"} /\ job[k] \in StartPlaces \cup {"queued"}
        /\ job[k] \in {"queued", "wait"}
    BY <2>1, Zenon
  <2> QED
    BY <1>3, <2>1, <2>3, <2>4, Zenon
<1>5. CASE Leave(k)
  BY <1>3, <1>5, Zenon DEF Leave, At, StartPlaces
<1>6. CASE \E ok \in BOOLEAN : PullEnds(k, ok)
  BY <1>3, <1>6, Zenon DEF PullEnds, At, StartPlaces
<1>7. CASE StartFails(k)
  BY <1>3, <1>7, Zenon DEF StartFails, At, StartPlaces, IInv, Places
<1>8. CASE StopWaits(k)
  <2>1. job[k] = "wait" /\ job' = [job EXCEPT ![k] = "stop"] /\ job[waits[k]] = "done"
    BY <1>8, Zenon DEF StopWaits, At, Detached
  <2>2. request[k].route = "stop"
    BY <2>1, Zenon DEF IInv, Places
  <2>3. ~Busy(request[k].vm)
    BY <2>1, <2>2, Zenon DEF IInv, Stops, Busy, StartPlaces
  <2> QED
    BY <1>3, <2>1, <2>2, <2>3, Zenon DEF StartPlaces
<1>9. CASE GlassOpens(k) \/ WindowCloses(k) \/ (\E ok \in BOOLEAN : GlassEnds(k, ok))
  BY <1>3, <1>9, Zenon DEF GlassOpens, WindowCloses, GlassEnds, At, StartPlaces
<1> QED
  BY <1>4, <1>5, <1>6, <1>7, <1>8, <1>9, Zenon

\* The steps of a start that touch its machine.
LEMMA StartMoves ==
  ASSUME IInv, NEW k \in Keys,
         StartCreates(k) \/ StartBoots(k) \/ StartEnds(k)
           \/ \E ok \in BOOLEAN : StartCleaned(k, ok)
  PROVE  IInv'
<1>0. /\ DOMAIN vmState = Keys /\ DOMAIN machine = Keys /\ DOMAIN job = Keys
      /\ UNCHANGED <<http, waits, vmJob, closing>>
  BY Zenon DEF IInv, Shape, StartCreates, StartBoots, StartEnds, StartCleaned, vms, server
<1>1. /\ job[k] \in StartPlaces /\ request[k].route = "start" /\ Busy(k)
      /\ vmState[k] # "running"
  BY Zenon DEF StartCreates, StartBoots, StartEnds, StartCleaned, At, StartPlaces, IInv, Places,
     Busy, Holding
<1>2. CASE StartCreates(k) \/ StartBoots(k)
  <2>1. PICK to \in {"created", "guest"} : job' = [job EXCEPT ![k] = to]
    BY <1>2, Zenon DEF StartCreates, StartBoots, At
  <2>2. UNCHANGED <<vmState, owns>>
    BY <1>2, Zenon DEF StartCreates, StartBoots, vms
  <2>3. DOMAIN machine' = Keys /\ \A v \in Keys : machine'[v] # "none" => Live(v)
    BY <1>0, <1>1, <1>2, Zenon DEF StartCreates, StartBoots, Live
  <2>4. /\ to # "queued" /\ to \notin {"wait", "stop"} /\ job[k] \notin {"none", "done"}
    BY <1>1, <2>1, Zenon DEF StartPlaces
  <2> QED
    BY <1>0, <1>1, <2>1, <2>2, <2>3, <2>4, Moves, Zenon
<1>3. CASE StartEnds(k) \/ \E ok \in BOOLEAN : StartCleaned(k, ok)
  <2>1. job' = [job EXCEPT ![k] = "leave"]
    BY <1>3, Zenon DEF StartEnds, StartCleaned, At
  <2>2. /\ "leave" # "queued" /\ "leave" \notin StartPlaces
        /\ "leave" \notin {"wait", "stop"} /\ "leave" # "stop"
        /\ job[k] \notin {"none", "done"}
    BY <1>1, Zenon DEF StartPlaces
  <2>3. /\ DOMAIN vmState' = Keys
        /\ \A v \in Keys : vmState'[v] = "none" <=> vmState[v] = "none"
        /\ \A v \in Keys : v # k => vmState'[v] = vmState[v]
    BY <1>0, <1>1, <1>3, Zenon DEF StartEnds, StartCleaned, StillStarting
  <2>4. ~Busy(k)'
    BY <1>0, <2>1, <2>2, Zenon DEF Busy
  <2>5. \A v \in Keys : vmState'[v] = "running" => vmState[v] = "running" \/ ~Busy(v)'
    BY <2>3, <2>4, Zenon
  <2>6. /\ DOMAIN machine' = Keys
        /\ \A v \in Keys : machine'[v] # "none" => machine[v] # "none"
        /\ machine'[k] = "none" \/ owns' = owns
        /\ owns \ {k} \subseteq owns'
    BY <1>0, <1>3, Zenon DEF StartEnds, StartCleaned, DriverStop, Releases, driver
  <2>7. \A v \in Keys : /\ machine'[v] # "none" => Live(v)
                        /\ Live(v)' /\ v \in owns => v \in owns'
    BY <2>4, <2>6, Zenon DEF Live
  <2> QED
    BY <1>0, <1>1, <2>1, <2>2, <2>3, <2>5, <2>6, <2>7, Moves, Zenon
<1> QED
  BY <1>2, <1>3, Zenon

\* The end of a stop.
LEMMA StopMoves ==
  ASSUME IInv, NEW k \in Keys,
         StopGivesUp(k) \/ \E ok \in BOOLEAN : StopEnds(k, ok)
  PROVE  IInv'
<1>0. /\ DOMAIN vmState = Keys /\ DOMAIN machine = Keys /\ DOMAIN job = Keys
      /\ UNCHANGED <<http, waits, vmJob, closing>>
  BY Zenon DEF IInv, Shape, StopGivesUp, StopEnds, Stopped, server
<1>1. job[k] \in {"wait", "stop"} /\ job' = [job EXCEPT ![k] = "leave"]
  BY Zenon DEF StopGivesUp, StopEnds, At
<1>2. request[k].route = "stop" /\ Vm(k) = request[k].vm
  BY <1>1, Zenon DEF IInv, Places, Vm
<1>3. PICK v \in Keys : Vm(k) = v /\ vmState[v] # "none" /\ (job[k] = "stop" => ~Busy(v))
  BY <1>1, <1>2, Zenon DEF IInv, Stops
<1>4. /\ "leave" # "queued" /\ "leave" \notin StartPlaces
      /\ "leave" \notin {"wait", "stop"} /\ "leave" # "stop"
      /\ job[k] \notin {"none", "done"}
  BY <1>1, Zenon DEF StartPlaces
<1>5. PICK s \in {"stopped", "failed"} : vmState' = [vmState EXCEPT ![v] = s]
  BY <1>3, Zenon DEF StopGivesUp, StopEnds, Stopped
<1>6. /\ DOMAIN vmState' = Keys
      /\ \A w \in Keys : vmState'[w] = "none" <=> vmState[w] = "none"
      /\ \A w \in Keys : vmState'[w] = "running" => vmState[w] = "running"
  BY <1>0, <1>3, <1>5, Zenon
<1>7. /\ DOMAIN machine' = Keys
      /\ \A w \in Keys : machine'[w] # "none" => machine[w] # "none"
      /\ owns \ {v} \subseteq owns'
      /\ v \in owns' \/ (machine'[v] = "none" /\ job[k] = "stop")
  BY <1>0, <1>3, Zenon DEF StopGivesUp, StopEnds, Stopped, DriverStop, Releases, driver, At
<1>8. Busy(v)' => Busy(v)
  BY <1>0, <1>1, <1>3, <1>4, Zenon DEF Busy, http
<1>9. \A w \in Keys : /\ machine'[w] # "none" => Live(w)
                      /\ Live(w)' /\ w \in owns => w \in owns'
  <2>1. \A w \in Keys : machine'[w] # "none" => Live(w)
    BY <1>7, Zenon DEF Live
  <2>2. v \in owns' \/ ~Live(v)'
    BY <1>3, <1>7, <1>8, Zenon DEF Live
  <2>3. \A w \in Keys : w # v /\ w \in owns => w \in owns'
    BY <1>7, Zenon
  <2> QED
    BY <2>1, <2>2, <2>3, Zenon
<1> QED
  BY <1>0, <1>1, <1>4, <1>6, <1>7, <1>9, Moves, Zenon

\* Steps of one caller that start no job.
LEMMA Talks ==
  ASSUME IInv, NEW c \in Callers, NEW to,
         UNCHANGED <<key, request, reply, job, waits, vmJob, machine>>,
         at' = [at EXCEPT ![c] = to],
         DOMAIN out' = Callers, \A d \in Callers : d # c => out'[d] = out[d],
         to # "mutate",
         to = "answer" => out'[c] # "unused",
         c \in Clients => at[c] # "idle",
         closing => closing',
         to \in {"drain", "driver"} => closing',
         to = "driver" => Drained,
         DOMAIN vmState' = Keys,
         \A v \in Keys : vmState'[v] = "none" <=> vmState[v] = "none",
         \A v \in Keys : vmState'[v] = "running" => vmState[v] = "running",
         \A v \in Keys : Live(v) => v \in owns'
  PROVE  IInv'
<1>at. DOMAIN at' = Callers /\ at'[c] = to /\ \A d \in Callers : d # c => at'[d] = at[d]
  BY Zenon DEF IInv, Shape
<1>1. Shape'
  BY <1>at, Zenon DEF IInv, Shape
<1>2. \A v \in Keys : (Live(v)' => Live(v)) /\ (Busy(v)' => Busy(v))
  BY Zenon DEF Live, Busy
<1>3. Owned' /\ Alone'
  BY <1>2, Zenon DEF IInv, Owned, Alone
<1>4. Places' /\ Holding'
  BY <1>2, Zenon DEF IInv, Places, Holding
<1>5. Stops'
  BY <1>2, Zenon DEF IInv, Stops
<1>6. Fresh'
  BY Zenon DEF IInv, Fresh
<1>7. Clients \subseteq Callers
  BY Zenon DEF Callers
<1>8. Pending'
  <2>1. \A d \in Clients : /\ at'[d] # "idle" => at[d] # "idle"
                           /\ at'[d] = "mutate" => at[d] = "mutate"
                           /\ at'[d] = "answer" => out'[d] # "unused"
    <3>1. \A d \in Clients : d # c => at'[d] = at[d] /\ out'[d] = out[d]
      BY <1>at, <1>7, Zenon
    <3>2. \A d \in Clients : at[d] = "answer" => out[d] # "unused"
      BY Zenon DEF IInv, Pending
    <3> QED
      BY <1>at, <3>1, <3>2, ZenonT(60)
  <2>2. \A d \in Clients : at'[d] = "mutate" => vmState'[key[d]] = "none"
    BY <2>1, Zenon DEF IInv, Pending
  <2> QED
    BY <2>1, <2>2, Zenon DEF IInv, Pending
<1>9. Drains'
  BY <1>at, Zenon DEF IInv, Drains, Drained
<1> QED
  BY <1>1, <1>3, <1>4, <1>5, <1>6, <1>8, <1>9, Zenon DEF IInv

\* Refusals, and the steps of a shutdown.
LEMMA TalkSteps ==
  ASSUME IInv, NEW c \in Callers,
         \/ c \in Clients /\ (Refuse(c) \/ ShutdownFails(c))
         \/ (ParentGone \/ ParentStops) /\ c = Parent
         \/ ShutdownBegins(c) \/ ShutdownDrains(c) \/ ShutdownEnds(c)
  PROVE  IInv'
<1>0. /\ DOMAIN out = Callers /\ DOMAIN vmState = Keys
      /\ \A v \in Keys : Live(v) => v \in owns
  BY Zenon DEF IInv, Shape, Owned
<1>1. UNCHANGED <<key, request, reply, job, waits, vmJob, machine>>
  BY Zenon DEF Refuse, ShutdownFails, ParentGone, ParentStops, ShutdownBegins, ShutdownDrains,
     ShutdownEnds, Responds, Returns, ops, vms, driver
<1>2. CASE ShutdownEnds(c)
  <2>1. at' = [at EXCEPT ![c] = "answer"] /\ out' = [out EXCEPT ![c] = "stopped"]
    BY <1>2, Zenon DEF ShutdownEnds, Returns, Responds
  <2>2. DOMAIN out' = Callers /\ out'[c] # "unused" /\ \A d \in Callers : d # c => out'[d] = out[d]
    BY <1>0, <2>1, Zenon
  <2>3. /\ DOMAIN vmState' = Keys
        /\ \A v \in Keys : vmState'[v] = "none" <=> vmState[v] = "none"
        /\ \A v \in Keys : vmState'[v] = "running" => vmState[v] = "running"
    BY <1>2, Zenon DEF ShutdownEnds
  <2>4. Drained /\ \A v \in Keys : machine[v] = "none"
    BY <1>2, Zenon DEF ShutdownEnds, IInv, Drains
  <2>5. \A v \in Keys : ~Live(v)
    BY <2>4, Zenon DEF Drained, Live, Busy, StartPlaces
  <2>6. (closing => closing') /\ at[c] # "idle"
    BY <1>2, Zenon DEF ShutdownEnds, Returns
  <2>7. "answer" # "mutate" /\ "answer" \notin {"drain", "driver"} /\ "answer" # "driver"
    OBVIOUS
  <2> QED
    BY <1>1, <2>1, <2>2, <2>3, <2>5, <2>6, <2>7, Talks, ZenonT(60)
<1>3. CASE ~ShutdownEnds(c)
  <2>1. UNCHANGED <<vmState, owns>>
    BY <1>3, Zenon DEF Refuse, ShutdownFails, ParentGone, ParentStops, ShutdownBegins,
       ShutdownDrains, vms
  <2>2. PICK to \in {"answer", "gate", "done", "drain", "driver"} :
          /\ at' = [at EXCEPT ![c] = to]
          /\ to = "answer" => out' \in {[out EXCEPT ![c] = a] : a \in {"refused", "failed"}}
          /\ to # "answer" => out' = out
          /\ to \in {"drain", "driver"} => closing'
          /\ to = "driver" => Drained
    <3>1. CASE Refuse(c) \/ ShutdownFails(c)
      BY <3>1, Zenon DEF Refuse, ShutdownFails, Returns, Responds
    <3>2. CASE ParentGone /\ c = Parent
      BY <3>2, Zenon DEF ParentGone
    <3>3. CASE ParentStops /\ c = Parent
      BY <3>3, Zenon DEF ParentStops
    <3>4. CASE ShutdownBegins(c)
      BY <3>4, Zenon DEF ShutdownBegins
    <3>5. CASE ShutdownDrains(c)
      BY <3>5, Zenon DEF ShutdownDrains, server, IInv, Drains
    <3> QED
      BY <1>3, <3>1, <3>2, <3>3, <3>4, <3>5, Zenon
  <2>3. /\ DOMAIN out' = Callers /\ \A d \in Callers : d # c => out'[d] = out[d]
        /\ to = "answer" => out'[c] # "unused"
    BY <1>0, <2>2, Zenon
  <2>4. /\ c \in Clients => at[c] # "idle"
        /\ closing => closing'
    <3>1. c \in Clients => at[c] # "idle"
      BY <1>3, ParentAssumption, Zenon DEF Refuse, ShutdownFails, ShutdownBegins, ShutdownDrains
    <3>2. closing => closing'
      BY <1>3, Zenon DEF Refuse, ShutdownFails, ParentGone, ParentStops, ShutdownBegins,
         ShutdownDrains, Returns, server
    <3> QED
      BY <3>1, <3>2, Zenon
  <2>5. to # "mutate"
    BY <2>2, Zenon
  <2> QED
    BY <1>0, <1>1, <2>1, <2>2, <2>3, <2>4, <2>5, Talks, Zenon
<1> QED
  BY <1>2, <1>3, Zenon

\* monitorVMs calls a machine failed, which was running.
LEMMA MonitorStep ==
  ASSUME IInv, NEW v \in Keys, MonitorFails(v)
  PROVE  IInv'
<1>0. UNCHANGED <<at, key, out, request, reply, job, waits, owns, vmJob, machine, closing>>
  BY Zenon DEF MonitorFails, http, driver, server
<1>1. /\ DOMAIN vmState' = Keys
      /\ \A w \in Keys : vmState'[w] = "none" <=> vmState[w] = "none"
      /\ \A w \in Keys : vmState'[w] = "running" => vmState[w] = "running"
  BY Zenon DEF MonitorFails, IInv, Shape
<1>2. Shape'
  BY <1>0, <1>1, Zenon DEF IInv, Shape
<1>3. Owned' /\ Alone'
  BY <1>0, Zenon DEF IInv, Owned, Alone, Live, Busy
<1>4. Places' /\ Holding'
  BY <1>0, <1>1, Zenon DEF IInv, Places, Holding, Busy
<1>5. Stops'
  BY <1>0, <1>1, ZenonT(60) DEF IInv, Stops, Busy
<1>6. Fresh' /\ Pending'
  BY <1>0, <1>1, Zenon DEF IInv, Fresh, Pending
<1>7. Drains'
  BY <1>0, Zenon DEF IInv, Drains, Drained
<1> QED
  BY <1>2, <1>3, <1>4, <1>5, <1>6, <1>7, Zenon DEF IInv

\* The first request with a key.
LEMMA RequestStep ==
  ASSUME IInv, NEW c \in Clients, NEW k \in Keys, NEW r, Request(c, k, r)
  PROVE  IInv'
<1>0. UNCHANGED <<out, job, waits, vmState, owns, vmJob, machine, closing>>
  BY Zenon DEF Request, ops, vms, driver, server
<1>1. c \in Callers /\ Clients \subseteq Callers
  BY Zenon DEF Callers
<1>2. reply[k] = "unused" /\ job[k] = "none" /\ vmState[k] = "none" /\ at[c] = "idle"
  BY Zenon DEF Request, FirstUse, Unused, IInv, Fresh
<1>3. /\ DOMAIN request' = Keys /\ \A j \in Keys : j # k => request'[j] = request[j]
      /\ DOMAIN reply' = Keys /\ reply'[k] = "pending"
      /\ \A j \in Keys : j # k => reply'[j] = reply[j]
      /\ DOMAIN key' = Callers /\ key'[c] = k
      /\ \A d \in Callers : d # c => key'[d] = key[d]
      /\ DOMAIN at' = Callers /\ at'[c] \in {"gate", "mutate"}
      /\ \A d \in Callers : d # c => at'[d] = at[d]
  BY <1>1, Zenon DEF Request, IInv, Shape
<1>4. Shape'
  BY <1>0, <1>3, Zenon DEF IInv, Shape
<1>5. \A v \in Keys : (Busy(v)' => Busy(v)) /\ (Live(v)' => Live(v))
  BY <1>0, <1>2, <1>3, Zenon DEF Busy, Live, StartPlaces
<1>6. Owned' /\ Alone' /\ Holding'
  BY <1>0, <1>5, Zenon DEF IInv, Owned, Alone, Holding
<1>7. Places'
  BY <1>0, <1>2, <1>3, ZenonT(60) DEF IInv, Places, StartPlaces
<1>8. Stops'
  BY <1>0, <1>2, <1>3, <1>5 DEF IInv, Stops
<1>9. Fresh'
  BY <1>0, <1>2, <1>3, Zenon DEF IInv, Fresh
<1>10. Pending'
  <2>1. \A d \in Clients : d # c => at'[d] = at[d] /\ key'[d] = key[d]
    BY <1>1, <1>3, Zenon
  <2>2. \A d \in Clients : d # c /\ at[d] # "idle" =>
          key[d] \in Keys /\ key[d] # k /\ reply'[key[d]] # "unused"
    BY <1>2, <1>3 DEF IInv, Pending
  <2>3. \A d \in Clients : at'[d] # "idle" => key'[d] \in Keys /\ reply'[key'[d]] # "unused"
    BY <1>3, <2>1, <2>2, Zenon
  <2>4. \A d \in Clients :
          at'[d] = "mutate" => job[key'[d]] = "none" /\ vmState[key'[d]] = "none"
    BY <1>2, <1>3, <2>1 DEF IInv, Pending
  <2>5. \A d, f \in Clients :
          at'[d] = "mutate" /\ at'[f] # "idle" /\ key'[d] = key'[f] => d = f
    BY <1>3, <2>1, <2>2 DEF IInv, Pending
  <2>6. \A d \in Clients : at'[d] = "answer" => out[d] # "unused"
    BY <1>3, <2>1, ZenonT(60) DEF IInv, Pending
  <2> QED
    BY <1>0, <2>3, <2>4, <2>5, <2>6, Zenon DEF Pending
<1>11. Drains'
  BY <1>0, <1>3, ZenonT(60) DEF IInv, Drains, Drained
<1> QED
  BY <1>4, <1>6, <1>7, <1>8, <1>9, <1>10, <1>11, Zenon DEF IInv

\* The response is recorded.
LEMMA AnswerStep ==
  ASSUME IInv, NEW c \in Clients, Answer(c)
  PROVE  IInv'
<1>0. UNCHANGED <<request, job, waits, vmState, owns, vmJob, machine, closing>>
  BY Zenon DEF Answer, ops, vms, driver
<1>1. c \in Callers /\ Clients \subseteq Callers
  BY Zenon DEF Callers
<1>2. key[c] \in Keys /\ reply[key[c]] # "unused" /\ out[c] # "unused"
  BY Zenon DEF Answer, IInv, Pending
<1>3. /\ DOMAIN reply' = Keys
      /\ \A j \in Keys : reply'[j] = "unused" <=> reply[j] = "unused"
      /\ DOMAIN key' = Callers /\ \A d \in Callers : d # c => key'[d] = key[d]
      /\ DOMAIN out' = Callers /\ \A d \in Callers : d # c => out'[d] = out[d]
      /\ DOMAIN at' = Callers /\ at'[c] = "idle"
      /\ \A d \in Callers : d # c => at'[d] = at[d]
  BY <1>1, <1>2, Zenon DEF Answer, IInv, Shape
<1>4. Shape'
  BY <1>0, <1>3, Zenon DEF IInv, Shape
<1>5. Owned' /\ Alone' /\ Holding' /\ Stops' /\ Places'
  BY <1>0, ZenonT(60) DEF IInv, Owned, Alone, Live, Holding, Stops, Places, Busy
<1>6. Fresh'
  BY <1>0, <1>3, Zenon DEF IInv, Fresh
<1>7. Pending'
  <2>1. \A d \in Clients : at'[d] # "idle" =>
          d # c /\ at'[d] = at[d] /\ key'[d] = key[d] /\ out'[d] = out[d]
    BY <1>1, <1>3, Zenon
  <2>2. "mutate" # "idle" /\ "answer" # "idle"
    OBVIOUS
  <2> QED
    BY <1>0, <1>3, <2>1, <2>2 DEF IInv, Pending
<1>8. Drains'
  BY <1>0, <1>3, Zenon DEF IInv, Drains, Drained
<1> QED
  BY <1>4, <1>5, <1>6, <1>7, <1>8, Zenon DEF IInv

\* What every accepted request does: the key's job is queued.
LEMMA Accepts ==
  ASSUME IInv, NEW c \in Clients, NEW k \in Keys,
         NEW route \in {"pull", "start", "glass", "stop"}, Accept(c, route, k),
         DOMAIN vmState' = Keys, DOMAIN vmJob' = Keys, DOMAIN waits' = Keys,
         \A v \in Keys : v # k => (vmState'[v] = "none" <=> vmState[v] = "none")
  PROVE  /\ Shape' /\ Places' /\ Fresh' /\ Pending' /\ Drains'
         /\ UNCHANGED <<request, machine>>
         /\ request[k].route = route /\ vmState[k] = "none" /\ ~Busy(k)
         /\ \A v \in Keys : v # k => (Busy(v)' <=> Busy(v)) /\ job'[v] = job[v]
         /\ Busy(k)' => route = "start"
<1>0. UNCHANGED <<key, request, reply, machine, closing>>
  BY Zenon DEF Accept, Responds, driver, server
<1>1. c \in Callers /\ Clients \subseteq Callers
  BY Zenon DEF Callers
<1>2. /\ at[c] = "mutate" /\ key[c] = k /\ request[k].route = route /\ ~closing
      /\ job[k] = "none" /\ vmState[k] = "none" /\ reply[k] # "unused"
  BY Zenon DEF Accept, Serving, IInv, Pending
<1>3. /\ DOMAIN job' = Keys /\ job'[k] = "queued"
      /\ \A j \in Keys : j # k => job'[j] = job[j]
      /\ DOMAIN at' = Callers /\ at'[c] = "answer"
      /\ \A d \in Callers : d # c => at'[d] = at[d]
      /\ DOMAIN out' = Callers /\ out'[c] = "accepted"
      /\ \A d \in Callers : d # c => out'[d] = out[d]
  BY <1>1, Zenon DEF Accept, Responds, IInv, Shape
<1>4. Shape'
  BY <1>0, <1>3, Zenon DEF IInv, Shape
<1>5. Places'
  BY <1>0, <1>2, <1>3, ZenonT(60) DEF IInv, Places, StartPlaces
<1>6. Fresh'
  BY <1>0, <1>2, <1>3, ZenonT(60) DEF IInv, Fresh
<1>7. Pending'
  <2>1. \A d \in Clients : d # c => at'[d] = at[d] /\ out'[d] = out[d]
    BY <1>1, <1>3, Zenon
  <2>2. \A d \in Clients : at'[d] = "mutate" => d # c /\ key[d] \in Keys /\ key[d] # k
    BY <1>2, <1>3, <2>1, Zenon DEF IInv, Pending
  <2> QED
    BY <1>0, <1>2, <1>3, <2>1, <2>2 DEF IInv, Pending
<1>8. Drains'
  BY <1>0, <1>2, <1>3, Zenon DEF IInv, Drains
<1>9. ~Busy(k) /\ (Busy(k)' => route = "start")
  BY <1>0, <1>2, <1>3, Zenon DEF Busy, StartPlaces
<1>10. \A v \in Keys : v # k => (Busy(v)' <=> Busy(v)) /\ job'[v] = job[v]
  BY <1>0, <1>3, Zenon DEF Busy
<1> QED
  BY <1>0, <1>2, <1>4, <1>5, <1>6, <1>7, <1>8, <1>9, <1>10, Zenon

\* A pull is about no machine.
LEMMA AcceptPullStep ==
  ASSUME IInv, NEW c \in Clients, NEW k \in Keys, AcceptPull(c, k)
  PROVE  IInv'
<1>0. UNCHANGED <<waits, vmState, owns, vmJob>>
  BY Zenon DEF AcceptPull, vms
<1>1. Accept(c, "pull", k) /\ DOMAIN vmState' = Keys /\ DOMAIN vmJob' = Keys
      /\ DOMAIN waits' = Keys /\ "pull" \in {"pull", "start", "glass", "stop"}
  BY <1>0, Zenon DEF AcceptPull, IInv, Shape
<1>2. /\ Shape' /\ Places' /\ Fresh' /\ Pending' /\ Drains'
      /\ UNCHANGED <<request, machine>>
      /\ request[k].route = "pull"
      /\ \A v \in Keys : v # k => (Busy(v)' <=> Busy(v)) /\ job'[v] = job[v]
      /\ ~Busy(k)'
  BY <1>0, <1>1, Accepts, Zenon
<1>3. \A v \in Keys : (Busy(v)' => Busy(v)) /\ (Live(v)' => Live(v))
  BY <1>2, Zenon DEF Live
<1>4. Owned' /\ Alone' /\ Holding'
  BY <1>0, <1>3, Zenon DEF IInv, Owned, Alone, Holding
<1>5. Stops'
  BY <1>0, <1>2, <1>3, Zenon DEF IInv, Stops
<1> QED
  BY <1>2, <1>4, <1>5, Zenon DEF IInv

\* No machine owns resources, so none is live.
LEMMA AcceptStartStep ==
  ASSUME IInv, NEW c \in Clients, NEW k \in Keys, AcceptStart(c, k)
  PROVE  IInv'
<1>0. UNCHANGED waits
  BY Zenon DEF AcceptStart
<1>1. /\ DOMAIN vmState' = Keys /\ vmState'[k] = "starting"
      /\ \A v \in Keys : v # k => vmState'[v] = vmState[v]
      /\ DOMAIN vmJob' = Keys /\ vmJob'[k] = k
      /\ \A v \in Keys : v # k => vmJob'[v] = vmJob[v]
      /\ DOMAIN waits' = Keys
  BY Zenon DEF AcceptStart, Holds, IInv, Shape
<1>2. Accept(c, "start", k) /\ "start" \in {"pull", "start", "glass", "stop"}
  BY Zenon DEF AcceptStart
<1>3. /\ Shape' /\ Places' /\ Fresh' /\ Pending' /\ Drains'
      /\ UNCHANGED <<request, machine>>
      /\ request[k].route = "start" /\ vmState[k] = "none"
      /\ \A v \in Keys : v # k => (Busy(v)' <=> Busy(v)) /\ job'[v] = job[v]
  BY <1>1, <1>2, Accepts, ZenonT(60)
<1>4. \A v \in Keys : ~Live(v)
  BY Zenon DEF AcceptStart, IInv, Owned
<1>5. \A v \in Keys : Live(v)' => v = k
  BY <1>3, <1>4, Zenon DEF Live
<1>6. Owned' /\ Alone'
  BY <1>5, Zenon DEF AcceptStart, Owned, Alone
<1>7. Holding'
  BY <1>1, <1>5, Zenon DEF Holding, Live
<1>8. Stops'
  BY <1>0, <1>1, <1>3, ZenonT(60) DEF IInv, Stops
<1> QED
  BY <1>3, <1>6, <1>7, <1>8, Zenon DEF IInv

\* A machine that runs has no busy start.
LEMMA AcceptGlassStep ==
  ASSUME IInv, NEW c \in Clients, NEW k \in Keys, NEW v \in Keys, AcceptGlass(c, k, v)
  PROVE  IInv'
<1>0. UNCHANGED <<waits, vmState, owns>> /\ vmState[v] = "running"
  BY Zenon DEF AcceptGlass
<1>1. /\ DOMAIN vmState' = Keys /\ DOMAIN waits' = Keys
      /\ DOMAIN vmJob' = Keys
      /\ \A w \in Keys : w # v => vmJob'[w] = vmJob[w]
  BY <1>0, Zenon DEF AcceptGlass, Holds, IInv, Shape
<1>2. Accept(c, "glass", k) /\ "glass" \in {"pull", "start", "glass", "stop"}
  BY Zenon DEF AcceptGlass
<1>3. /\ Shape' /\ Places' /\ Fresh' /\ Pending' /\ Drains'
      /\ UNCHANGED <<request, machine>>
      /\ request[k].route = "glass"
      /\ \A w \in Keys : w # k => (Busy(w)' <=> Busy(w)) /\ job'[w] = job[w]
      /\ ~Busy(k)'
  BY <1>0, <1>1, <1>2, Accepts, Zenon
<1>4. \A w \in Keys : (Busy(w)' => Busy(w)) /\ (Live(w)' => Live(w))
  BY <1>3, Zenon DEF Live
<1>5. Owned' /\ Alone'
  BY <1>0, <1>4, Zenon DEF IInv, Owned, Alone
<1>6. Holding'
  BY <1>0, <1>1, <1>4, Zenon DEF IInv, Holding
<1>7. Stops'
  BY <1>0, <1>3, <1>4, Zenon DEF IInv, Stops
<1> QED
  BY <1>3, <1>5, <1>6, <1>7, Zenon DEF IInv

\* The stop of a machine with a busy start waits for that start.
LEMMA AcceptStopStep ==
  ASSUME IInv, NEW c \in Clients, NEW k \in Keys, NEW v \in Keys, AcceptStop(c, k, v)
  PROVE  IInv'
<1>0. UNCHANGED <<owns, vmJob>> /\ request[k].vm = v /\ vmState[v] # "none"
  BY Zenon DEF AcceptStop
<1>1. /\ DOMAIN vmState' = Keys /\ vmState'[v] = "stopping"
      /\ \A w \in Keys : w # v => vmState'[w] = vmState[w]
      /\ DOMAIN vmJob' = Keys
      /\ DOMAIN waits' = Keys /\ waits'[k] = vmJob[v]
      /\ \A j \in Keys : j # k => waits'[j] = waits[j]
  BY Zenon DEF AcceptStop, IInv, Shape
<1>2. Accept(c, "stop", k) /\ "stop" \in {"pull", "start", "glass", "stop"}
  BY Zenon DEF AcceptStop
<1>3. \A w \in Keys : /\ vmState'[w] = "none" <=> vmState[w] = "none"
                      /\ vmState'[w] = "running" => vmState[w] = "running"
  BY <1>0, <1>1, Zenon
<1>4. /\ Shape' /\ Places' /\ Fresh' /\ Pending' /\ Drains'
      /\ UNCHANGED <<request, machine>>
      /\ request[k].route = "stop"
      /\ \A w \in Keys : w # k => (Busy(w)' <=> Busy(w)) /\ job'[w] = job[w]
      /\ ~Busy(k)'
  BY <1>1, <1>2, <1>3, Accepts, ZenonT(60)
<1>5. \A w \in Keys : (Busy(w)' => Busy(w)) /\ (Live(w)' => Live(w))
  BY <1>4, Zenon DEF Live
<1>6. Owned' /\ Alone'
  BY <1>0, <1>5, Zenon DEF IInv, Owned, Alone
<1>7. Holding'
  BY <1>0, <1>3, <1>5, Zenon DEF IInv, Holding
<1>8. Stops'
  <2>1. Busy(v) => vmJob[v] = v
    BY Zenon DEF IInv, Holding
  <2>2. job'[k] = "queued"
    BY <1>2, Zenon DEF Accept, IInv, Shape
  <2> QED
    BY <1>0, <1>1, <1>3, <1>4, <1>5, <2>1, <2>2, SMTT(30) DEF IInv, Stops
<1> QED
  BY <1>4, <1>6, <1>7, <1>8, Zenon DEF IInv

\* Every step keeps IInv.
LEMMA NextKeeps ==
  ASSUME IInv, [Next]_vars
  PROVE  IInv'
<1>1. CASE UNCHANGED vars
  <2>1. UNCHANGED <<http, job, waits, vmState, owns, vmJob, closing, machine>>
    BY <1>1, Zenon DEF vars, ops, vms, driver, server
  <2>2. /\ DOMAIN machine' = Keys
        /\ \A v \in Keys : machine'[v] # "none" => machine[v] # "none"
    BY <2>1, Zenon DEF IInv, Shape
  <2> QED
    BY <2>1, <2>2, Quiet, Zenon
<1>2. ASSUME NEW c \in Clients, NEW k \in Keys, NEW r \in Requests, Request(c, k, r)
      PROVE  IInv'
  BY <1>2, RequestStep, Zenon
<1>3. ASSUME NEW c \in Clients, Mutate(c)
      PROVE  IInv'
  <2>0. c \in Callers
    BY Zenon DEF Callers
  <2>1. CASE Refuse(c)
    BY <2>0, <2>1, TalkSteps, Zenon
  <2>2. ASSUME NEW k \in Keys, AcceptPull(c, k) \/ AcceptStart(c, k)
        PROVE  IInv'
    BY <2>2, AcceptPullStep, AcceptStartStep, Zenon
  <2>3. ASSUME NEW k \in Keys, NEW v \in Keys, AcceptGlass(c, k, v) \/ AcceptStop(c, k, v)
        PROVE  IInv'
    BY <2>3, AcceptGlassStep, AcceptStopStep, Zenon
  <2> QED
    BY <1>3, <2>1, <2>2, <2>3, Zenon DEF Mutate
<1>4. ASSUME NEW c \in Clients, Answer(c) \/ ShutdownFails(c)
      PROVE  IInv'
  <2>1. c \in Callers
    BY Zenon DEF Callers
  <2> QED
    BY <1>4, <2>1, AnswerStep, TalkSteps, Zenon
<1>5. ASSUME NEW k \in Keys, Job(k) \/ GuestExits(k)
      PROVE  IInv'
  <2>1. CASE StartJob(k)
    BY <2>1, StartMoves, PlainMoves, Zenon DEF StartJob
  <2>2. CASE StopJob(k)
    BY <2>2, StopMoves, PlainMoves, Zenon DEF StopJob
  <2>3. CASE GlassJob(k)
    BY <2>3, QuietSteps, PlainMoves, Zenon DEF GlassJob
  <2> QED
    BY <1>5, <2>1, <2>2, <2>3, QuietSteps, PlainMoves, Zenon DEF Job
<1>6. CASE Monitor
  <2>1. ASSUME NEW v \in Keys, (\E gone \in BOOLEAN : MonitorAsks(v, gone)) \/ MonitorFails(v)
        PROVE  IInv'
    BY <2>1, QuietSteps, MonitorStep, Zenon
  <2>2. CASE MonitorLooks
    <3>1. UNCHANGED <<http, job, waits, vmState, owns, vmJob, closing, machine>>
      BY <2>2, Zenon DEF MonitorLooks, ops, vms, driver, server
    <3>2. /\ DOMAIN machine' = Keys
          /\ \A v \in Keys : machine'[v] # "none" => machine[v] # "none"
      BY <3>1, Zenon DEF IInv, Shape
    <3> QED
      BY <3>1, <3>2, Quiet, Zenon
  <2> QED
    BY <1>6, <2>1, <2>2, Zenon DEF Monitor
<1>7. ASSUME NEW c \in Callers, Shutdown(c)
      PROVE  IInv'
  <2>1. CASE ShutdownStops(c)
    <3>1. PICK k \in Keys : TRUE
      BY <2>1, Zenon DEF ShutdownStops
    <3> QED
      BY <2>1, <3>1, QuietSteps, Zenon
  <2> QED
    BY <1>7, <2>1, TalkSteps, Zenon DEF Shutdown
<1>8. CASE ParentGone \/ ParentStops
  <2>1. Parent \in Callers
    BY Zenon DEF Callers
  <2> QED
    BY <1>8, <2>1, TalkSteps, Zenon
<1>9. CASE ReleaseOwned \/ Exit
  <2>1. UNCHANGED <<http, job, waits, vmState, owns, vmJob, closing>>
    BY <1>9, Zenon DEF ReleaseOwned, Exit, ops, vms
  <2>2. DOMAIN machine = Keys
    BY Zenon DEF IInv, Shape
  <2>3. /\ DOMAIN machine' = Keys
        /\ \A v \in Keys : machine'[v] # "none" => machine[v] # "none"
    BY <1>9, <2>2, Zenon DEF ReleaseOwned, Exit, driver
  <2> QED
    BY <2>1, <2>3, Quiet, Zenon
<1>10. CASE Step
  BY <1>2, <1>3, <1>4, <1>5, <1>6, <1>7, <1>8, <1>9, <1>10, Zenon DEF Step
<1> QED
  BY <1>1, <1>10, Zenon DEF Next, Ended

\* Every reachable state of the server has the shape IInv describes.
THEOREM InvCorrect == Spec => []IInv
<1>1. Init => IInv
  BY InitHolds, Zenon
<1>2. IInv /\ [Next]_vars => IInv'
  BY NextKeeps, Zenon
<1> QED
  BY <1>1, <1>2, PTL DEF Spec

\* The headless backend never holds two machines, and every machine the driver
\* holds is marked as owning resources, so that a failed start or stop can be
\* followed by another stop: for every number of clients, keys and requests.
THEOREM OneMachineCorrect == Spec => []OneMachine
<1>1. IInv => OneMachine
  BY Zenon DEF IInv, Owned, Alone, Live, OneMachine
<1> QED
  BY <1>1, InvCorrect, PTL

-----------------------------------------------------------------------------
WindowPlaces == {"desktop", "window", "closed"}

\* A job of a Glass request that has, or may still open, a window.
Window(g) == request[g].route = "glass" /\ job[g] \in WindowPlaces \cup {"queued"}

\* What an operation reports at each place of its job, and the routes of the
\* places that Places does not name.
Reports(place, state, route) ==
  /\ place = "none" => state = "none"
  /\ place = "queued" => state = "queued"
  /\ place \in StartPlaces \cup {"pull", "wait", "stop", "desktop"} => state = "running"
  /\ place \in {"window", "closed"} => state \in {"running", "succeeded"}
  /\ place \in {"leave", "done"} => state \in {"succeeded", "failed"}
  /\ place = "pull" => route = "pull"
  /\ place \in WindowPlaces => route = "glass"

Reported == \A k \in Keys : Reports(job[k], opState[k], request[k].route)

\* A request about a machine names one that exists.
Targets ==
  \A k \in Keys : request[k].route \in {"glass", "stop"} =>
    request[k].vm \in Keys /\ vmState[request[k].vm] # "none"

\* A machine that starts has its start as active operation.
ActiveStart == \A v \in Keys : vmState[v] = "starting" => active[v] = v

\* The active operation of a machine is one about that machine, in progress; a
\* start is active only as long as the machine starts.
ActiveAbout ==
  \A v \in Keys : active[v] # None =>
    /\ active[v] \in Keys /\ Unfinished(active[v]) /\ Vm(active[v]) = v
    /\ request[active[v]].route \in {"start", "glass", "stop"}
    /\ request[active[v]].route = "start" => vmState[v] = "starting"

\* A stop is active as long as it has not ended.
ActiveStop ==
  \A k \in Keys : request[k].route = "stop" /\ Unfinished(k) =>
    active[Vm(k)] = k /\ vmState[Vm(k)] = "stopping"

\* A window's operation is active until it has ended or was cancelled.
ActiveGlass ==
  \A k \in Keys : request[k].route = "glass" /\ Unfinished(k) /\ ~Done(k) =>
    active[Vm(k)] = k

Actives == ActiveStart /\ ActiveAbout /\ ActiveStop /\ ActiveGlass

\* A machine with a window holds the done channel of the window's job.
WindowHeld ==
  \A g \in Keys : Window(g) => vmJob[Vm(g)] = g /\ glass[Vm(g)] \in {"starting", "open"}

\* A stop in progress waits for the window's job, and has not gone on.
WindowWaited ==
  \A k, g \in Keys :
    /\ request[k].route = "stop" /\ job[k] \in {"queued", "wait", "stop"}
    /\ Window(g) /\ Vm(g) = Vm(k)
    => job[k] # "stop" /\ waits[k] = g

\* The main thread runs the window of a job that has one.
WindowUi == ui # None => ui \in Keys /\ job[ui] = "window"

Windows == WindowHeld /\ WindowWaited /\ WindowUi

\* What is called stopped is not live.
StoppedGone == \A v \in Keys : vmState[v] = "stopped" => ~Live(v)

\* A request in progress is the only one with its key, and not answered yet.
Unanswered ==
  /\ \A c \in Clients : at[c] # "idle" => key[c] \in Keys /\ reply[key[c]] = "pending"
  /\ \A c, d \in Clients : at[c] # "idle" /\ at[d] # "idle" /\ key[c] = key[d] => c = d
  /\ \A c \in Clients : at[c] = "answer" => out[c] \in Answers

\* A shutdown has succeeded; whether the caller has its answer or not.
Over == stopped \/ \E c \in Callers : out[c] = "stopped"

\* After that nothing is left, and nothing begins.
Complete ==
  Over => /\ closing /\ Drained /\ owns = {}
          /\ \A v \in Keys : machine[v] = "none" /\ vmState[v] \in {"none", "stopped"}

RInv ==
  TypeOK /\ Reported /\ Targets /\ Actives /\ Windows /\ StoppedGone /\ Unanswered /\ Complete

-----------------------------------------------------------------------------
(* Types.                                                                  *)

\* A key is a positive number, so it is not the nil of the pointers.
LEMMA KeysPositive == None \notin Keys
BY KeysAssumption DEF None, Keys

\* The machine that mutate and monitorVMs find has a job's cancel function.
LEMMA HasJob ==
  ASSUME TypeOK, NEW v \in Keys, vmState[v] # "none"
  PROVE  vmJob[v] \in Keys
BY Zenon DEF TypeOK

\* The server starts with no operation, machine or job.
LEMMA TypedInit == Init => TypeOK
<1>1. /\ None \in {None} /\ "none" \in JobPlaces
      /\ [route |-> "pull", vm |-> None] \in Requests
  BY DEF JobPlaces, Requests
<1>2. ASSUME Init
      PROVE  /\ request \in [Keys -> Requests] /\ job \in [Keys -> JobPlaces]
             /\ monitor \in [todo : SUBSET Keys, gone : SUBSET Keys]
             /\ cancelled \subseteq Keys /\ owns \subseteq Keys
  BY <1>1, <1>2 DEF Init
<1>3. ASSUME Init
      PROVE  /\ at \in [Callers -> {"idle", "mutate", "answer", "gate", "drain", "driver", "done"}]
             /\ key \in [Callers -> Keys \cup {None}]
             /\ out \in [Callers -> Answers \cup {"none"}]
             /\ reply \in [Keys -> Answers \cup {"unused", "pending"}]
             /\ opState \in [Keys -> {"none", "queued", "running", "succeeded", "failed"}]
             /\ waits \in [Keys -> Keys \cup {None}]
             /\ timer \in [Keys -> {"off", "armed", "fired"}]
  BY <1>3, Zenon DEF Init
<1>4. ASSUME Init
      PROVE  /\ vmState \in [Keys -> {"none", "starting", "running", "stopping", "stopped", "failed"}]
             /\ active \in [Keys -> Keys \cup {None}]
             /\ glass \in [Keys -> {"none", "starting", "open", "closed", "failed"}]
             /\ vmJob \in [Keys -> Keys \cup {None}]
             /\ machine \in [Keys -> {"none", "created", "running", "exited"}]
  BY <1>4, Zenon DEF Init
<1>5. ASSUME Init
      PROVE  /\ ui \in Keys \cup {None} /\ gate \in Callers \cup {None}
             /\ exit \in {"no", "stopped", "fatal"}
             /\ \A v \in Keys : vmState[v] = "none"
  BY <1>5, Zenon DEF Init
<1>6. ASSUME Init PROVE images \in BOOLEAN /\ closing \in BOOLEAN /\ stopped \in BOOLEAN
  BY <1>6, Zenon DEF Init
<1> QED
  BY <1>2, <1>3, <1>4, <1>5, <1>6, Zenon DEF TypeOK

\* Requests and their answers.
LEMMA TypedHttp ==
  ASSUME TypeOK, IInv, Unanswered, NEW c \in Clients,
         \/ \E k \in Keys, r \in Requests : Request(c, k, r)
         \/ Refuse(c) \/ Answer(c) \/ ShutdownFails(c)
  PROVE  TypeOK'
<1>0. c \in Callers
  BY Zenon DEF Callers
<1>1. ASSUME NEW k \in Keys, NEW r \in Requests, Request(c, k, r) PROVE TypeOK'
  <2>1. vmState[k] = "none"
    BY <1>1, Zenon DEF Request, FirstUse, Unused, IInv, Fresh
  <2>2. \A v \in Keys : v # k => request'[v] = request[v]
    BY <1>1, ZenonT(60) DEF Request, TypeOK
  <2>3. \A v \in Keys : vmState[v] # "none" => request'[v].route = "start" /\ vmJob[v] # None
    BY <2>1, <2>2, Zenon DEF TypeOK
  <2> QED
    BY <1>0, <1>1, <2>3, ZenonT(60) DEF TypeOK, Request, ops, vms, driver, server
<1>2. CASE Refuse(c)
  BY <1>0, <1>2, Zenon DEF TypeOK, Refuse, Responds, Answers, ops, vms, driver, server
<1>3. CASE Answer(c)
  <2>1. out[c] \in Answers
    BY <1>3, Zenon DEF Answer, Unanswered
  <2> QED
    BY <1>0, <1>3, <2>1, Zenon DEF TypeOK, Answer, ops, vms, driver
<1>4. CASE ShutdownFails(c)
  BY <1>0, <1>4, Zenon DEF TypeOK, ShutdownFails, Returns, Responds, Answers, ops, vms, driver
<1> QED
  BY <1>1, <1>2, <1>3, <1>4, Zenon

\* Accepted requests.
LEMMA TypedAccept ==
  ASSUME TypeOK, IInv, NEW c \in Clients, NEW k \in Keys, NEW v \in Keys,
         AcceptPull(c, k) \/ AcceptStart(c, k) \/ AcceptGlass(c, k, v) \/ AcceptStop(c, k, v)
  PROVE  TypeOK'
<1>0. c \in Callers /\ "accepted" \in Answers /\ "queued" \in JobPlaces
  BY Zenon DEF Callers, Answers, JobPlaces
<1>1. CASE AcceptPull(c, k)
  BY <1>0, <1>1, Zenon DEF TypeOK, AcceptPull, Accept, Responds, vms, driver, server
<1>2. CASE AcceptStart(c, k)
  <2>1. request[k].route = "start" /\ k # None
    BY <1>2, KeysPositive, Zenon DEF AcceptStart, Accept
  <2> QED
    BY <1>0, <1>2, <2>1, SMTT(30) DEF TypeOK, AcceptStart, Accept, Responds, Holds, driver, server
<1>3. CASE AcceptGlass(c, k, v)
  <2>1. k # None
    BY KeysPositive, Zenon
  <2> QED
    BY <1>0, <1>3, <2>1, SMTT(30) DEF TypeOK, AcceptGlass, Accept, Responds, Holds, driver, server
<1>4. CASE AcceptStop(c, k, v)
  <2>1. vmJob[v] \in Keys /\ vmState[v] # "none"
    BY <1>4, HasJob, Zenon DEF AcceptStop
  <2> QED
    BY <1>0, <1>4, <2>1, SMTT(30) DEF TypeOK, AcceptStop, Accept, Responds, driver, server
<1> QED
  BY <1>1, <1>2, <1>3, <1>4, Zenon

\* Steps of the jobs and of their timers.
LEMMA TypedJob ==
  ASSUME TypeOK, IInv, NEW k \in Keys, Job(k) \/ GuestExits(k)
  PROVE  TypeOK'
<1>0. /\ StartPlaces \subseteq JobPlaces
      /\ {"pull", "wait", "stop", "desktop", "window", "closed", "leave", "done"}
           \subseteq JobPlaces
  BY Zenon DEF StartPlaces, JobPlaces
<1>1. CASE JobBegins(k)
  <2>1. Begun(request[k].route) \in JobPlaces
    BY DEF Begun, JobPlaces
  <2> QED
    BY <1>1, <2>1, ZenonT(60) DEF TypeOK, JobBegins, At, http, vms, driver, server
<1>2. CASE TimesOut(k)
  BY <1>2 DEF TypeOK, TimesOut, http, vms, driver, server
<1>3. CASE TimerFires(k) \/ TimerCancels(k)
  BY <1>3, SMTT(30) DEF TypeOK, TimerFires, TimerCancels, http, vms, driver, server
<1>4. CASE Leave(k)
  BY <1>0, <1>4 DEF TypeOK, Leave, At, http, vms, driver, server
<1>5. CASE StopPowersOff(k) \/ GuestExits(k)
  BY <1>5, SMTT(30) DEF TypeOK, StopPowersOff, GuestExits, PowersOff, http, ops, vms, server
<1>6. CASE \E ok \in BOOLEAN : PullEnds(k, ok)
  BY <1>0, <1>6 DEF TypeOK, PullEnds, At, Finish, http, vms, driver, server
<1>7. CASE StartCreates(k) \/ StartBoots(k)
  BY <1>0, <1>7, SMTT(30) DEF TypeOK, StartPlaces, StartCreates, StartBoots, At, http, vms, server
<1>8. CASE StartFails(k)
  BY <1>0, <1>8 DEF TypeOK, StartPlaces, StartFails, At, http, vms, driver, server
<1>9. CASE StartEnds(k)
  BY <1>0, <1>9 DEF TypeOK, StartEnds, StillStarting, At, Finish, http, driver, server
<1>10. CASE \E ok \in BOOLEAN : StartCleaned(k, ok)
  <2>1. PICK ok \in BOOLEAN : StartCleaned(k, ok)
    BY <1>10, Zenon
  <2>2. /\ machine' \in [Keys -> {"none", "created", "running", "exited"}]
        /\ UNCHANGED ui
    BY <2>1, SMTT(30) DEF TypeOK, StartCleaned, DriverStop, Releases, driver
  <2> QED
    <3>1. /\ UNCHANGED <<at, key, out, request, reply, waits, cancelled, timer, images, glass,
                          vmJob, monitor, closing, gate, stopped, exit>>
          /\ job' = [job EXCEPT ![k] = "leave"] /\ opState' = [opState EXCEPT ![k] = "failed"]
          /\ owns' \in {owns, owns \ {k}}
          /\ vmState' \in {vmState, [vmState EXCEPT ![k] = "failed"]}
          /\ active' \in {active, [active EXCEPT ![k] = None]}
          /\ vmState[k] = "none" => vmState' = vmState
      BY <2>1, Zenon DEF StartCleaned, StillStarting, At, Finish, http, server
    <3> QED
      BY <1>0, <2>2, <3>1 DEF TypeOK
<1>11. CASE StopWaits(k)
  BY <1>0, <1>11, Zenon DEF TypeOK, StopWaits, At, http, vms, driver, server
<1>12. CASE StopGivesUp(k) \/ \E ok \in BOOLEAN : StopEnds(k, ok)
  <2>1. /\ machine' \in [Keys -> {"none", "created", "running", "exited"}]
        /\ UNCHANGED ui
    <3>1. CASE UNCHANGED <<machine, ui>>
      BY <3>1, Zenon DEF TypeOK
    <3>2. CASE Releases(Vm(k))
      BY <3>2, ZenonT(60) DEF TypeOK, Releases
    <3> QED
      BY <1>12, <3>1, <3>2, Zenon DEF StopGivesUp, StopEnds, DriverStop, driver
  <2>2. job' = [job EXCEPT ![k] = "leave"] /\ \E ok \in BOOLEAN : Stopped(k, ok)
    BY <1>12, Zenon DEF StopGivesUp, StopEnds, At
  <2>3. Vm(k) \in Keys
    <3>1. request[k].route = "stop" /\ request[k].vm \in Keys
      BY <1>12, Zenon DEF StopGivesUp, StopEnds, At, IInv, Places, Stops
    <3> QED
      BY <3>1, Zenon DEF Vm
  <2>4. vmState[Vm(k)] # "none"
    BY <1>12, Zenon DEF StopGivesUp, StopEnds, At, IInv, Places, Stops, Vm
  <2>5. PICK v \in Keys : v = Vm(k) /\ vmState[v] # "none"
    BY <2>3, <2>4, Zenon
  <2> QED
    BY <1>0, <2>1, <2>2, <2>5, SMTT(30) DEF TypeOK, Stopped, Finish, http, server
<1>13. CASE GlassOpens(k) \/ WindowCloses(k)
  BY <1>0, <1>13 DEF TypeOK, GlassOpens, WindowCloses, At, http, vms, server
<1>14. CASE GlassPresents(k)
  BY <1>14, Zenon DEF TypeOK, GlassPresents, TimerOff, Finish, http, driver, server
<1>15. CASE \E ok \in BOOLEAN : GlassEnds(k, ok)
  <2>1. /\ UNCHANGED <<at, key, out, request, reply, waits, cancelled, images, vmState, owns,
                        vmJob, machine, ui, monitor, closing, gate, stopped, exit>>
        /\ job' = [job EXCEPT ![k] = "leave"] /\ timer' = TimerOff(k)
        /\ opState' \in {opState, [opState EXCEPT ![k] = "failed"]}
        /\ \E g \in {"closed", "failed"} : glass' = [glass EXCEPT ![Vm(k)] = g]
        /\ active' = Clears(k)
    BY <1>15, ZenonT(60) DEF GlassEnds, At, NotPresented, Finish, http, driver, server
  <2>2. active' \in [Keys -> Keys \cup {None}]
    BY <2>1, ZenonT(60) DEF TypeOK, Clears
  <2>3. timer' \in [Keys -> {"off", "armed", "fired"}]
    BY <2>1 DEF TypeOK, TimerOff
  <2>4. glass' \in [Keys -> {"none", "starting", "open", "closed", "failed"}]
    <3>1. PICK g \in {"closed", "failed"} : glass' = [glass EXCEPT ![Vm(k)] = g]
      BY <2>1, Zenon
    <3> QED
      BY <3>1, ZenonT(60) DEF TypeOK
  <2>5. opState' \in [Keys -> {"none", "queued", "running", "succeeded", "failed"}]
    BY <2>1 DEF TypeOK
  <2>6. job' \in [Keys -> JobPlaces]
    BY <1>0, <2>1 DEF TypeOK
  <2> QED
    BY <2>1, <2>2, <2>3, <2>4, <2>5, <2>6, ZenonT(60) DEF TypeOK
<1> QED
  BY <1>1, <1>2, <1>3, <1>4, <1>5, <1>6, <1>7, <1>8, <1>9, <1>10, <1>11, <1>12, <1>13, <1>14,
     <1>15, Zenon DEF Job, StartJob, StopJob, GlassJob

\* Steps of the monitor, of a shutdown and of the process.
LEMMA TypedRest ==
  ASSUME TypeOK, IInv,
         \/ Monitor \/ ParentGone \/ (\E c \in Callers : Shutdown(c))
         \/ ParentStops \/ ReleaseOwned \/ Exit \/ UNCHANGED vars
  PROVE  TypeOK'
<1>0. Parent \in Callers /\ "stopped" \in Answers
  BY Zenon DEF Callers, Answers
<1>1. CASE MonitorLooks
  BY <1>1, Zenon DEF TypeOK, MonitorLooks, http, ops, vms, driver, server
<1>2. ASSUME NEW v \in Keys, \E gone \in BOOLEAN : MonitorAsks(v, gone) PROVE TypeOK'
  BY <1>2, SMTT(30) DEF TypeOK, MonitorAsks, http, ops, vms, driver, server
<1>3. ASSUME NEW v \in Keys, MonitorFails(v) PROVE TypeOK'
  <2>1. vmState[v] = "running" => vmJob[v] \in Keys
    BY HasJob, Zenon
  <2> QED
    BY <1>3, <2>1 DEF TypeOK, MonitorFails, http, driver, server
<1>4. CASE ParentGone \/ ParentStops
  <2>1. /\ at' \in {[at EXCEPT ![Parent] = "gate"], [at EXCEPT ![Parent] = "done"]}
        /\ UNCHANGED <<key, out, request, reply, ops, vms, driver, monitor, closing, gate, exit>>
        /\ stopped' \in {stopped, TRUE}
    BY <1>4, Zenon DEF ParentGone, ParentStops, server
  <2>2. at' \in [Callers -> {"idle", "mutate", "answer", "gate", "drain", "driver", "done"}]
    BY <1>0, <2>1 DEF TypeOK
  <2>3. stopped' \in BOOLEAN
    BY <2>1, Zenon DEF TypeOK
  <2> QED
    BY <2>1, <2>2, <2>3, Zenon DEF TypeOK, ops, vms, driver
<1>5. ASSUME NEW c \in Callers, ShutdownBegins(c) \/ ShutdownDrains(c) PROVE TypeOK'
  <2>1. CASE ShutdownBegins(c)
    BY <2>1 DEF TypeOK, ShutdownBegins, vms, driver
  <2>2. CASE ShutdownDrains(c)
    BY <2>2, SMTT(30) DEF TypeOK, ShutdownDrains, ops, vms, driver, server
  <2> QED
    BY <1>5, <2>1, <2>2, ZenonT(60)
<1>6. ASSUME NEW c \in Callers, ShutdownStops(c) PROVE TypeOK'
  BY <1>6, SMTT(30) DEF TypeOK, ShutdownStops, PowersOff, Releases, http, ops, vms, server
<1>7. ASSUME NEW c \in Callers, ShutdownEnds(c) PROVE TypeOK'
  BY <1>0, <1>7, SMTT(30) DEF TypeOK, ShutdownEnds, Returns, Responds, ops, driver
<1>8. CASE ReleaseOwned \/ Exit
  BY <1>8, SMTT(30) DEF TypeOK, ReleaseOwned, Exit, http, ops, vms, driver
<1>9. CASE UNCHANGED vars
  BY <1>9, Zenon DEF TypeOK, vars, http, ops, vms, driver, server
<1> QED
  BY <1>1, <1>2, <1>3, <1>4, <1>5, <1>6, <1>7, <1>8, <1>9, Zenon DEF Monitor, Shutdown

-----------------------------------------------------------------------------
(* What operations, machines and windows report.                           *)

RCore == Reported /\ Targets /\ Actives /\ Windows /\ StoppedGone

\* The server starts with nothing to report.
LEMMA CoreInit == Init => RCore
<1> SUFFICES ASSUME Init PROVE RCore
  OBVIOUS
<1>1. /\ \A k \in Keys : request[k].route = "pull" /\ opState[k] = "none" /\ job[k] = "none"
                         /\ vmState[k] = "none" /\ active[k] = None
      /\ ui = None
  BY DEF Init
<1>2. Reported
  BY <1>1, Zenon DEF Reported, Reports, StartPlaces, WindowPlaces
<1>3. Targets /\ Actives
  BY <1>1, Zenon DEF Targets, Actives, ActiveStart, ActiveAbout, ActiveStop, ActiveGlass, Unfinished
<1>4. Windows /\ StoppedGone
  BY <1>1, Zenon DEF Windows, WindowHeld, WindowWaited, WindowUi, StoppedGone, Window
<1> QED
  BY <1>2, <1>3, <1>4, Zenon DEF RCore

\* The variables that are functions of keys.
LEMMA Domains ==
  ASSUME TypeOK
  PROVE  /\ DOMAIN request = Keys /\ DOMAIN opState = Keys /\ DOMAIN job = Keys
         /\ DOMAIN waits = Keys /\ DOMAIN vmState = Keys /\ DOMAIN active = Keys
         /\ DOMAIN glass = Keys /\ DOMAIN vmJob = Keys /\ DOMAIN machine = Keys
         /\ DOMAIN reply = Keys
<1>1. /\ request \in [Keys -> Requests] /\ job \in [Keys -> JobPlaces]
      /\ opState \in [Keys -> {"none", "queued", "running", "succeeded", "failed"}]
      /\ waits \in [Keys -> Keys \cup {None}]
      /\ reply \in [Keys -> Answers \cup {"unused", "pending"}]
  BY Zenon DEF TypeOK
<1>2. /\ vmState \in [Keys -> {"none", "starting", "running", "stopping", "stopped", "failed"}]
      /\ active \in [Keys -> Keys \cup {None}]
      /\ glass \in [Keys -> {"none", "starting", "open", "closed", "failed"}]
      /\ vmJob \in [Keys -> Keys \cup {None}]
      /\ machine \in [Keys -> {"none", "created", "running", "exited"}]
  BY Zenon DEF TypeOK
<1> QED
  BY <1>1, <1>2, Zenon

\* Steps that change no report about machines.  More contexts may have ended,
\* and jobs may have gone on.
LEMMA CoreKept ==
  ASSUME RCore,
         UNCHANGED <<request, waits, vms>>, cancelled \subseteq cancelled',
         Reported', WindowUi',
         \A j \in Keys : Unfinished(j)' <=> Unfinished(j),
         \A j \in Keys : Window(j)' => Window(j),
         \A j \in Keys : request[j].route = "stop" /\ job'[j] \in {"queued", "wait", "stop"}
                           => job[j] \in {"queued", "wait", "stop"},
         \A j \in Keys : job'[j] = "stop" => job[j] = "stop" \/ job[waits[j]] = "done",
         \A v \in Keys : Live(v)' => Live(v)
  PROVE  RCore'
<1>0. UNCHANGED <<vmState, owns, active, glass, vmJob>>
  BY Zenon DEF vms
<1>1. Targets'
  BY <1>0, Zenon DEF RCore, Targets
<1>2. \A j \in Keys : Vm(j)' = Vm(j) /\ (Done(j) => Done(j)')
  BY Zenon DEF Vm, Done
<1>3. ActiveStart'
  BY <1>0, Zenon DEF RCore, Actives, ActiveStart
<1>4. ActiveStop'
  <2> SUFFICES ASSUME NEW j \in Keys, request[j].route = "stop", Unfinished(j)'
               PROVE  active[Vm(j)'] = j /\ vmState[Vm(j)'] = "stopping"
    BY <1>0, Zenon DEF ActiveStop
  <2>1. Vm(j)' = Vm(j) /\ Unfinished(j)
    BY <1>2, Zenon
  <2>2. active[Vm(j)] = j /\ vmState[Vm(j)] = "stopping"
    BY <2>1, Zenon DEF RCore, Actives, ActiveStop
  <2> QED
    BY <2>1, <2>2, Zenon
<1>5. ActiveGlass'
  BY <1>0, <1>2, Zenon DEF RCore, Actives, ActiveGlass
<1>6. ActiveAbout'
  <2> SUFFICES ASSUME NEW v \in Keys, active[v] # None
               PROVE  /\ active[v] \in Keys /\ Unfinished(active[v])' /\ Vm(active[v])' = v
                      /\ request[active[v]].route \in {"start", "glass", "stop"}
                      /\ request[active[v]].route = "start" => vmState[v] = "starting"
    BY <1>0, Zenon DEF ActiveAbout
  <2>1. /\ active[v] \in Keys /\ Unfinished(active[v]) /\ Vm(active[v]) = v
        /\ request[active[v]].route \in {"start", "glass", "stop"}
        /\ request[active[v]].route = "start" => vmState[v] = "starting"
    BY Zenon DEF RCore, Actives, ActiveAbout
  <2> QED
    BY <1>0, <1>2, <2>1, Zenon
<1>7. WindowHeld'
  BY <1>0, <1>2, Zenon DEF RCore, Windows, WindowHeld
<1>8. WindowWaited'
  <2> SUFFICES ASSUME NEW i \in Keys, NEW g \in Keys, request[i].route = "stop",
                      job'[i] \in {"queued", "wait", "stop"}, Window(g)', Vm(g)' = Vm(i)'
               PROVE  job'[i] # "stop" /\ waits[i] = g
    BY Zenon DEF WindowWaited
  <2>1. Window(g) /\ Vm(g) = Vm(i)
    BY <1>2, Zenon
  <2>2. job[g] # "done"
    BY <2>1, Zenon DEF Window, WindowPlaces
  <2>3. job[i] \in {"queued", "wait", "stop"}
    BY Zenon
  <2>4. job[i] # "stop" /\ waits[i] = g
    BY <2>1, <2>3, Zenon DEF RCore, Windows, WindowWaited
  <2> QED
    BY <2>2, <2>4, Zenon
<1>9. StoppedGone'
  BY <1>0, Zenon DEF RCore, StoppedGone
<1> QED
  BY <1>1, <1>3, <1>4, <1>5, <1>6, <1>7, <1>8, <1>9, Zenon DEF RCore, Actives, Windows

\* Steps of no job: contexts end, and the driver loses machines.
LEMMA CoreQuiet ==
  ASSUME RCore, UNCHANGED <<request, opState, job, waits, vms, ui>>,
         cancelled \subseteq cancelled',
         \A v \in Keys : machine'[v] # "none" => machine[v] # "none"
  PROVE  RCore'
<1>1. Reported' /\ WindowUi'
  BY Zenon DEF RCore, Reported, Windows, WindowUi
<1>2. \A j \in Keys : /\ Unfinished(j)' <=> Unfinished(j)
                      /\ Window(j)' => Window(j)
                      /\ Live(j)' => Live(j)
  BY Zenon DEF Unfinished, Window, Live, Busy
<1>3. \A j \in Keys : Unfinished(j)' <=> Unfinished(j)
  BY <1>2, Zenon
<1>4. \A j \in Keys : Window(j)' => Window(j)
  BY <1>2, Zenon
<1>5. \A j \in Keys : Live(j)' => Live(j)
  BY <1>2, Zenon
<1>6. \A j \in Keys : request[j].route = "stop" /\ job'[j] \in {"queued", "wait", "stop"}
                        => job[j] \in {"queued", "wait", "stop"}
  BY Zenon
<1>7. \A j \in Keys : job'[j] = "stop" => job[j] = "stop" \/ job[waits[j]] = "done"
  BY Zenon
<1> QED
  BY <1>1, <1>3, <1>4, <1>5, <1>6, <1>7, CoreKept, Zenon

\* One job goes on: what it reports is right where it arrives.
LEMMA ReportedMove ==
  ASSUME RCore, TypeOK, NEW k \in Keys, NEW to, NEW s, UNCHANGED request,
         job'[k] = to, opState'[k] = s,
         \A j \in Keys : j # k => job'[j] = job[j] /\ opState'[j] = opState[j],
         Reports(to, s, request[k].route)
  PROVE  Reported'
BY Zenon DEF RCore, Reported

\* Steps of a job that has not ended and does not end.
LEMMA CoreProgress ==
  ASSUME RCore, TypeOK, NEW k \in Keys, NEW to, NEW s,
         UNCHANGED <<request, waits, vms>>, cancelled \subseteq cancelled',
         job'[k] = to, opState'[k] = s,
         \A j \in Keys : j # k => job'[j] = job[j] /\ opState'[j] = opState[j],
         Reports(to, s, request[k].route),
         WindowUi',
         s \in {"queued", "running"} <=> Unfinished(k),
         to # "queued", to \in WindowPlaces => Window(k),
         to \in {"wait", "stop"} => job[k] \in {"queued", "wait"},
         to = "stop" => job[waits[k]] = "done",
         to \in StartPlaces => Busy(k),
         \A v \in Keys : machine'[v] # "none" => Live(v)
  PROVE  RCore'
<1>1. job'[k] = to /\ opState'[k] = s
  BY Zenon
<1>2. \A j \in Keys : j # k => job'[j] = job[j] /\ opState'[j] = opState[j]
  BY Zenon
<1>3. Reported'
  BY ReportedMove, Zenon
<1>4. \A j \in Keys : Unfinished(j)' <=> Unfinished(j)
  BY <1>1, <1>2, Zenon DEF Unfinished
<1>5. \A j \in Keys : Window(j)' => Window(j)
  BY <1>1, <1>2, Zenon DEF Window
<1>6. \A j \in Keys : request[j].route = "stop" /\ job'[j] \in {"queued", "wait", "stop"}
                        => job[j] \in {"queued", "wait", "stop"}
  BY <1>1, <1>2, Zenon
<1>7. \A j \in Keys : job'[j] = "stop" => job[j] = "stop" \/ job[waits[j]] = "done"
  BY <1>1, <1>2, Zenon
<1>8. \A v \in Keys : Busy(v)' => Busy(v)
  BY <1>1, <1>2, Zenon DEF Busy
<1>9. \A v \in Keys : Live(v)' => Live(v)
  BY <1>8, Zenon DEF Live
<1> QED
  BY <1>3, <1>4, <1>5, <1>6, <1>7, <1>9, CoreKept, Zenon

\* The operation of job k ends: no machine reports it any more, and only a
\* machine that did may change its state.
LEMMA CoreEnding ==
  ASSUME RCore, TypeOK, NEW k \in Keys, NEW to, NEW s,
         UNCHANGED <<request, waits, vmJob>>, cancelled \subseteq cancelled',
         job'[k] = to, opState'[k] = s,
         \A j \in Keys : j # k => job'[j] = job[j] /\ opState'[j] = opState[j],
         Reports(to, s, request[k].route), s \in {"succeeded", "failed"},
         to \notin {"queued", "wait", "stop"} \cup StartPlaces,
         to \in WindowPlaces => Window(k),
         WindowUi',
         \A v \in Keys : active'[v] = IF active[v] = k THEN None ELSE active[v],
         \A v \in Keys : vmState'[v] # vmState[v] =>
           active[v] = k /\ vmState'[v] \notin {"none", "starting"},
         \A v \in Keys : vmState'[v] = "stopped" => ~Live(v)',
         \A v \in Keys : active[v] = k => vmState'[v] # "starting",
         \A g \in Keys : Window(g)' => glass'[Vm(g)] \in {"starting", "open"}
  PROVE  RCore'
<1>1. job'[k] = to /\ opState'[k] = s
  BY Zenon
<1>2. \A j \in Keys : j # k => job'[j] = job[j] /\ opState'[j] = opState[j]
  BY Zenon
<1>3. Reported'
  BY ReportedMove, Zenon
<1>4. \A j \in Keys : Unfinished(j)' <=> (Unfinished(j) /\ j # k)
  BY <1>1, <1>2, Zenon DEF Unfinished
<1>5. \A j \in Keys : Window(j)' => Window(j)
  BY <1>1, <1>2, ZenonT(60) DEF Window
<1>6. \A j \in Keys : Vm(j)' = Vm(j) /\ (Done(j) => Done(j)')
  BY Zenon DEF Vm, Done
<1>7. Targets'
  BY ZenonT(60) DEF RCore, Targets
<1>8. ActiveStart'
  <2> SUFFICES ASSUME NEW v \in Keys, vmState'[v] = "starting" PROVE active'[v] = v
    BY Zenon DEF ActiveStart
  <2>1. vmState[v] = "starting" /\ active[v] # k
    BY Zenon
  <2>2. active[v] = v
    BY <2>1, Zenon DEF RCore, Actives, ActiveStart
  <2> QED
    BY <2>1, <2>2, Zenon
<1>9. ActiveAbout'
  <2> SUFFICES ASSUME NEW v \in Keys, active'[v] # None
               PROVE  /\ active'[v] \in Keys /\ Unfinished(active[v])' /\ Vm(active[v])' = v
                      /\ request[active'[v]].route \in {"start", "glass", "stop"}
                      /\ request[active'[v]].route = "start" => vmState'[v] = "starting"
    BY Zenon DEF ActiveAbout
  <2>1. active'[v] = active[v] /\ active[v] # k /\ active[v] # None
    BY Zenon
  <2>2. /\ active[v] \in Keys /\ Unfinished(active[v]) /\ Vm(active[v]) = v
        /\ request[active[v]].route \in {"start", "glass", "stop"}
        /\ request[active[v]].route = "start" => vmState[v] = "starting"
    BY <2>1, Zenon DEF RCore, Actives, ActiveAbout
  <2>3. vmState'[v] = vmState[v]
    BY <2>1, Zenon
  <2> QED
    BY <1>4, <1>6, <2>1, <2>2, <2>3, ZenonT(60)
<1>10. ActiveStop'
  <2> SUFFICES ASSUME NEW j \in Keys, request[j].route = "stop", Unfinished(j)'
               PROVE  active'[Vm(j)'] = j /\ vmState'[Vm(j)'] = "stopping"
    BY Zenon DEF ActiveStop
  <2>1. Vm(j)' = Vm(j) /\ Unfinished(j) /\ j # k
    BY <1>4, <1>6, Zenon
  <2>2. active[Vm(j)] = j /\ vmState[Vm(j)] = "stopping"
    BY <2>1, Zenon DEF RCore, Actives, ActiveStop
  <2>3. Vm(j) \in Keys
    BY Zenon DEF RCore, Targets, Vm
  <2>4. active'[Vm(j)] = j /\ vmState'[Vm(j)] = vmState[Vm(j)]
    BY <2>1, <2>2, <2>3, Zenon
  <2> QED
    BY <2>1, <2>2, <2>4, Zenon
<1>11. ActiveGlass'
  <2> SUFFICES ASSUME NEW j \in Keys, request[j].route = "glass", Unfinished(j)', ~Done(j)'
               PROVE  active'[Vm(j)'] = j
    BY Zenon DEF ActiveGlass
  <2>1. Vm(j)' = Vm(j) /\ Unfinished(j) /\ j # k /\ ~Done(j)
    BY <1>4, <1>6, Zenon
  <2>2. active[Vm(j)] = j
    BY <2>1, Zenon DEF RCore, Actives, ActiveGlass
  <2>3. Vm(j) \in Keys
    BY Zenon DEF RCore, Targets, Vm
  <2>4. active'[Vm(j)] = j
    BY <2>1, <2>2, <2>3, Zenon
  <2> QED
    BY <2>1, <2>4, Zenon
<1>12. WindowHeld'
  <2> SUFFICES ASSUME NEW g \in Keys, Window(g)'
               PROVE  vmJob[Vm(g)'] = g /\ glass'[Vm(g)'] \in {"starting", "open"}
    BY Zenon DEF WindowHeld
  <2>1. Vm(g)' = Vm(g) /\ Window(g)
    BY <1>5, <1>6, Zenon
  <2>2. vmJob[Vm(g)] = g
    BY <2>1, Zenon DEF RCore, Windows, WindowHeld
  <2>3. glass'[Vm(g)] \in {"starting", "open"}
    BY <2>1, Zenon
  <2> QED
    BY <2>1, <2>2, <2>3, Zenon
<1>13. WindowWaited'
  <2> SUFFICES ASSUME NEW i \in Keys, NEW g \in Keys, request[i].route = "stop",
                      job'[i] \in {"queued", "wait", "stop"}, Window(g)', Vm(g)' = Vm(i)'
               PROVE  job'[i] # "stop" /\ waits[i] = g
    BY ZenonT(60) DEF WindowWaited
  <2>1. Window(g) /\ Vm(g) = Vm(i)
    BY <1>5, <1>6, ZenonT(60)
  <2>2. job[i] \in {"queued", "wait", "stop"} /\ job'[i] = job[i]
    BY <1>1, <1>2, Zenon
  <2>3. job[i] # "stop" /\ waits[i] = g
    BY <2>1, <2>2, Zenon DEF RCore, Windows, WindowWaited
  <2> QED
    BY <2>2, <2>3, Zenon
<1>14. StoppedGone'
  BY Zenon DEF StoppedGone
<1> QED
  BY <1>3, <1>7, <1>8, <1>9, <1>10, <1>11, <1>12, <1>13, <1>14, Zenon
     DEF RCore, Actives, Windows

\* Steps of a job from one place to another, and what the driver has after them.
LEMMA CoreGoesOn ==
  ASSUME RCore, IInv, TypeOK, NEW k \in Keys,
         JobBegins(k) \/ StartCreates(k) \/ StartBoots(k) \/ StartFails(k) \/ StopWaits(k)
  PROVE  RCore'
<1>0. UNCHANGED <<request, waits, vms, ui, cancelled>>
  BY Zenon DEF JobBegins, StartCreates, StartBoots, StartFails, StopWaits, http, driver
<1>1. PICK to \in JobPlaces : job' = [job EXCEPT ![k] = to] /\ to # "queued"
                              /\ (to = "stop" => job[k] = "wait" /\ job[waits[k]] = "done")
                              /\ (to \in StartPlaces => request[k].route = "start"
                                                        /\ job[k] \in StartPlaces \cup {"queued"})
                              /\ (to \in {"pull", "wait", "desktop"} => job[k] = "queued")
                              /\ (to = "pull" => request[k].route = "pull")
                              /\ (to = "desktop" => request[k].route = "glass")
                              /\ to \in StartPlaces \cup {"pull", "wait", "stop", "desktop"}
  <2>1. CASE JobBegins(k)
    <3>1. request[k].route \in {"pull", "start", "glass", "stop"} /\ job[k] = "queued"
      BY <2>1, Zenon DEF JobBegins, At, IInv, Places
    <3>2. CASE request[k].route = "pull"
      BY <2>1, <3>1, <3>2 DEF JobBegins, At, Begun, JobPlaces, StartPlaces
    <3>3. CASE request[k].route = "start"
      BY <2>1, <3>1, <3>3 DEF JobBegins, At, Begun, JobPlaces, StartPlaces
    <3>4. CASE request[k].route = "glass"
      BY <2>1, <3>1, <3>4, SMTT(30) DEF JobBegins, At, Begun, JobPlaces, StartPlaces
    <3>5. CASE request[k].route = "stop"
      BY <2>1, <3>1, <3>5 DEF JobBegins, At, Begun, JobPlaces, StartPlaces
    <3> QED
      BY <3>1, <3>2, <3>3, <3>4, <3>5, Zenon
  <2>2. CASE StartCreates(k) \/ StartBoots(k) \/ StartFails(k)
    <3>1. job[k] \in StartPlaces
      BY <2>2, Zenon DEF StartCreates, StartBoots, StartFails, At, StartPlaces
    <3>2. request[k].route = "start"
      BY <3>1, ZenonT(60) DEF IInv, Places
    <3> QED
      BY <2>2, <3>1, <3>2 DEF StartCreates, StartBoots, StartFails, At, JobPlaces, StartPlaces
  <2>3. CASE StopWaits(k)
    BY <2>3 DEF StopWaits, At, Detached, JobPlaces, StartPlaces
  <2> QED
    BY <2>1, <2>2, <2>3, Zenon
<1>2. job'[k] = to /\ \A j \in Keys : j # k => job'[j] = job[j]
  BY <1>1, Domains, Zenon
<1>3. job[k] \in StartPlaces \cup {"queued", "wait"}
  BY Zenon DEF JobBegins, StartCreates, StartBoots, StartFails, StopWaits, At, StartPlaces
<1>4. Unfinished(k)
  BY <1>3, Zenon DEF RCore, Reported, Reports, Unfinished
<1>5. opState'[k] = "running" /\ \A j \in Keys : j # k => opState'[j] = opState[j]
  <2>1. CASE JobBegins(k)
    BY <2>1, Domains, Zenon DEF JobBegins
  <2>2. CASE ~JobBegins(k)
    <3>1. job[k] \in StartPlaces \cup {"wait"} /\ UNCHANGED opState
      BY <2>2, Zenon DEF StartCreates, StartBoots, StartFails, StopWaits, At, StartPlaces
    <3> QED
      BY <3>1, Zenon DEF RCore, Reported, Reports
  <2> QED
    BY <2>1, <2>2, Zenon
<1>6. Reports(to, "running", request[k].route)
  BY <1>1, Zenon DEF Reports, StartPlaces, WindowPlaces
<1>7. WindowUi'
  <2>1. job[k] # "window"
    BY <1>3, Zenon DEF StartPlaces
  <2> QED
    BY <1>0, <1>2, <2>1, Zenon DEF RCore, Windows, WindowUi
<1>8. to \in WindowPlaces => Window(k)
  BY <1>1, Zenon DEF Window, WindowPlaces, StartPlaces
<1>9. to \in StartPlaces => Busy(k)
  BY <1>1, Zenon DEF Busy
<1>10. \A v \in Keys : machine'[v] # "none" => Live(v)
  <2>1. CASE UNCHANGED machine
    BY <2>1, Zenon DEF Live
  <2>2. CASE StartCreates(k) \/ StartBoots(k)
    <3>1. to \in StartPlaces
      BY <1>2, <2>2, Domains, Zenon DEF StartCreates, StartBoots, At, StartPlaces
    <3>2. \A v \in Keys : v # k => machine'[v] = machine[v]
      BY <2>2, Domains, Zenon DEF StartCreates, StartBoots
    <3> QED
      BY <1>9, <3>1, <3>2, Zenon DEF Live
  <2> QED
    BY <2>1, <2>2, Zenon DEF JobBegins, StartFails, StopWaits, driver
<1>11. cancelled \subseteq cancelled'
  BY <1>0, Zenon
<1>12. to \in {"wait", "stop"} => job[k] \in {"queued", "wait"}
  BY <1>1, Zenon
<1>13. "running" \in {"queued", "running"} <=> Unfinished(k)
  BY <1>4, Zenon
<1>14. UNCHANGED <<request, waits, vms>>
  BY <1>0, Zenon
<1>15. to # "queued" /\ (to = "stop" => job[waits[k]] = "done")
  BY <1>1, Zenon
<1>16. \A j \in Keys : j # k => job'[j] = job[j] /\ opState'[j] = opState[j]
  BY <1>2, <1>5, Zenon
<1> QED
  BY <1>2, <1>5, <1>6, <1>7, <1>8, <1>9, <1>10, <1>11, <1>12, <1>13, <1>14, <1>15, <1>16,
     CoreProgress, ZenonT(60)

\* A job whose operation stays as it is: its window opens or closes, or its
\* deferred calls run.
LEMMA CoreWindowMoves ==
  ASSUME RCore, TypeOK, NEW k \in Keys, Leave(k) \/ GlassOpens(k) \/ WindowCloses(k)
  PROVE  RCore'
<1>0. /\ UNCHANGED <<request, waits, vms, opState, machine>>
      /\ cancelled \subseteq cancelled'
  BY Zenon DEF Leave, GlassOpens, WindowCloses, http, driver
<1>1. PICK to \in {"done", "window", "closed"} :
        /\ job' = [job EXCEPT ![k] = to]
        /\ to = "done" => job[k] = "leave" /\ ui' = ui
        /\ to = "window" => job[k] = "desktop" /\ ui' = k
        /\ to = "closed" => job[k] = "window" /\ ui' = None
  BY Zenon DEF Leave, GlassOpens, WindowCloses, At, driver
<1>2. job'[k] = to /\ \A j \in Keys : j # k => job'[j] = job[j] /\ opState'[j] = opState[j]
  BY <1>0, <1>1, Domains, Zenon
<1>3. /\ Reports(to, opState[k], request[k].route)
      /\ to \in WindowPlaces => Window(k)
  <2>1. Reports(job[k], opState[k], request[k].route)
    BY Zenon DEF RCore, Reported
  <2>2. CASE to = "done"
    BY <1>1, <2>1, <2>2, Zenon DEF Reports, StartPlaces, WindowPlaces
  <2>3. CASE to = "window"
    BY <1>1, <2>1, <2>3, Zenon DEF Reports, StartPlaces, WindowPlaces, Window
  <2>4. CASE to = "closed"
    BY <1>1, <2>1, <2>4, Zenon DEF Reports, StartPlaces, WindowPlaces, Window
  <2> QED
    BY <2>2, <2>3, <2>4, Zenon
<1>4. WindowUi'
  <2>1. CASE to = "done"
    <3>1. ui' # None => ui \in Keys /\ job[ui] = "window" /\ ui # k /\ ui' = ui
      BY <1>1, <2>1, Zenon DEF RCore, Windows, WindowUi
    <3> QED
      BY <1>2, <3>1, Zenon DEF WindowUi
  <2>2. CASE to = "window"
    BY <1>1, <1>2, <2>2, Zenon DEF WindowUi
  <2>3. CASE to = "closed"
    BY <1>1, <2>3, Zenon DEF WindowUi
  <2> QED
    BY <2>1, <2>2, <2>3, Zenon
<1>5. opState[k] \in {"queued", "running"} <=> Unfinished(k)
  BY Zenon DEF Unfinished
<1>6. to \notin {"queued", "wait", "stop"} /\ to \notin StartPlaces
  BY Zenon DEF StartPlaces
<1>7. \A v \in Keys : machine'[v] # "none" => Live(v)
  BY <1>0, Zenon DEF Live
<1>8. opState'[k] = opState[k] /\ job'[k] = to
  BY <1>0, <1>2, Zenon
<1>9. \A j \in Keys : j # k => job'[j] = job[j] /\ opState'[j] = opState[j]
  BY <1>2, Zenon
<1>10. UNCHANGED <<request, waits, vms>>
  BY <1>0, Zenon
<1>11. /\ to \in {"wait", "stop"} => job[k] \in {"queued", "wait"}
       /\ to = "stop" => job[waits[k]] = "done"
       /\ to \in StartPlaces => Busy(k)
       /\ to # "queued"
  BY <1>6, Zenon
<1> QED
  BY <1>0, <1>3, <1>4, <1>5, <1>7, <1>8, <1>9, <1>10, <1>11, CoreProgress, Zenon

\* The active operation of a machine is about it: the one of another machine
\* is another one.
LEMMA ActiveOf ==
  ASSUME RCore, NEW k \in Keys, NEW v \in Keys, active[v] = k, TypeOK
  PROVE  v = Vm(k) /\ Unfinished(k) /\ request[k].route \in {"start", "glass", "stop"}
<1>1. active[v] # None
  BY KeysPositive, Zenon
<1> QED
  BY <1>1, Zenon DEF RCore, Actives, ActiveAbout

\* A window that is not shown any more is not one of a job that goes on.
LEMMA OtherUi ==
  ASSUME RCore, NEW k \in Keys, UNCHANGED ui, job[k] # "window",
         \A j \in Keys : j # k => job'[j] = job[j]
  PROVE  WindowUi'
BY Zenon DEF RCore, Windows, WindowUi

\* The last critical section of a job: its operation ends, unless it had.
LEMMA CoreLeaves ==
  ASSUME RCore, TypeOK, NEW k \in Keys, job[k] # "window",
         job' = [job EXCEPT ![k] = "leave"],
         opState'[k] \in {"succeeded", "failed"},
         \A j \in Keys : j # k => opState'[j] = opState[j],
         UNCHANGED <<request, waits, cancelled, vmJob, ui>>,
         \A v \in Keys : active'[v] = IF active[v] = k THEN None ELSE active[v],
         \A v \in Keys : vmState'[v] # vmState[v] =>
           active[v] = k /\ vmState'[v] \notin {"none", "starting"},
         \A v \in Keys : vmState'[v] = "stopped" /\ vmState[v] # "stopped" =>
           machine'[v] = "none" /\ ~Busy(v),
         \A v \in Keys : active[v] = k => vmState'[v] # "starting",
         \A v \in Keys : machine'[v] # "none" => machine[v] # "none",
         \A v \in Keys : glass'[v] # glass[v] => Window(k) /\ v = Vm(k)
  PROVE  RCore'
<1>1. job'[k] = "leave" /\ \A j \in Keys : j # k => job'[j] = job[j]
  BY Domains, Zenon
<1>2. \A j \in Keys : j # k => job'[j] = job[j] /\ opState'[j] = opState[j]
  BY <1>1, Zenon
<1>3. Reports("leave", opState'[k], request[k].route)
  BY Zenon DEF Reports, StartPlaces, WindowPlaces
<1>4. WindowUi'
  BY <1>1, OtherUi, Zenon
<1>5. \A v \in Keys : Busy(v)' => Busy(v)
  BY <1>1, Zenon DEF Busy, StartPlaces
<1>6. \A v \in Keys : vmState'[v] = "stopped" => ~Live(v)'
  BY <1>5, Zenon DEF RCore, StoppedGone, Live
<1>7. \A g \in Keys : Window(g)' => Window(g) /\ g # k
  BY <1>1, Zenon DEF Window, WindowPlaces
<1>8. \A g \in Keys : Window(g)' => glass'[Vm(g)] \in {"starting", "open"}
  <2> SUFFICES ASSUME NEW g \in Keys, Window(g), g # k
               PROVE  glass'[Vm(g)] \in {"starting", "open"}
    BY <1>7, Zenon
  <2>1. vmJob[Vm(g)] = g /\ glass[Vm(g)] \in {"starting", "open"}
    BY Zenon DEF RCore, Windows, WindowHeld
  <2>2. Window(k) => vmJob[Vm(k)] = k
    BY Zenon DEF RCore, Windows, WindowHeld
  <2>3. Vm(g) \in Keys
    BY Zenon DEF Window, Vm, RCore, Targets
  <2>4. glass'[Vm(g)] = glass[Vm(g)]
    BY <2>1, <2>2, <2>3, Zenon
  <2> QED
    BY <2>1, <2>4, Zenon
<1>9. "leave" \notin {"queued", "wait", "stop"} \cup StartPlaces /\ "leave" \notin WindowPlaces
  BY Zenon DEF StartPlaces, WindowPlaces
<1>10. cancelled \subseteq cancelled'
  BY Zenon
<1> QED
  BY <1>1, <1>2, <1>3, <1>4, <1>6, <1>8, <1>9, <1>10, CoreEnding, Zenon

\* A pull, which is the active operation of no machine, ends.
LEMMA CorePullEnds ==
  ASSUME RCore, TypeOK, NEW k \in Keys, NEW ok \in BOOLEAN, PullEnds(k, ok)
  PROVE  RCore'
<1>0. /\ UNCHANGED <<request, waits, cancelled, vmJob, vmState, active, glass, machine, ui>>
      /\ job[k] = "pull" /\ job' = [job EXCEPT ![k] = "leave"]
  BY Zenon DEF PullEnds, At, http, vms, driver
<1>1. opState'[k] \in {"succeeded", "failed"} /\ \A j \in Keys : j # k => opState'[j] = opState[j]
  BY Domains, Zenon DEF PullEnds, Finish
<1>2. request[k].route = "pull"
  BY <1>0, Zenon DEF RCore, Reported, Reports
<1>3. \A v \in Keys : active[v] # k
  BY <1>2, ActiveOf, Zenon
<1>4. UNCHANGED <<request, waits, cancelled, vmJob, ui>>
  BY <1>0, ZenonT(60)
<1> QED
  BY <1>0, <1>1, <1>3, <1>4, CoreLeaves, Zenon

\* A start ends: with a machine that runs, or after its cleanup.
LEMMA CoreStartEnds ==
  ASSUME RCore, IInv, TypeOK, NEW k \in Keys,
         StartEnds(k) \/ \E ok \in BOOLEAN : StartCleaned(k, ok)
  PROVE  RCore'
<1>0. UNCHANGED <<request, waits, cancelled, vmJob, ui>>
  BY Zenon DEF StartEnds, StartCleaned, DriverStop, Releases, http, driver
<1>1. /\ UNCHANGED glass /\ job' = [job EXCEPT ![k] = "leave"]
      /\ job[k] \in {"guest", "cleanup"}
      /\ opState' = [opState EXCEPT ![k] = "succeeded"] \/ opState' = [opState EXCEPT ![k] = "failed"]
  BY Zenon DEF StartEnds, StartCleaned, At, Finish
<1>2. opState'[k] \in {"succeeded", "failed"} /\ \A j \in Keys : j # k => opState'[j] = opState[j]
  BY <1>1, Domains, Zenon
<1>3. request[k].route = "start"
  BY <1>1, Zenon DEF IInv, Places, StartPlaces
<1>4. Vm(k) = k
  BY <1>3, Zenon DEF Vm
<1>5. \A v \in Keys : v # k => active[v] # k
  BY <1>4, ActiveOf, Zenon
<1>6. vmState[k] # "starting" => active[k] # k
  <2> SUFFICES ASSUME active[k] = k PROVE vmState[k] = "starting"
    BY Zenon
  <2> QED
    BY <1>3, KeysPositive, Zenon DEF RCore, Actives, ActiveAbout
<1>7. vmState[k] = "starting" => active[k] = k
  BY Zenon DEF RCore, Actives, ActiveStart
<1>8. \/ /\ vmState[k] = "starting"
         /\ active' = [active EXCEPT ![k] = None]
         /\ \/ vmState' = [vmState EXCEPT ![k] = "running"]
            \/ vmState' = [vmState EXCEPT ![k] = "failed"]
      \/ vmState[k] # "starting" /\ UNCHANGED <<vmState, active>>
  BY Zenon DEF StartEnds, StartCleaned, StillStarting
<1>9. \A v \in Keys : active'[v] = IF active[v] = k THEN None ELSE active[v]
  BY <1>5, <1>6, <1>7, <1>8, Domains, Zenon
<1>10. \A v \in Keys : v # k => vmState'[v] = vmState[v]
  BY <1>8, Domains, Zenon
<1>11. vmState[k] = "starting" => vmState'[k] \in {"running", "failed"}
  BY <1>8, Domains, Zenon
<1>12. vmState[k] # "starting" => vmState' = vmState
  BY <1>8, Zenon
<1>13. \A v \in Keys : vmState'[v] # vmState[v] =>
          active[v] = k /\ vmState'[v] \notin {"none", "starting"}
  BY <1>7, <1>10, <1>11, <1>12, Zenon
<1>14. \A v \in Keys : vmState'[v] = "stopped" /\ vmState[v] # "stopped" =>
          machine'[v] = "none" /\ ~Busy(v)
  BY <1>10, <1>11, <1>12, Zenon
<1>15. \A v \in Keys : active[v] = k => vmState'[v] # "starting"
  BY <1>5, <1>6, <1>11, <1>12, Zenon
<1>16. \A v \in Keys : machine'[v] # "none" => machine[v] # "none"
  BY Domains, Zenon DEF StartEnds, StartCleaned, DriverStop, Releases, driver
<1> QED
  BY <1>0, <1>1, <1>2, <1>9, <1>13, <1>14, <1>15, <1>16, CoreLeaves, Zenon

\* A stop, which is the active operation of its machine, ends: only a machine
\* whose start has ended, and that the driver released, is called stopped.
LEMMA CoreStopEnds ==
  ASSUME RCore, IInv, TypeOK, NEW k \in Keys,
         StopGivesUp(k) \/ \E ok \in BOOLEAN : StopEnds(k, ok)
  PROVE  RCore'
<1>0. UNCHANGED <<request, waits, cancelled, vmJob, ui>>
  BY Zenon DEF StopGivesUp, StopEnds, Stopped, DriverStop, Releases, http, driver
<1>1. /\ UNCHANGED glass /\ job' = [job EXCEPT ![k] = "leave"]
      /\ job[k] \in {"wait", "stop"}
      /\ opState' = [opState EXCEPT ![k] = "succeeded"] \/ opState' = [opState EXCEPT ![k] = "failed"]
  BY Zenon DEF StopGivesUp, StopEnds, Stopped, At, Finish
<1>2. opState'[k] \in {"succeeded", "failed"} /\ \A j \in Keys : j # k => opState'[j] = opState[j]
  BY <1>1, Domains, Zenon
<1>3. request[k].route = "stop"
  BY <1>1, Zenon DEF IInv, Places
<1>4. Unfinished(k)
  BY <1>1, Zenon DEF RCore, Reported, Reports, Unfinished
<1>5. active[Vm(k)] = k /\ vmState[Vm(k)] = "stopping"
  BY <1>3, <1>4, Zenon DEF RCore, Actives, ActiveStop
<1>6. Vm(k) \in Keys
  BY <1>3, Zenon DEF RCore, Targets, Vm
<1>7. \A v \in Keys : v # Vm(k) => active[v] # k
  BY ActiveOf, Zenon
<1>8. active' = [active EXCEPT ![Vm(k)] = None]
  BY Zenon DEF StopGivesUp, StopEnds, Stopped
<1>9. \A v \in Keys : active'[v] = IF active[v] = k THEN None ELSE active[v]
  BY <1>5, <1>6, <1>7, <1>8, Domains, Zenon
<1>10. \/ vmState' = [vmState EXCEPT ![Vm(k)] = "failed"]
       \/ /\ vmState' = [vmState EXCEPT ![Vm(k)] = "stopped"]
          /\ job[k] = "stop" /\ Releases(Vm(k))
  BY Zenon DEF StopGivesUp, StopEnds, Stopped, At, DriverStop
<1>11. \A v \in Keys : v # Vm(k) => vmState'[v] = vmState[v]
  BY <1>6, <1>10, Domains, Zenon
<1>12. vmState'[Vm(k)] \in {"failed", "stopped"}
  BY <1>6, <1>10, Domains, Zenon
<1>13. \A v \in Keys : vmState'[v] # vmState[v] =>
          active[v] = k /\ vmState'[v] \notin {"none", "starting"}
  BY <1>5, <1>11, <1>12, Zenon
<1>14. vmState'[Vm(k)] = "stopped" => machine'[Vm(k)] = "none" /\ ~Busy(Vm(k))
  <2> SUFFICES ASSUME vmState'[Vm(k)] = "stopped"
               PROVE  machine'[Vm(k)] = "none" /\ ~Busy(Vm(k))
    OBVIOUS
  <2>1. job[k] = "stop" /\ Releases(Vm(k))
    BY <1>6, <1>10, Domains, Zenon
  <2>2. ~Busy(request[k].vm)
    BY <1>3, <2>1, Zenon DEF IInv, Stops
  <2>3. Vm(k) = request[k].vm
    BY <1>3, Zenon DEF Vm
  <2>4. machine'[Vm(k)] = "none"
    BY <1>6, <2>1, Domains, Zenon DEF Releases
  <2> QED
    BY <2>2, <2>3, <2>4, Zenon
<1>15. \A v \in Keys : vmState'[v] = "stopped" /\ vmState[v] # "stopped" =>
          machine'[v] = "none" /\ ~Busy(v)
  BY <1>11, <1>14, Zenon
<1>16. \A v \in Keys : active[v] = k => vmState'[v] # "starting"
  BY <1>7, <1>12, Zenon
<1>17. \A v \in Keys : machine'[v] # "none" => machine[v] # "none"
  BY Domains, Zenon DEF StopGivesUp, StopEnds, DriverStop, Releases, driver
<1> QED
  BY <1>0, <1>1, <1>2, <1>9, <1>13, <1>15, <1>16, <1>17, CoreLeaves, Zenon

\* A Glass job ends: it had the only window of its machine.
LEMMA CoreGlassEnds ==
  ASSUME RCore, TypeOK, NEW k \in Keys, NEW ok \in BOOLEAN, GlassEnds(k, ok)
  PROVE  RCore'
<1>0. UNCHANGED <<request, waits, cancelled, vmJob, vmState, machine, ui>>
  BY Zenon DEF GlassEnds, http, driver
<1>1. job' = [job EXCEPT ![k] = "leave"] /\ job[k] \in {"desktop", "closed"}
  BY Zenon DEF GlassEnds, At
<1>2. request[k].route = "glass" /\ opState[k] \in {"running", "succeeded"}
  BY <1>1, Zenon DEF RCore, Reported, Reports, WindowPlaces
<1>3. Window(k) /\ Vm(k) \in Keys
  BY <1>1, <1>2, Zenon DEF Window, WindowPlaces, RCore, Targets, Vm
<1>4. opState'[k] \in {"succeeded", "failed"} /\ \A j \in Keys : j # k => opState'[j] = opState[j]
  <2>1. CASE opState[k] = "running"
    BY <2>1, Domains, Zenon DEF GlassEnds, NotPresented, Finish
  <2>2. CASE opState[k] = "succeeded"
    BY <2>2, Zenon DEF GlassEnds, NotPresented
  <2> QED
    BY <1>2, <2>1, <2>2, Zenon
<1>5. \A v \in Keys : v # Vm(k) => active[v] # k
  BY ActiveOf, Zenon
<1>6. active' = [active EXCEPT ![Vm(k)] = IF active[Vm(k)] = k THEN None ELSE active[Vm(k)]]
  BY Zenon DEF GlassEnds, Clears
<1>7. \A v \in Keys : active'[v] = IF active[v] = k THEN None ELSE active[v]
  BY <1>3, <1>5, <1>6, Domains, Zenon
<1>8. \A v \in Keys : glass'[v] # glass[v] => Window(k) /\ v = Vm(k)
  BY <1>3, Domains, Zenon DEF GlassEnds
<1>9. \A v \in Keys : active[v] = k => vmState[v] # "starting"
  <2> SUFFICES ASSUME NEW v \in Keys, active[v] = k, vmState[v] = "starting" PROVE FALSE
    BY Zenon
  <2>1. v = k
    BY Zenon DEF RCore, Actives, ActiveStart
  <2>2. request[v].route = "start"
    BY Zenon DEF TypeOK
  <2> QED
    BY <1>2, <2>1, <2>2, Zenon
<1>10. UNCHANGED <<request, waits, cancelled, vmJob, ui>>
  BY <1>0, ZenonT(60)
<1> QED
  BY <1>0, <1>1, <1>4, <1>7, <1>8, <1>9, <1>10, CoreLeaves, Zenon

\* The first frame ends the operation of a Glass job: it was the active one.
LEMMA CorePresents ==
  ASSUME RCore, TypeOK, NEW k \in Keys, GlassPresents(k)
  PROVE  RCore'
<1>0. UNCHANGED <<request, waits, vmJob, cancelled, job, vmState, machine, ui>>
  BY Zenon DEF GlassPresents, http, driver
<1>1. /\ job[k] = "window" /\ ~Done(k) /\ opState[k] = "running"
      /\ glass' = [glass EXCEPT ![Vm(k)] = "open"]
      /\ active' = [active EXCEPT ![Vm(k)] = None]
      /\ opState' = [opState EXCEPT ![k] = "succeeded"]
  BY Zenon DEF GlassPresents, Finish
<1>2. request[k].route = "glass"
  BY <1>1, Zenon DEF RCore, Reported, Reports, WindowPlaces
<1>3. Window(k) /\ Vm(k) \in Keys
  BY <1>1, <1>2, Zenon DEF Window, WindowPlaces, RCore, Targets, Vm
<1>4. Unfinished(k)
  BY <1>1, Zenon DEF Unfinished
<1>5. active[Vm(k)] = k
  BY <1>1, <1>2, <1>4, Zenon DEF RCore, Actives, ActiveGlass
<1>6. \A v \in Keys : v # Vm(k) => active[v] # k
  BY ActiveOf, Zenon
<1>7. \A v \in Keys : active'[v] = IF active[v] = k THEN None ELSE active[v]
  BY <1>1, <1>3, <1>5, <1>6, Domains, Zenon
<1>8. opState'[k] = "succeeded" /\ job'[k] = "window"
  BY <1>0, <1>1, Domains, Zenon
<1>9. \A j \in Keys : j # k => job'[j] = job[j] /\ opState'[j] = opState[j]
  BY <1>0, <1>1, Domains, Zenon
<1>10. Reports("window", "succeeded", request[k].route)
  BY <1>2, Zenon DEF Reports, StartPlaces, WindowPlaces
<1>11. WindowUi'
  BY <1>0, Zenon DEF RCore, Windows, WindowUi
<1>12. \A v \in Keys : active[v] = k => vmState'[v] # "starting"
  <2> SUFFICES ASSUME NEW v \in Keys, active[v] = k, vmState[v] = "starting" PROVE FALSE
    BY <1>0, Zenon
  <2>1. v = k
    BY Zenon DEF RCore, Actives, ActiveStart
  <2>2. request[v].route = "start"
    BY Zenon DEF TypeOK
  <2> QED
    BY <1>2, <2>1, <2>2, Zenon
<1>13. \A v \in Keys : Live(v)' => Live(v)
  BY <1>0, Zenon DEF Live, Busy
<1>14. \A v \in Keys : vmState'[v] = "stopped" => ~Live(v)'
  BY <1>0, <1>13, Zenon DEF RCore, StoppedGone
<1>15. \A g \in Keys : Window(g)' => glass'[Vm(g)] \in {"starting", "open"}
  <2> SUFFICES ASSUME NEW g \in Keys, Window(g) PROVE glass'[Vm(g)] \in {"starting", "open"}
    BY <1>0, Zenon DEF Window
  <2>1. glass[Vm(g)] \in {"starting", "open"} /\ Vm(g) \in Keys
    BY Zenon DEF RCore, Windows, WindowHeld, Window, Targets, Vm
  <2> QED
    BY <1>1, <2>1, Domains, Zenon
<1>16. "window" \notin {"queued", "wait", "stop"} \cup StartPlaces
  BY Zenon DEF StartPlaces
<1>17. cancelled \subseteq cancelled' /\ UNCHANGED <<request, waits, vmJob>>
  BY <1>0, Zenon
<1>18. \A v \in Keys : vmState'[v] # vmState[v] =>
          active[v] = k /\ vmState'[v] \notin {"none", "starting"}
  BY <1>0, Zenon
<1> QED
  BY <1>3, <1>7, <1>8, <1>9, <1>10, <1>11, <1>12, <1>14, <1>15, <1>16, <1>17, <1>18,
     CoreEnding, ZenonT(60)

\* Every step of a job, and a guest that ends by itself.
LEMMA CoreJob ==
  ASSUME RCore, IInv, TypeOK, NEW k \in Keys, Job(k) \/ GuestExits(k)
  PROVE  RCore'
<1>1. CASE TimesOut(k) \/ TimerFires(k) \/ TimerCancels(k)
  <2>1. /\ UNCHANGED <<request, opState, job, waits, vms, ui>>
        /\ cancelled \subseteq cancelled' /\ UNCHANGED machine
    BY <1>1, Zenon DEF TimesOut, TimerFires, TimerCancels, http, driver
  <2>2. \A v \in Keys : machine'[v] # "none" => machine[v] # "none"
    BY <2>1, Zenon
  <2> QED
    BY <2>1, <2>2, CoreQuiet, Zenon
<1>2. CASE StopPowersOff(k) \/ GuestExits(k)
  <2>1. /\ UNCHANGED <<request, opState, job, waits, vms, ui>>
        /\ cancelled \subseteq cancelled'
        /\ \E v : PowersOff(v)
    BY <1>2, Zenon DEF StopPowersOff, GuestExits, PowersOff, http, ops
  <2>2. \A v \in Keys : machine'[v] # "none" => machine[v] # "none"
    BY <2>1, Domains, Zenon DEF PowersOff
  <2> QED
    BY <2>1, <2>2, CoreQuiet, Zenon
<1>3. CASE JobBegins(k) \/ StartCreates(k) \/ StartBoots(k) \/ StartFails(k) \/ StopWaits(k)
  BY <1>3, CoreGoesOn, Zenon
<1>4. CASE Leave(k) \/ GlassOpens(k) \/ WindowCloses(k)
  BY <1>4, CoreWindowMoves, Zenon
<1>5. CASE \E ok \in BOOLEAN : PullEnds(k, ok)
  BY <1>5, CorePullEnds, Zenon
<1>6. CASE StartEnds(k) \/ \E ok \in BOOLEAN : StartCleaned(k, ok)
  BY <1>6, CoreStartEnds, Zenon
<1>7. CASE StopGivesUp(k) \/ \E ok \in BOOLEAN : StopEnds(k, ok)
  BY <1>7, CoreStopEnds, Zenon
<1>8. CASE GlassPresents(k)
  BY <1>8, CorePresents, ZenonT(60)
<1>9. CASE \E ok \in BOOLEAN : GlassEnds(k, ok)
  BY <1>9, CoreGlassEnds, Zenon
<1> QED
  BY <1>1, <1>2, <1>3, <1>4, <1>5, <1>6, <1>7, <1>8, <1>9, ZenonT(60)
     DEF Job, StartJob, StopJob, GlassJob

\* The first request with a key: the key has no operation yet.
LEMMA CoreRequest ==
  ASSUME RCore, IInv, TypeOK, NEW c \in Clients, NEW k \in Keys, NEW r \in Requests,
         Request(c, k, r)
  PROVE  RCore'
<1>0. UNCHANGED <<opState, job, waits, cancelled, vmState, owns, active, glass, vmJob, machine, ui>>
  BY Zenon DEF Request, ops, vms, driver
<1>1. job[k] = "none" /\ vmState[k] = "none"
  BY Zenon DEF Request, FirstUse, Unused, IInv, Fresh
<1>2. opState[k] = "none"
  BY <1>1, Zenon DEF RCore, Reported, Reports
<1>3. request'[k] = r /\ \A j \in Keys : j # k => request'[j] = request[j]
  BY Domains, Zenon DEF Request
<1>4. r.route \in {"glass", "stop"} => r.vm \in Keys /\ vmState[r.vm] # "none"
  <2>1. r.route \in {"glass", "stop"} => r.vm \in Keys
    BY DEF Requests
  <2> QED
    BY <2>1, KeysPositive, Zenon DEF Request
<1>5. ~Unfinished(k) /\ ~Unfinished(k)' /\ ~Window(k)'
  BY <1>0, <1>1, <1>2, Zenon DEF Unfinished, Window, WindowPlaces
<1>6. \A j \in Keys : j # k => /\ Vm(j)' = Vm(j) /\ (Unfinished(j)' <=> Unfinished(j))
                               /\ Window(j)' => Window(j)
                               /\ Done(j) => Done(j)'
  BY <1>0, <1>3, Zenon DEF Vm, Unfinished, Window, Done
<1>7. Reported'
  <2> SUFFICES ASSUME NEW j \in Keys PROVE Reports(job[j], opState[j], request'[j].route)
    BY <1>0, Zenon DEF Reported
  <2>1. CASE j = k
    BY <1>1, <1>2, <2>1, Zenon DEF Reports, StartPlaces, WindowPlaces
  <2>2. CASE j # k
    BY <1>3, <2>2, Zenon DEF RCore, Reported
  <2> QED
    BY <2>1, <2>2, Zenon
<1>8. Targets'
  <2> SUFFICES ASSUME NEW j \in Keys, request'[j].route \in {"glass", "stop"}
               PROVE  request'[j].vm \in Keys /\ vmState[request'[j].vm] # "none"
    BY <1>0, Zenon DEF Targets
  <2>1. CASE j = k
    BY <1>3, <1>4, <2>1, Zenon
  <2>2. CASE j # k
    BY <1>3, <2>2, Zenon DEF RCore, Targets
  <2> QED
    BY <2>1, <2>2, Zenon
<1>9. ActiveStart'
  BY <1>0, Zenon DEF RCore, Actives, ActiveStart
<1>10. ActiveAbout'
  <2> SUFFICES ASSUME NEW v \in Keys, active[v] # None
               PROVE  /\ active[v] \in Keys /\ Unfinished(active[v])' /\ Vm(active[v])' = v
                      /\ request'[active[v]].route \in {"start", "glass", "stop"}
                      /\ request'[active[v]].route = "start" => vmState[v] = "starting"
    BY <1>0, Zenon DEF ActiveAbout
  <2>1. /\ active[v] \in Keys /\ Unfinished(active[v]) /\ Vm(active[v]) = v
        /\ request[active[v]].route \in {"start", "glass", "stop"}
        /\ request[active[v]].route = "start" => vmState[v] = "starting"
    BY Zenon DEF RCore, Actives, ActiveAbout
  <2>2. active[v] # k /\ active'[v] = active[v]
    BY <1>0, <1>5, <2>1, Zenon
  <2> QED
    BY <1>3, <1>6, <2>1, <2>2, Zenon
<1>11. ActiveStop'
  <2> SUFFICES ASSUME NEW j \in Keys, request'[j].route = "stop", Unfinished(j)'
               PROVE  active[Vm(j)'] = j /\ vmState[Vm(j)'] = "stopping"
    BY <1>0, Zenon DEF ActiveStop
  <2>1. j # k
    BY <1>5, Zenon
  <2>2. Vm(j)' = Vm(j) /\ Unfinished(j) /\ request[j].route = "stop"
    BY <1>3, <1>6, <2>1, Zenon
  <2>3. active[Vm(j)] = j /\ vmState[Vm(j)] = "stopping"
    BY <2>2, Zenon DEF RCore, Actives, ActiveStop
  <2> QED
    BY <2>2, <2>3, Zenon
<1>12. ActiveGlass'
  <2> SUFFICES ASSUME NEW j \in Keys, request'[j].route = "glass", Unfinished(j)', ~Done(j)'
               PROVE  active[Vm(j)'] = j
    BY <1>0, Zenon DEF ActiveGlass
  <2>1. j # k
    BY <1>5, Zenon
  <2>2. Vm(j)' = Vm(j) /\ Unfinished(j) /\ request[j].route = "glass" /\ ~Done(j)
    BY <1>3, <1>6, <2>1, Zenon
  <2>3. active[Vm(j)] = j
    BY <2>2, Zenon DEF RCore, Actives, ActiveGlass
  <2> QED
    BY <2>2, <2>3, Zenon
<1>13. WindowHeld'
  <2> SUFFICES ASSUME NEW g \in Keys, Window(g)'
               PROVE  vmJob[Vm(g)'] = g /\ glass[Vm(g)'] \in {"starting", "open"}
    BY <1>0, Zenon DEF WindowHeld
  <2>1. Vm(g)' = Vm(g) /\ Window(g)
    BY <1>5, <1>6, Zenon
  <2>2. vmJob[Vm(g)] = g /\ glass[Vm(g)] \in {"starting", "open"}
    BY <2>1, Zenon DEF RCore, Windows, WindowHeld
  <2> QED
    BY <2>1, <2>2, Zenon
<1>14. WindowWaited'
  <2> SUFFICES ASSUME NEW i \in Keys, NEW g \in Keys, request'[i].route = "stop",
                      job[i] \in {"queued", "wait", "stop"}, Window(g)', Vm(g)' = Vm(i)'
               PROVE  job[i] # "stop" /\ waits[i] = g
    BY <1>0, Zenon DEF WindowWaited
  <2>1. i # k /\ g # k
    BY <1>1, <1>5, Zenon
  <2>2. Window(g) /\ Vm(g) = Vm(i) /\ request[i].route = "stop"
    BY <1>3, <1>6, <2>1, Zenon
  <2> QED
    BY <2>2, Zenon DEF RCore, Windows, WindowWaited
<1>15. WindowUi'
  BY <1>0, Zenon DEF RCore, Windows, WindowUi
<1>16. StoppedGone'
  <2>1. \A v \in Keys : v # k /\ Live(v)' => Live(v)
    BY <1>0, <1>3, Zenon DEF Live, Busy
  <2> QED
    BY <1>0, <1>1, <2>1, Zenon DEF RCore, StoppedGone
<1> QED
  BY <1>7, <1>8, <1>9, <1>10, <1>11, <1>12, <1>13, <1>14, <1>15, <1>16, Zenon
     DEF RCore, Actives, Windows

\* An accepted operation: it becomes the active one of its machine, which no
\* stop in progress is about.  Only a stop finds a window, and waits for it.
LEMMA CoreAccepts ==
  ASSUME RCore, TypeOK, NEW k \in Keys, job[k] = "none",
         request[k].route \in {"pull", "start", "glass", "stop"},
         UNCHANGED <<request, machine, ui>>, cancelled \subseteq cancelled',
         job' = [job EXCEPT ![k] = "queued"], opState' = [opState EXCEPT ![k] = "queued"],
         \A v \in Keys : v # Vm(k) => /\ active'[v] = active[v] /\ vmState'[v] = vmState[v]
                                      /\ vmJob'[v] = vmJob[v] /\ glass'[v] = glass[v],
         request[k].route # "pull" => Vm(k) \in Keys /\ active'[Vm(k)] = k,
         request[k].route = "pull" => Vm(k) \notin Keys,
         Vm(k) \in Keys => (request[k].route = "start" <=> vmState'[Vm(k)] = "starting"),
         request[k].route = "stop" => vmState'[Vm(k)] = "stopping",
         Vm(k) \in Keys => vmState'[Vm(k)] \notin {"none", "stopped"},
         \A j \in Keys : request[j].route = "stop" /\ Unfinished(j) => Vm(j) # Vm(k),
         \A j \in Keys : request[j].route = "glass" /\ Unfinished(j) /\ Vm(j) = Vm(k) => Done(j)',
         \A j \in Keys : j # k => waits'[j] = waits[j],
         \A g \in Keys : Window(g) /\ Vm(g) = Vm(k) =>
           /\ request[k].route = "stop" /\ waits'[k] = g
           /\ vmJob'[Vm(k)] = vmJob[Vm(k)] /\ glass'[Vm(k)] = glass[Vm(k)],
         request[k].route = "glass" => vmJob'[Vm(k)] = k /\ glass'[Vm(k)] = "starting"
  PROVE  RCore'
<1>1. job'[k] = "queued" /\ opState'[k] = "queued" /\ opState[k] = "none"
  BY Domains, Zenon DEF RCore, Reported, Reports
<1>2. \A j \in Keys : j # k => job'[j] = job[j] /\ opState'[j] = opState[j]
  BY Domains, Zenon
<1>3. \A j \in Keys : Vm(j)' = Vm(j) /\ (Done(j) => Done(j)')
  BY Zenon DEF Vm, Done
<1>4. \A j \in Keys : Unfinished(j)' <=> Unfinished(j) \/ j = k
  BY <1>1, <1>2, Zenon DEF Unfinished
<1>5. \A g \in Keys : Window(g)' => Window(g) \/ (g = k /\ request[k].route = "glass")
  BY <1>1, <1>2, Zenon DEF Window
<1>6. ~Unfinished(k) /\ ~Window(k)
  BY <1>1, Zenon DEF Unfinished, Window, WindowPlaces
<1>7. Reported'
  <2> SUFFICES ASSUME NEW j \in Keys PROVE Reports(job'[j], opState'[j], request[j].route)
    BY Zenon DEF Reported
  <2>1. CASE j = k
    BY <1>1, <2>1, Zenon DEF Reports, StartPlaces, WindowPlaces
  <2>2. CASE j # k
    BY <1>2, <2>2, Zenon DEF RCore, Reported
  <2> QED
    BY <2>1, <2>2, Zenon
<1>8. Targets'
  <2> SUFFICES ASSUME NEW j \in Keys, request[j].route \in {"glass", "stop"}
               PROVE  request[j].vm \in Keys /\ vmState'[request[j].vm] # "none"
    BY Zenon DEF Targets
  <2>1. request[j].vm \in Keys /\ vmState[request[j].vm] # "none"
    BY Zenon DEF RCore, Targets
  <2> QED
    BY <2>1, Zenon
<1>9. ActiveStart'
  <2> SUFFICES ASSUME NEW v \in Keys, vmState'[v] = "starting" PROVE active'[v] = v
    BY Zenon DEF ActiveStart
  <2>1. CASE v = Vm(k)
    BY <2>1, Zenon DEF Vm
  <2>2. CASE v # Vm(k)
    BY <2>2, Zenon DEF RCore, Actives, ActiveStart
  <2> QED
    BY <2>1, <2>2, Zenon
<1>10. ActiveAbout'
  <2> SUFFICES ASSUME NEW v \in Keys, active'[v] # None
               PROVE  /\ active'[v] \in Keys /\ Unfinished(active[v])' /\ Vm(active[v])' = v
                      /\ request[active'[v]].route \in {"start", "glass", "stop"}
                      /\ request[active'[v]].route = "start" => vmState'[v] = "starting"
    BY Zenon DEF ActiveAbout
  <2>1. CASE v = Vm(k)
    <3>1. active'[v] = k
      BY <2>1, Zenon
    <3>2. Unfinished(k)' /\ Vm(k)' = v
      BY <1>3, <1>4, <2>1, Zenon
    <3>3. Unfinished(active[v])' /\ Vm(active[v])' = v
      BY <3>1, <3>2, ZenonT(60) DEF Unfinished, Vm
    <3> QED
      BY <2>1, <3>1, <3>3, Zenon
  <2>2. CASE v # Vm(k)
    <3>1. active'[v] = active[v] /\ vmState'[v] = vmState[v]
      BY <2>2, Zenon
    <3>2. /\ active[v] \in Keys /\ Unfinished(active[v]) /\ Vm(active[v]) = v
          /\ request[active[v]].route \in {"start", "glass", "stop"}
          /\ request[active[v]].route = "start" => vmState[v] = "starting"
      BY <3>1, Zenon DEF RCore, Actives, ActiveAbout
    <3> QED
      BY <1>3, <1>4, <3>1, <3>2, ZenonT(60)
  <2> QED
    BY <2>1, <2>2, Zenon
<1>11. ActiveStop'
  <2> SUFFICES ASSUME NEW j \in Keys, request[j].route = "stop", Unfinished(j)'
               PROVE  active'[Vm(j)'] = j /\ vmState'[Vm(j)'] = "stopping"
    BY Zenon DEF ActiveStop
  <2>0. Vm(j)' = Vm(j) /\ Vm(j) \in Keys
    BY <1>3, Zenon DEF RCore, Targets, Vm
  <2>1. CASE j = k
    BY <2>0, <2>1, Zenon
  <2>2. CASE j # k
    <3>1. Unfinished(j) /\ Vm(j) # Vm(k)
      BY <1>4, <2>2, Zenon
    <3>2. active[Vm(j)] = j /\ vmState[Vm(j)] = "stopping"
      BY <3>1, Zenon DEF RCore, Actives, ActiveStop
    <3>3. active'[Vm(j)] = j /\ vmState'[Vm(j)] = "stopping"
      BY <2>0, <3>1, <3>2, Zenon
    <3> QED
      BY <2>0, <3>3, Zenon
  <2> QED
    BY <2>1, <2>2, Zenon
<1>12. ActiveGlass'
  <2> SUFFICES ASSUME NEW j \in Keys, request[j].route = "glass", Unfinished(j)', ~Done(j)'
               PROVE  active'[Vm(j)'] = j
    BY Zenon DEF ActiveGlass
  <2>0. Vm(j)' = Vm(j) /\ Vm(j) \in Keys
    BY <1>3, Zenon DEF RCore, Targets, Vm
  <2>1. CASE j = k
    BY <2>0, <2>1, Zenon
  <2>2. CASE j # k
    <3>1. Unfinished(j) /\ Vm(j) # Vm(k) /\ ~Done(j)
      BY <1>3, <1>4, <2>2, Zenon
    <3>2. active[Vm(j)] = j
      BY <3>1, Zenon DEF RCore, Actives, ActiveGlass
    <3>3. active'[Vm(j)] = j
      BY <2>0, <3>1, <3>2, Zenon
    <3> QED
      BY <2>0, <3>3, Zenon
  <2> QED
    BY <2>1, <2>2, Zenon
<1>13. WindowHeld'
  <2> SUFFICES ASSUME NEW g \in Keys, Window(g)'
               PROVE  vmJob'[Vm(g)'] = g /\ glass'[Vm(g)'] \in {"starting", "open"}
    BY Zenon DEF WindowHeld
  <2>0. Vm(g)' = Vm(g) /\ request[g].route = "glass"
    BY <1>3, Zenon DEF Window
  <2>1. CASE g = k
    BY <2>0, <2>1, Zenon
  <2>2. CASE g # k
    <3>1. Window(g) /\ Vm(g) \in Keys
      BY <1>5, <2>0, <2>2, Zenon DEF RCore, Targets, Vm
    <3>2. vmJob[Vm(g)] = g /\ glass[Vm(g)] \in {"starting", "open"}
      BY <3>1, Zenon DEF RCore, Windows, WindowHeld
    <3>3. vmJob'[Vm(g)] = g /\ glass'[Vm(g)] = glass[Vm(g)]
      BY <3>1, <3>2, ZenonT(60)
    <3> QED
      BY <2>0, <3>2, <3>3, Zenon
  <2> QED
    BY <2>1, <2>2, Zenon
<1>14. WindowWaited'
  <2> SUFFICES ASSUME NEW i \in Keys, NEW g \in Keys, request[i].route = "stop",
                      job'[i] \in {"queued", "wait", "stop"}, Window(g)', Vm(g)' = Vm(i)'
               PROVE  job'[i] # "stop" /\ waits'[i] = g
    BY Zenon DEF WindowWaited
  <2>a. Vm(g)' = Vm(g) /\ Vm(i)' = Vm(i)
    BY <1>3, Zenon
  <2>0. Vm(g) = Vm(i)
    BY <2>a, Zenon
  <2>1. CASE i = k
    <3>1. Window(g)
      BY <1>5, <2>1, Zenon
    <3> QED
      BY <1>1, <2>0, <2>1, <3>1, Zenon
  <2>2. CASE i # k
    <3>1. job[i] \in {"queued", "wait", "stop"} /\ job'[i] = job[i] /\ waits'[i] = waits[i]
      BY <1>2, <2>2, Zenon
    <3>2. Unfinished(i)
      BY <3>1, Zenon DEF RCore, Reported, Reports, Unfinished
    <3>3. Window(g)
      BY <1>5, <2>0, <3>2, Zenon
    <3>4. job[i] # "stop" /\ waits[i] = g
      BY <2>0, <3>1, <3>3, Zenon DEF RCore, Windows, WindowWaited
    <3> QED
      BY <3>1, <3>4, Zenon
  <2> QED
    BY <2>1, <2>2, Zenon
<1>15. WindowUi'
  BY <1>2, ZenonT(60) DEF RCore, Windows, WindowUi
<1>16. StoppedGone'
  <2> SUFFICES ASSUME NEW v \in Keys, vmState'[v] = "stopped" PROVE ~Live(v)'
    BY Zenon DEF StoppedGone
  <2>1. v # Vm(k) /\ vmState[v] = "stopped"
    BY Zenon
  <2>2. ~Live(v)
    BY <2>1, Zenon DEF RCore, StoppedGone
  <2>3. v = k => request[k].route # "start"
    BY <2>1, Zenon DEF Vm
  <2> QED
    BY <1>2, <2>2, <2>3, Zenon DEF Live, Busy
<1> QED
  BY <1>7, <1>8, <1>9, <1>10, <1>11, <1>12, <1>13, <1>14, <1>15, <1>16, ZenonT(60)
     DEF RCore, Actives, Windows

\* What accept finds and leaves, whatever the operation.
LEMMA AcceptFacts ==
  ASSUME IInv, TypeOK, NEW c \in Clients, NEW k \in Keys, NEW route, Accept(c, route, k)
  PROVE  /\ request[k].route = route /\ job[k] = "none" /\ vmState[k] = "none"
         /\ UNCHANGED <<request, machine, ui>>
         /\ job' = [job EXCEPT ![k] = "queued"] /\ opState' = [opState EXCEPT ![k] = "queued"]
<1>1. at[c] = "mutate" /\ key[c] = k
  BY Zenon DEF Accept
<1>2. job[k] = "none" /\ vmState[k] = "none"
  BY <1>1, Zenon DEF IInv, Pending
<1> QED
  BY <1>2, Zenon DEF Accept, Responds, driver

\* An operation that has not ended and its window.
LEMMA UnfinishedWindow ==
  ASSUME RCore, IInv, NEW g \in Keys, request[g].route = "glass", TypeOK
  PROVE  Unfinished(g) => Window(g)
<1>1. job[g] \in JobPlaces /\ Reports(job[g], opState[g], request[g].route)
  BY Zenon DEF TypeOK, RCore, Reported
<1>2. job[g] \notin StartPlaces \cup {"wait", "stop"}
  BY Zenon DEF IInv, Places
<1> QED
  BY <1>1, <1>2, Zenon DEF JobPlaces, Reports, Unfinished, Window, WindowPlaces, StartPlaces

\* A pull is accepted.
LEMMA CoreAcceptPull ==
  ASSUME RCore, IInv, TypeOK, NEW c \in Clients, NEW k \in Keys, AcceptPull(c, k)
  PROVE  RCore'
<1>0. UNCHANGED <<waits, cancelled, active, vmState, vmJob, glass>>
  BY ZenonT(60) DEF AcceptPull, vms
<1>1. /\ request[k].route = "pull" /\ job[k] = "none"
      /\ UNCHANGED <<request, machine, ui>>
      /\ job' = [job EXCEPT ![k] = "queued"] /\ opState' = [opState EXCEPT ![k] = "queued"]
  BY AcceptFacts, Zenon DEF AcceptPull
<1>2. Vm(k) = None
  BY <1>1 DEF Vm, TypeOK, Requests
<1>3. Vm(k) \notin Keys
  BY <1>2, KeysPositive, Zenon
<1>4. \A j \in Keys : request[j].route \in {"glass", "stop"} => Vm(j) \in Keys
  BY Zenon DEF RCore, Targets, Vm
<1>5. \A j \in Keys : request[j].route \in {"glass", "stop"} => Vm(j) # Vm(k)
  BY <1>3, <1>4, Zenon
<1>6. \A g \in Keys : Window(g) => Vm(g) # Vm(k)
  BY <1>5, ZenonT(60) DEF Window
<1> QED
  BY <1>0, <1>1, <1>3, <1>5, <1>6, CoreAccepts, Zenon

\* A start is accepted: nothing was ever said about its machine.
LEMMA CoreAcceptStart ==
  ASSUME RCore, IInv, TypeOK, NEW c \in Clients, NEW k \in Keys, AcceptStart(c, k)
  PROVE  RCore'
<1>0. /\ UNCHANGED <<waits, cancelled, glass>>
      /\ vmState' = [vmState EXCEPT ![k] = "starting"]
      /\ active' = [active EXCEPT ![k] = k] /\ vmJob' = [vmJob EXCEPT ![k] = k]
  BY Zenon DEF AcceptStart, Holds
<1>1. /\ request[k].route = "start" /\ job[k] = "none" /\ vmState[k] = "none"
      /\ UNCHANGED <<request, machine, ui>>
      /\ job' = [job EXCEPT ![k] = "queued"] /\ opState' = [opState EXCEPT ![k] = "queued"]
  BY AcceptFacts, Zenon DEF AcceptStart
<1>2. Vm(k) = k
  BY <1>1, Zenon DEF Vm
<1>3. \A v \in Keys : v # Vm(k) => /\ active'[v] = active[v] /\ vmState'[v] = vmState[v]
                                   /\ vmJob'[v] = vmJob[v] /\ glass'[v] = glass[v]
  BY <1>0, <1>2, Domains, Zenon
<1>4. active'[Vm(k)] = k /\ vmState'[Vm(k)] = "starting"
  BY <1>0, <1>2, Domains, Zenon
<1>5. \A j \in Keys : request[j].route \in {"glass", "stop"} => Vm(j) # Vm(k)
  <2> SUFFICES ASSUME NEW j \in Keys, request[j].route \in {"glass", "stop"} PROVE Vm(j) # k
    BY <1>2, Zenon
  <2>1. vmState[request[j].vm] # "none"
    BY Zenon DEF RCore, Targets
  <2>2. Vm(j) = request[j].vm
    BY ZenonT(60) DEF Vm
  <2> QED
    BY <1>1, <2>1, <2>2, Zenon
<1>6. \A g \in Keys : Window(g) => Vm(g) # Vm(k)
  BY <1>5, Zenon DEF Window
<1> QED
  BY <1>0, <1>1, <1>2, <1>3, <1>4, <1>5, <1>6, CoreAccepts, Zenon

\* A window is accepted: its machine runs and has no window, so that none of
\* its operations is in progress.
LEMMA CoreAcceptGlass ==
  ASSUME RCore, IInv, TypeOK, NEW c \in Clients, NEW k \in Keys, NEW v \in Keys,
         AcceptGlass(c, k, v)
  PROVE  RCore'
<1>0. /\ UNCHANGED <<waits, cancelled, vmState>>
      /\ vmState[v] = "running" /\ glass[v] \notin {"open", "starting"}
      /\ request[k].vm = v
      /\ active' = [active EXCEPT ![v] = k] /\ vmJob' = [vmJob EXCEPT ![v] = k]
      /\ glass' = [glass EXCEPT ![v] = "starting"]
  BY Zenon DEF AcceptGlass, Holds
<1>1. /\ request[k].route = "glass" /\ job[k] = "none"
      /\ UNCHANGED <<request, machine, ui>>
      /\ job' = [job EXCEPT ![k] = "queued"] /\ opState' = [opState EXCEPT ![k] = "queued"]
  <2>1. Accept(c, "glass", k)
    BY Zenon DEF AcceptGlass
  <2> QED
    BY <2>1, AcceptFacts, Zenon
<1>2. Vm(k) = v
  BY <1>0, <1>1, Zenon DEF Vm
<1>3. \A w \in Keys : w # Vm(k) => /\ active'[w] = active[w] /\ vmState'[w] = vmState[w]
                                   /\ vmJob'[w] = vmJob[w] /\ glass'[w] = glass[w]
  BY <1>0, <1>2, Domains, Zenon
<1>4. /\ active'[Vm(k)] = k /\ vmState'[Vm(k)] = "running"
      /\ vmJob'[Vm(k)] = k /\ glass'[Vm(k)] = "starting"
  BY <1>0, <1>2, Domains, Zenon
<1>5. \A j \in Keys : request[j].route = "stop" /\ Unfinished(j) => Vm(j) # Vm(k)
  BY <1>0, <1>2, Zenon DEF RCore, Actives, ActiveStop
<1>6. \A g \in Keys : Window(g) => Vm(g) # Vm(k)
  BY <1>0, <1>2, Zenon DEF RCore, Windows, WindowHeld
<1>7. \A j \in Keys : request[j].route = "glass" /\ Unfinished(j) /\ Vm(j) = Vm(k) => Done(j)'
  BY <1>6, UnfinishedWindow, Zenon
<1>8. cancelled \subseteq cancelled'
  BY <1>0, Zenon
<1>9. \A j \in Keys : j # k => waits'[j] = waits[j]
  BY <1>0, Zenon
<1>10. Vm(k) \in Keys
  BY <1>2, Zenon
<1> QED
  BY <1>1, <1>3, <1>4, <1>5, <1>6, <1>7, <1>8, <1>9, <1>10, CoreAccepts, Zenon

\* A stop is accepted: it cancels the job of the machine's window, if there is
\* one, and will wait for it.
LEMMA CoreAcceptStop ==
  ASSUME RCore, IInv, TypeOK, NEW c \in Clients, NEW k \in Keys, NEW v \in Keys,
         AcceptStop(c, k, v)
  PROVE  RCore'
<1>0. /\ UNCHANGED <<vmJob, glass>>
      /\ vmState[v] \notin {"none", "stopping"} /\ request[k].vm = v
      /\ active' = [active EXCEPT ![v] = k] /\ vmState' = [vmState EXCEPT ![v] = "stopping"]
      /\ cancelled' = cancelled \cup {vmJob[v]} /\ waits' = [waits EXCEPT ![k] = vmJob[v]]
  BY Zenon DEF AcceptStop
<1>1. /\ request[k].route = "stop" /\ job[k] = "none"
      /\ UNCHANGED <<request, machine, ui>>
      /\ job' = [job EXCEPT ![k] = "queued"] /\ opState' = [opState EXCEPT ![k] = "queued"]
  <2>1. Accept(c, "stop", k)
    BY Zenon DEF AcceptStop
  <2> QED
    BY <2>1, AcceptFacts, Zenon
<1>2. Vm(k) = v
  BY <1>0, <1>1, Zenon DEF Vm
<1>3. \A w \in Keys : w # Vm(k) => /\ active'[w] = active[w] /\ vmState'[w] = vmState[w]
                                   /\ vmJob'[w] = vmJob[w] /\ glass'[w] = glass[w]
  BY <1>0, <1>2, Domains, Zenon
<1>4. active'[Vm(k)] = k /\ vmState'[Vm(k)] = "stopping"
  BY <1>0, <1>2, Domains, Zenon
<1>5. \A j \in Keys : request[j].route = "stop" /\ Unfinished(j) => Vm(j) # Vm(k)
  BY <1>0, <1>2, ZenonT(60) DEF RCore, Actives, ActiveStop
<1>6. \A g \in Keys : Window(g) /\ Vm(g) = Vm(k) => vmJob[v] = g
  BY <1>2, Zenon DEF RCore, Windows, WindowHeld
<1>7. \A j \in Keys : request[j].route = "glass" /\ Unfinished(j) /\ Vm(j) = Vm(k) => Done(j)'
  <2> SUFFICES ASSUME NEW j \in Keys, request[j].route = "glass", Unfinished(j), Vm(j) = Vm(k)
               PROVE  Done(j)'
    BY Zenon
  <2>1. vmJob[v] = j
    BY <1>6, UnfinishedWindow, Zenon
  <2> QED
    BY <1>0, <2>1, Zenon DEF Done
<1>8. waits'[k] = vmJob[v] /\ \A j \in Keys : j # k => waits'[j] = waits[j]
  BY <1>0, Domains, Zenon
<1>9. \A g \in Keys : Window(g) /\ Vm(g) = Vm(k) =>
           /\ request[k].route = "stop" /\ waits'[k] = g
           /\ vmJob'[Vm(k)] = vmJob[Vm(k)] /\ glass'[Vm(k)] = glass[Vm(k)]
  BY <1>0, <1>1, <1>6, <1>8, Zenon
<1>10. cancelled \subseteq cancelled'
  BY <1>0, Zenon
<1>11. Vm(k) \in Keys
  BY <1>2, Zenon
<1> QED
  BY <1>1, <1>3, <1>4, <1>5, <1>7, <1>8, <1>9, <1>10, <1>11, CoreAccepts, ZenonT(60)

\* The monitor marks a machine that it found gone, and cancels its job.
LEMMA CoreMonitor ==
  ASSUME RCore, IInv, TypeOK, NEW v \in Keys, MonitorFails(v)
  PROVE  RCore'
<1>0. UNCHANGED <<request, opState, job, waits, active, glass, vmJob, machine, ui>>
  BY Zenon DEF MonitorFails, http, driver
<1>1. CASE vmState[v] # "running"
  <2>1. UNCHANGED <<vmState, cancelled, owns>>
    BY <1>1, Zenon DEF MonitorFails
  <2>2. UNCHANGED <<request, opState, job, waits, vms, ui>>
    BY <1>0, <2>1, ZenonT(60) DEF vms
  <2> QED
    BY <1>0, <2>1, <2>2, CoreQuiet, Zenon
<1>2. CASE vmState[v] = "running"
  <2>0. vmState' = [vmState EXCEPT ![v] = "failed"] /\ cancelled \subseteq cancelled'
    BY <1>2, Zenon DEF MonitorFails
  <2>1. vmState'[v] = "failed" /\ \A w \in Keys : w # v => vmState'[w] = vmState[w]
    BY <2>0, Domains, Zenon
  <2>2. \A j \in Keys : /\ Vm(j)' = Vm(j) /\ (Done(j) => Done(j)')
                        /\ Unfinished(j)' <=> Unfinished(j)
                        /\ Window(j)' <=> Window(j)
                        /\ Live(j)' <=> Live(j)
    BY <1>0, <2>0, Zenon DEF Vm, Done, Unfinished, Window, Live, Busy
  <2>3. Reported' /\ WindowUi'
    BY <1>0, Zenon DEF RCore, Reported, Windows, WindowUi
  <2>4. Targets'
    <3> SUFFICES ASSUME NEW j \in Keys, request[j].route \in {"glass", "stop"}
                 PROVE  request[j].vm \in Keys /\ vmState'[request[j].vm] # "none"
      BY <1>0, Zenon DEF Targets
    <3>1. request[j].vm \in Keys /\ vmState[request[j].vm] # "none"
      BY Zenon DEF RCore, Targets
    <3> QED
      BY <2>1, <3>1, Zenon
  <2>5. ActiveStart'
    <3> SUFFICES ASSUME NEW w \in Keys, vmState'[w] = "starting" PROVE active[w] = w
      BY <1>0, Zenon DEF ActiveStart
    <3>1. vmState[w] = "starting"
      BY <2>1, Zenon
    <3> QED
      BY <3>1, Zenon DEF RCore, Actives, ActiveStart
  <2>6. ActiveAbout'
    <3> SUFFICES ASSUME NEW w \in Keys, active[w] # None
                 PROVE  /\ active[w] \in Keys /\ Unfinished(active[w])' /\ Vm(active[w])' = w
                        /\ request[active[w]].route \in {"start", "glass", "stop"}
                        /\ request[active[w]].route = "start" => vmState'[w] = "starting"
      BY <1>0, Zenon DEF ActiveAbout
    <3>1. /\ active[w] \in Keys /\ Unfinished(active[w]) /\ Vm(active[w]) = w
          /\ request[active[w]].route \in {"start", "glass", "stop"}
          /\ request[active[w]].route = "start" => vmState[w] = "starting"
      BY Zenon DEF RCore, Actives, ActiveAbout
    <3>2. active'[w] = active[w] /\ (vmState[w] = "starting" => vmState'[w] = "starting")
      BY <1>0, <1>2, <2>1, Zenon
    <3> QED
      BY <2>2, <3>1, <3>2, Zenon
  <2>7. ActiveStop'
    <3> SUFFICES ASSUME NEW j \in Keys, request[j].route = "stop", Unfinished(j)'
                 PROVE  active[Vm(j)'] = j /\ vmState'[Vm(j)'] = "stopping"
      BY <1>0, Zenon DEF ActiveStop
    <3>1. Vm(j)' = Vm(j) /\ Unfinished(j) /\ Vm(j) \in Keys
      BY <2>2, Zenon DEF RCore, Targets, Vm
    <3>2. active[Vm(j)] = j /\ vmState[Vm(j)] = "stopping"
      BY <3>1, Zenon DEF RCore, Actives, ActiveStop
    <3>3. vmState'[Vm(j)] = "stopping"
      BY <1>2, <2>1, <3>1, <3>2, Zenon
    <3> QED
      BY <3>1, <3>2, <3>3, ZenonT(60)
  <2>8. ActiveGlass'
    BY <1>0, <2>2, Zenon DEF RCore, Actives, ActiveGlass
  <2>9. WindowHeld'
    BY <1>0, <2>2, Zenon DEF RCore, Windows, WindowHeld
  <2>10. WindowWaited'
    BY <1>0, <2>2, Zenon DEF RCore, Windows, WindowWaited
  <2>11. StoppedGone'
    <3> SUFFICES ASSUME NEW w \in Keys, vmState'[w] = "stopped" PROVE ~Live(w)'
      BY Zenon DEF StoppedGone
    <3>1. vmState[w] = "stopped"
      BY <2>1, Zenon
    <3> QED
      BY <2>2, <3>1, Zenon DEF RCore, StoppedGone
  <2> QED
    BY <2>3, <2>4, <2>5, <2>6, <2>7, <2>8, <2>9, <2>10, <2>11, Zenon DEF RCore, Actives, Windows
<1> QED
  BY <1>1, <1>2, Zenon

\* A shutdown succeeds: no job is left, and the driver has released everything.
LEMMA CoreShutdown ==
  ASSUME RCore, IInv, TypeOK, NEW c \in Callers, ShutdownEnds(c)
  PROVE  RCore'
<1>0. /\ UNCHANGED <<request, opState, job, machine, ui>>
      /\ \A v \in Keys : machine[v] = "none"
      /\ vmState' = [v \in Keys |-> IF vmState[v] = "none" THEN "none" ELSE "stopped"]
      /\ active' = [v \in Keys |-> None]
  BY Zenon DEF ShutdownEnds, Returns, Responds, ops, driver
<1>1. \A j \in Keys : job[j] \in {"none", "done"}
  BY Zenon DEF ShutdownEnds, IInv, Drains, Drained
<1>2. \A j \in Keys : opState[j] \notin {"queued", "running"}
  <2> SUFFICES ASSUME NEW j \in Keys PROVE opState[j] \notin {"queued", "running"}
    BY Zenon
  <2>1. Reports(job[j], opState[j], request[j].route)
    BY Zenon DEF RCore, Reported
  <2>2. CASE job[j] = "none"
    BY <2>1, <2>2, Zenon DEF Reports
  <2>3. CASE job[j] = "done"
    BY <2>1, <2>3, Zenon DEF Reports
  <2> QED
    BY <1>1, <2>2, <2>3, Zenon
<1>3. \A j \in Keys : ~Unfinished(j)' /\ ~Window(j)' /\ ~Live(j)'
  BY <1>0, <1>1, <1>2, Zenon DEF Unfinished, Window, WindowPlaces, Live, Busy, StartPlaces
<1>4. \A v \in Keys : vmState'[v] = IF vmState[v] = "none" THEN "none" ELSE "stopped"
  BY <1>0, Zenon
<1>5. Reported' /\ WindowUi'
  BY <1>0, Zenon DEF RCore, Reported, Windows, WindowUi
<1>6. Targets'
  <2> SUFFICES ASSUME NEW j \in Keys, request[j].route \in {"glass", "stop"}
               PROVE  request[j].vm \in Keys /\ vmState'[request[j].vm] # "none"
    BY <1>0, Zenon DEF Targets
  <2>1. request[j].vm \in Keys /\ vmState[request[j].vm] # "none"
    BY Zenon DEF RCore, Targets
  <2> QED
    BY <1>4, <2>1, Zenon
<1>7. Actives'
  <2>1. \A v \in Keys : active'[v] = None /\ vmState'[v] # "starting"
    BY <1>0, <1>4, Zenon
  <2> QED
    BY <1>3, <2>1, Zenon DEF Actives, ActiveStart, ActiveAbout, ActiveStop, ActiveGlass
<1>8. WindowHeld' /\ WindowWaited' /\ StoppedGone'
  BY <1>3, Zenon DEF WindowHeld, WindowWaited, StoppedGone
<1> QED
  BY <1>5, <1>6, <1>7, <1>8, Zenon DEF RCore, Windows

-----------------------------------------------------------------------------
(* Requests in progress, and what follows a shutdown.                      *)

\* The variables that are functions of callers.
LEMMA CallerDomains ==
  ASSUME TypeOK
  PROVE  DOMAIN at = Callers /\ DOMAIN key = Callers /\ DOMAIN out = Callers
<1>1. /\ at \in [Callers -> {"idle", "mutate", "answer", "gate", "drain", "driver", "done"}]
      /\ key \in [Callers -> Keys \cup {None}]
      /\ out \in [Callers -> Answers \cup {"none"}]
  BY Zenon DEF TypeOK
<1> QED
  BY <1>1, Zenon

\* Steps that neither begin nor end a request.
LEMMA UnansweredKept ==
  ASSUME Unanswered, UNCHANGED <<key, reply>>,
         \A d \in Clients : at'[d] # "idle" => at[d] # "idle",
         \A d \in Clients : at'[d] = "answer" => out'[d] \in Answers
  PROVE  Unanswered'
BY Zenon DEF Unanswered

\* A caller goes on in its request.
LEMMA UnansweredMove ==
  ASSUME Unanswered, TypeOK, NEW c \in Callers, NEW to, UNCHANGED <<key, reply>>,
         at' = [at EXCEPT ![c] = to], c \in Clients => at[c] # "idle",
         \A d \in Clients : d # c => out'[d] = out[d],
         to = "answer" => out'[c] \in Answers
  PROVE  Unanswered'
<1>1. at'[c] = to /\ \A d \in Callers : d # c => at'[d] = at[d]
  BY CallerDomains, Zenon
<1>2. Clients \subseteq Callers
  BY Zenon DEF Callers
<1>3. \A d \in Clients : at'[d] # "idle" => at[d] # "idle"
  BY <1>1, <1>2, Zenon
<1>4. \A d \in Clients : at'[d] = "answer" => out'[d] \in Answers
  BY <1>1, <1>2, ZenonT(60) DEF Unanswered
<1> QED
  BY <1>3, <1>4, UnansweredKept, Zenon

\* A request begins with a key that no other request in progress has.
LEMMA UnansweredRequest ==
  ASSUME Unanswered, TypeOK, NEW c \in Clients, NEW k \in Keys, NEW r, Request(c, k, r)
  PROVE  Unanswered'
<1>0. at[c] = "idle" /\ reply[k] = "unused" /\ UNCHANGED out
  BY Zenon DEF Request, FirstUse, Unused
<1>1. Clients \subseteq Callers /\ DOMAIN at = Callers /\ DOMAIN key = Callers
  BY CallerDomains, Zenon DEF Callers
<1>2. PICK to \in {"gate", "mutate"} : at' = [at EXCEPT ![c] = to]
  BY Zenon DEF Request
<1>3. at'[c] = to /\ key'[c] = k
  BY <1>1, <1>2, Zenon DEF Request
<1>4. \A d \in Clients : d # c => at'[d] = at[d] /\ key'[d] = key[d]
  BY <1>1, <1>2, Zenon DEF Request
<1>5. reply'[k] = "pending" /\ \A j \in Keys : j # k => reply'[j] = reply[j]
  BY Domains, Zenon DEF Request
<1>6. \A d \in Clients : d # c /\ at'[d] # "idle" =>
        key'[d] \in Keys /\ key'[d] # k /\ reply[key'[d]] = "pending"
  <2> SUFFICES ASSUME NEW d \in Clients, d # c, at'[d] # "idle"
               PROVE  key'[d] \in Keys /\ key'[d] # k /\ reply[key'[d]] = "pending"
    BY Zenon
  <2>1. at[d] # "idle" /\ key'[d] = key[d]
    BY <1>4, Zenon
  <2>2. key[d] \in Keys /\ reply[key[d]] = "pending"
    BY <2>1, Zenon DEF Unanswered
  <2> QED
    BY <1>0, <2>1, <2>2, Zenon
<1>7. \A d \in Clients : at'[d] # "idle" => key'[d] \in Keys /\ reply'[key'[d]] = "pending"
  BY <1>3, <1>5, <1>6, Zenon
<1>8. \A d, e \in Clients : at'[d] # "idle" /\ at'[e] # "idle" /\ key'[d] = key'[e] => d = e
  <2> SUFFICES ASSUME NEW d \in Clients, NEW e \in Clients, at'[d] # "idle", at'[e] # "idle",
                      key'[d] = key'[e]
               PROVE  d = e
    BY Zenon
  <2>1. CASE d = c
    BY <1>3, <1>6, <2>1, Zenon
  <2>2. CASE e = c
    BY <1>3, <1>6, <2>2, Zenon
  <2>3. CASE d # c /\ e # c
    <3>1. at[d] # "idle" /\ at[e] # "idle" /\ key[d] = key[e]
      BY <1>4, <2>3, Zenon
    <3> QED
      BY <3>1, Zenon DEF Unanswered
  <2> QED
    BY <2>1, <2>2, <2>3, Zenon
<1>9. \A d \in Clients : at'[d] = "answer" => out'[d] \in Answers
  BY <1>0, <1>3, <1>4, Zenon DEF Unanswered
<1> QED
  BY <1>7, <1>8, <1>9, Zenon DEF Unanswered

\* A request ends: no other one in progress has its key.
LEMMA UnansweredAnswer ==
  ASSUME Unanswered, TypeOK, NEW c \in Clients, Answer(c)
  PROVE  Unanswered'
<1>1. Clients \subseteq Callers /\ DOMAIN at = Callers /\ DOMAIN key = Callers /\ DOMAIN out = Callers
  BY CallerDomains, Zenon DEF Callers
<1>2. at[c] = "answer" /\ at'[c] = "idle"
  BY <1>1, Zenon DEF Answer
<1>3. \A d \in Clients : d # c => at'[d] = at[d] /\ key'[d] = key[d] /\ out'[d] = out[d]
  BY <1>1, Zenon DEF Answer
<1>4. \A j \in Keys : j # key[c] => reply'[j] = reply[j]
  BY Domains, Zenon DEF Answer
<1>5. \A d \in Clients : at'[d] # "idle" => d # c /\ at[d] # "idle"
  BY <1>2, <1>3, Zenon
<1>6. \A d \in Clients : at'[d] # "idle" => key[d] \in Keys /\ key[d] # key[c] /\ reply[key[d]] = "pending"
  BY <1>2, <1>5, ZenonT(60) DEF Unanswered
<1>7. \A d \in Clients : at'[d] # "idle" => key'[d] \in Keys /\ reply'[key'[d]] = "pending"
  BY <1>3, <1>4, <1>5, <1>6, ZenonT(60)
<1>8. \A d, e \in Clients : at'[d] # "idle" /\ at'[e] # "idle" /\ key'[d] = key'[e] => d = e
  <2> SUFFICES ASSUME NEW d \in Clients, NEW e \in Clients, at'[d] # "idle", at'[e] # "idle",
                      key'[d] = key'[e]
               PROVE  d = e
    BY Zenon
  <2>1. at[d] # "idle" /\ at[e] # "idle" /\ key[d] = key[e]
    BY <1>3, <1>5, Zenon
  <2> QED
    BY <2>1, Zenon DEF Unanswered
<1>9. \A d \in Clients : at'[d] = "answer" => out'[d] \in Answers
  BY <1>2, <1>3, Zenon DEF Unanswered
<1> QED
  BY <1>7, <1>8, <1>9, Zenon DEF Unanswered

\* Steps after which no shutdown has succeeded, unless one had, and that touch
\* neither jobs nor machines.
LEMMA CompleteQuiet ==
  ASSUME Complete, Over' => Over, UNCHANGED <<job, owns, vmState>>, closing => closing',
         \A v \in Keys : machine[v] = "none" => machine'[v] = "none"
  PROVE  Complete'
BY Zenon DEF Complete, Drained

\* A job that runs shows that no shutdown has succeeded.
LEMMA CompleteMove ==
  ASSUME Complete, NEW k \in Keys, job[k] \notin {"none", "done"}, UNCHANGED <<out, stopped>>
  PROVE  Complete'
BY Zenon DEF Complete, Drained, Over

\* Callers of shutdown other than c keep their answers.
LEMMA OverKept ==
  ASSUME TypeOK, NEW c \in Callers, NEW answer, answer # "stopped", UNCHANGED stopped,
         out' = [out EXCEPT ![c] = answer], Over'
  PROVE  Over
<1>1. out'[c] = answer /\ \A d \in Callers : d # c => out'[d] = out[d]
  BY CallerDomains, Zenon
<1> QED
  BY <1>1, Zenon DEF Over

-----------------------------------------------------------------------------
(* Every step keeps RInv.                                                  *)

\* RInv in two parts.
LEMMA RInvParts == RInv <=> TypeOK /\ RCore /\ Unanswered /\ Complete
BY Zenon DEF RInv, RCore

\* The server starts with nothing said.
LEMMA RInit == Init => RInv
<1> SUFFICES ASSUME Init PROVE RInv
  OBVIOUS
<1>1. TypeOK /\ RCore
  BY TypedInit, CoreInit, Zenon
<1>2. Unanswered
  <2>1. Clients \subseteq Callers
    BY Zenon DEF Callers
  <2>2. \A c \in Clients : at[c] = "idle"
    BY <2>1, Zenon DEF Init
  <2> QED
    BY <2>2, Zenon DEF Unanswered
<1>3. ~Over
  BY Zenon DEF Init, Over
<1> QED
  BY <1>1, <1>2, <1>3, RInvParts, ZenonT(60) DEF Complete

\* Requests, refusals and answers.
LEMMA RHttp ==
  ASSUME RInv, IInv, NEW c \in Clients,
         \/ \E k \in Keys, r \in Requests : Request(c, k, r)
         \/ Refuse(c) \/ Answer(c) \/ ShutdownFails(c)
  PROVE  RInv'
<1>0. /\ TypeOK /\ RCore /\ Unanswered /\ Complete /\ TypeOK' /\ c \in Callers
      /\ DOMAIN out = Callers
  BY RInvParts, TypedHttp, CallerDomains, Zenon DEF Callers
<1>1. ASSUME NEW k \in Keys, NEW r \in Requests, Request(c, k, r) PROVE RInv'
  <2>1. UNCHANGED <<out, stopped, job, owns, vmState, closing, machine>>
    BY <1>1, Zenon DEF Request, ops, vms, driver, server
  <2>2. Over' => Over
    BY <2>1, Zenon DEF Over
  <2>3. Complete'
    BY <1>0, <2>1, <2>2, CompleteQuiet, Zenon
  <2>4. RCore' /\ Unanswered'
    BY <1>0, <1>1, CoreRequest, UnansweredRequest, ZenonT(60)
  <2> QED
    BY <1>0, <2>3, <2>4, RInvParts, Zenon DEF RInv, RCore
<1>2. CASE Refuse(c) \/ ShutdownFails(c)
  <2>1. /\ UNCHANGED <<key, request, reply, stopped, closing>>
        /\ UNCHANGED <<opState, job, waits, cancelled>> /\ UNCHANGED vms
        /\ UNCHANGED <<owns, vmState>> /\ UNCHANGED <<machine, ui>>
        /\ at' = [at EXCEPT ![c] = "answer"] /\ at[c] # "idle"
    BY <1>2, Zenon DEF Refuse, ShutdownFails, Returns, Responds, ops, vms, driver, server
  <2>2. PICK answer \in {"refused", "failed"} : out' = [out EXCEPT ![c] = answer]
    BY <1>2, Zenon DEF Refuse, ShutdownFails, Returns, Responds
  <2>3. answer # "stopped" /\ answer \in Answers
    BY ZenonT(60) DEF Answers
  <2>4. Over' => Over
    BY <1>0, <2>1, <2>2, <2>3, OverKept, Zenon
  <2>5. Complete'
    BY <1>0, <2>1, <2>4, CompleteQuiet, ZenonT(60)
  <2>6. RCore'
    BY <1>0, <2>1, CoreQuiet, Zenon
  <2>7. out'[c] \in Answers /\ \A d \in Clients : d # c => out'[d] = out[d]
    BY <1>0, <2>2, <2>3, Zenon DEF Callers
  <2>8. Unanswered'
    BY <1>0, <2>1, <2>7, UnansweredMove, Zenon
  <2> QED
    BY <1>0, <2>5, <2>6, <2>8, Zenon DEF RInv, RCore
<1>3. CASE Answer(c)
  <2>1. /\ UNCHANGED <<request, closing>> /\ UNCHANGED vms
        /\ UNCHANGED <<opState, job, waits, cancelled>>
        /\ UNCHANGED <<owns, vmState>> /\ UNCHANGED <<machine, ui>>
        /\ out' = [out EXCEPT ![c] = "none"] /\ stopped' = (stopped \/ out[c] = "stopped")
    BY <1>3, Zenon DEF Answer, ops, vms, driver
  <2>2. out'[c] = "none" /\ \A d \in Callers : d # c => out'[d] = out[d]
    BY <1>0, <2>1, Zenon
  <2>3. Over' => Over
    BY <1>0, <2>1, <2>2, Zenon DEF Over
  <2>4. Complete'
    BY <1>0, <2>1, <2>3, CompleteQuiet, ZenonT(60)
  <2>5. RCore'
    BY <1>0, <2>1, CoreQuiet, Zenon
  <2>6. Unanswered'
    BY <1>0, <1>3, UnansweredAnswer, ZenonT(60)
  <2> QED
    BY <1>0, <2>4, <2>5, <2>6, Zenon DEF RInv, RCore
<1> QED
  BY <1>1, <1>2, <1>3, Zenon

\* Accepted requests: closing is tested in the critical section that accepts.
LEMMA RAccept ==
  ASSUME RInv, IInv, NEW c \in Clients, NEW k \in Keys, NEW v \in Keys,
         AcceptPull(c, k) \/ AcceptStart(c, k) \/ AcceptGlass(c, k, v) \/ AcceptStop(c, k, v)
  PROVE  RInv'
<1>0. /\ TypeOK /\ RCore /\ Unanswered /\ Complete /\ TypeOK' /\ c \in Callers
      /\ DOMAIN out = Callers
  BY RInvParts, TypedAccept, CallerDomains, Zenon DEF Callers
<1>1. \E route : Accept(c, route, k)
  BY Zenon DEF AcceptPull, AcceptStart, AcceptGlass, AcceptStop
<1>2. /\ UNCHANGED <<key, reply, stopped>> /\ ~closing /\ at[c] # "idle"
      /\ at' = [at EXCEPT ![c] = "answer"] /\ out' = [out EXCEPT ![c] = "accepted"]
  BY <1>1, Zenon DEF Accept, Responds, Serving, server
<1>3. ~Over
  BY <1>0, <1>2, Zenon DEF Complete
<1>4. ~Over'
  BY <1>0, <1>2, <1>3, OverKept, Zenon
<1>5. Complete'
  BY <1>4, Zenon DEF Complete
<1>6. out'[c] \in Answers /\ \A d \in Clients : d # c => out'[d] = out[d]
  BY <1>0, <1>2, Zenon DEF Callers, Answers
<1>7. Unanswered'
  BY <1>0, <1>2, <1>6, UnansweredMove, Zenon
<1>8. RCore'
  BY <1>0, CoreAcceptPull, CoreAcceptStart, CoreAcceptGlass, CoreAcceptStop, ZenonT(60)
<1> QED
  BY <1>0, <1>5, <1>7, <1>8, Zenon DEF RInv, RCore

\* Steps of the jobs: none runs once a shutdown has succeeded.
LEMMA RJob ==
  ASSUME RInv, IInv, NEW k \in Keys, Job(k) \/ GuestExits(k)
  PROVE  RInv'
<1>0. TypeOK /\ RCore /\ Unanswered /\ Complete
  BY RInvParts, Zenon
<1>1. TypeOK' /\ RCore'
  BY <1>0, TypedJob, CoreJob, Zenon
<1>2. UNCHANGED <<at, key, out, request, reply>> /\ UNCHANGED <<closing, gate, stopped, exit>>
  BY Zenon DEF Job, StartJob, StopJob, GlassJob, JobBegins, TimesOut, TimerFires, TimerCancels,
     Leave, StopPowersOff, PullEnds, StartCreates, StartBoots, StartFails, StartEnds,
     StartCleaned, StopWaits, StopGivesUp, StopEnds, Stopped, GlassOpens, GlassPresents,
     WindowCloses, GlassEnds, GuestExits, http, server
<1>3. Unanswered'
  BY <1>0, <1>2, Zenon DEF Unanswered
<1>4. Complete'
  <2>1. CASE TimerFires(k) \/ TimerCancels(k)
    <3>1. UNCHANGED <<job, owns, vmState>> /\ UNCHANGED machine
      BY <2>1, Zenon DEF TimerFires, TimerCancels, vms, driver
    <3>2. Over' => Over
      BY <1>2, Zenon DEF Over
    <3> QED
      BY <1>0, <1>2, <3>1, <3>2, CompleteQuiet, Zenon
  <2>2. CASE GuestExits(k)
    <3>1. machine[k] = "running"
      BY <2>2, Zenon DEF GuestExits, PowersOff
    <3>2. ~Over
      BY <1>0, <3>1, ZenonT(60) DEF Complete
    <3> QED
      BY <1>2, <3>2, Zenon DEF Complete, Over
  <2>3. CASE Job(k) /\ ~(TimerFires(k) \/ TimerCancels(k))
    <3>1. job[k] \notin {"none", "done"}
      BY <2>3, ZenonT(60) DEF Job, StartJob, StopJob, GlassJob, JobBegins, TimesOut, Deadlines,
         Leave, StopPowersOff, PullEnds, StartCreates, StartBoots, StartFails, StartEnds,
         StartCleaned, StopWaits, StopGivesUp, StopEnds, GlassOpens, GlassPresents,
         WindowCloses, GlassEnds, At
    <3> QED
      BY <1>0, <1>2, <3>1, CompleteMove, Zenon
  <2> QED
    BY <2>1, <2>2, <2>3, ZenonT(60)
<1> QED
  BY <1>0, <1>1, <1>3, <1>4, Zenon DEF RInv, RCore

\* Steps of the monitor.
LEMMA RMonitor ==
  ASSUME RInv, IInv, Monitor
  PROVE  RInv'
<1>0. TypeOK /\ RCore /\ Unanswered /\ Complete
  BY RInvParts, Zenon
<1>1. TypeOK'
  BY <1>0, TypedRest, Zenon
<1>2. CASE MonitorLooks \/ \E v \in Keys : \E gone \in BOOLEAN : MonitorAsks(v, gone)
  <2>1. /\ UNCHANGED <<at, key, out, request, reply>> /\ UNCHANGED <<closing, gate, stopped, exit>>
        /\ UNCHANGED <<opState, job, waits, cancelled>> /\ UNCHANGED vms
        /\ UNCHANGED <<owns, vmState>> /\ UNCHANGED <<machine, ui>>
    BY <1>2, Zenon DEF MonitorLooks, MonitorAsks, http, ops, vms, driver, server
  <2>2. RCore'
    BY <1>0, <2>1, CoreQuiet, ZenonT(60)
  <2>3. Unanswered'
    BY <1>0, <2>1, Zenon DEF Unanswered
  <2>4. Over' => Over
    BY <2>1, Zenon DEF Over
  <2>5. Complete'
    BY <1>0, <2>1, <2>4, CompleteQuiet, Zenon
  <2> QED
    BY <1>1, <2>2, <2>3, <2>5, Zenon DEF RInv, RCore
<1>3. ASSUME NEW v \in Keys, MonitorFails(v) PROVE RInv'
  <2>1. /\ UNCHANGED <<at, key, out, request, reply>> /\ UNCHANGED <<closing, gate, stopped, exit>>
        /\ UNCHANGED <<job, owns, machine>>
        /\ vmState[v] = "running" \/ UNCHANGED vmState
    BY <1>3, Zenon DEF MonitorFails, http, driver, server
  <2>2. RCore'
    BY <1>0, <1>3, CoreMonitor, Zenon
  <2>3. Unanswered'
    BY <1>0, <2>1, Zenon DEF Unanswered
  <2>4. Over' => Over
    BY <2>1, Zenon DEF Over
  <2>5. Complete'
    <3>1. CASE Over
      <4>1. vmState[v] # "running"
        BY <1>0, <3>1, Zenon DEF Complete
      <4> QED
        BY <1>0, <2>1, <2>4, <4>1, CompleteQuiet, ZenonT(60)
    <3>2. CASE ~Over
      BY <2>4, <3>2, Zenon DEF Complete
    <3> QED
      BY <3>1, <3>2, Zenon
  <2> QED
    BY <1>1, <2>2, <2>3, <2>5, Zenon DEF RInv, RCore
<1> QED
  BY <1>2, <1>3, Zenon DEF Monitor

\* Steps of the callers of shutdown.
LEMMA RShutdown ==
  ASSUME RInv, IInv, NEW c \in Callers, Shutdown(c)
  PROVE  RInv'
<1>0. TypeOK /\ RCore /\ Unanswered /\ Complete /\ TypeOK'
  BY RInvParts, TypedRest, Zenon
<1>1. CASE ShutdownBegins(c) \/ ShutdownDrains(c)
  <2>0. closing => closing'
    <3>1. CASE ShutdownBegins(c)
      BY <3>1, Zenon DEF ShutdownBegins
    <3>2. CASE ShutdownDrains(c)
      BY <3>2, Zenon DEF ShutdownDrains, server
    <3> QED
      BY <1>1, <3>1, <3>2, Zenon
  <2>1. /\ UNCHANGED <<key, out, request, reply>> /\ UNCHANGED stopped
        /\ UNCHANGED <<opState, job, waits>> /\ UNCHANGED vms
        /\ UNCHANGED <<owns, vmState>> /\ UNCHANGED <<machine, ui>>
        /\ at[c] # "idle"
    BY <1>1, Zenon DEF ShutdownBegins, ShutdownDrains, ops, vms, driver, server
  <2>2. cancelled \subseteq cancelled'
    <3>1. cancelled \subseteq Keys
      BY <1>0, Zenon DEF TypeOK
    <3>2. cancelled' = Keys \/ cancelled' = cancelled
      BY <1>1, Zenon DEF ShutdownBegins, ShutdownDrains, ops
    <3> QED
      BY <3>1, <3>2, ZenonT(60)
  <2>3. RCore'
    BY <1>0, <2>1, <2>2, CoreQuiet, Zenon
  <2>4. PICK to \in {"drain", "driver"} : at' = [at EXCEPT ![c] = to]
    BY <1>1, Zenon DEF ShutdownBegins, ShutdownDrains
  <2>5. Unanswered'
    BY <1>0, <2>1, <2>4, UnansweredMove, Zenon
  <2>6. Over' => Over
    BY <2>1, Zenon DEF Over
  <2>7. Complete'
    BY <1>0, <2>0, <2>1, <2>6, CompleteQuiet, Zenon
  <2> QED
    BY <1>0, <2>3, <2>5, <2>7, Zenon DEF RInv, RCore
<1>2. CASE ShutdownStops(c)
  <2>1. /\ UNCHANGED <<at, key, out, request, reply>> /\ UNCHANGED <<closing, gate, stopped, exit>>
        /\ UNCHANGED <<opState, job, waits, cancelled>> /\ UNCHANGED vms
        /\ UNCHANGED <<owns, vmState>> /\ UNCHANGED ui
    BY <1>2, Zenon DEF ShutdownStops, PowersOff, Releases, http, ops, vms, server
  <2>2. PICK v \in Keys : \/ machine[v] # "none" /\ machine' = [machine EXCEPT ![v] = "exited"]
                          \/ machine[v] # "none" /\ machine' = [machine EXCEPT ![v] = "none"]
    BY <1>2, Zenon DEF ShutdownStops, PowersOff, Releases
  <2>3. \A w \in Keys : machine'[w] # "none" => machine[w] # "none"
    BY <1>0, <2>2, Domains, Zenon
  <2>4. RCore'
    BY <1>0, <2>1, <2>3, CoreQuiet, Zenon
  <2>5. Unanswered'
    BY <1>0, <2>1, Zenon DEF Unanswered
  <2>6. Over' => Over
    BY <2>1, ZenonT(60) DEF Over
  <2>7. Complete'
    BY <1>0, <2>1, <2>3, <2>6, CompleteQuiet, Zenon
  <2> QED
    BY <1>0, <2>4, <2>5, <2>7, Zenon DEF RInv, RCore
<1>3. CASE ShutdownEnds(c)
  <2>1. /\ UNCHANGED <<key, reply>> /\ UNCHANGED <<job, machine, closing>>
        /\ owns' = {} /\ at[c] = "driver" /\ \A v \in Keys : machine[v] = "none"
        /\ at' = [at EXCEPT ![c] = "answer"] /\ out' = [out EXCEPT ![c] = "stopped"]
        /\ vmState' = [v \in Keys |-> IF vmState[v] = "none" THEN "none" ELSE "stopped"]
    BY <1>3, Zenon DEF ShutdownEnds, Returns, Responds, ops, driver
  <2>2. closing /\ Drained
    BY <2>1, Zenon DEF IInv, Drains
  <2>3. \A v \in Keys : vmState'[v] \in {"none", "stopped"}
    BY <2>1, Zenon
  <2>4. Complete'
    BY <2>1, <2>2, <2>3, Zenon DEF Complete, Drained
  <2>5. RCore'
    BY <1>0, <1>3, CoreShutdown, Zenon
  <2>6. out'[c] \in Answers /\ \A d \in Clients : d # c => out'[d] = out[d]
    BY <1>0, <2>1, CallerDomains, Zenon DEF Callers, Answers
  <2>7. Unanswered'
    BY <1>0, <2>1, <2>6, UnansweredMove, Zenon
  <2> QED
    BY <1>0, <2>4, <2>5, <2>7, Zenon DEF RInv, RCore
<1> QED
  BY <1>1, <1>2, <1>3, Zenon DEF Shutdown

\* The watcher, the main thread, and steps that change nothing.
LEMMA RProcess ==
  ASSUME RInv, IInv,
         ParentGone \/ ParentStops \/ ReleaseOwned \/ Exit \/ UNCHANGED vars
  PROVE  RInv'
<1>0. TypeOK /\ RCore /\ Unanswered /\ Complete /\ TypeOK'
  BY RInvParts, TypedRest, Zenon
<1>1. CASE ParentGone \/ ParentStops
  <2>1. /\ UNCHANGED <<key, out, request, reply>> /\ UNCHANGED closing
        /\ UNCHANGED <<opState, job, waits, cancelled>> /\ UNCHANGED vms
        /\ UNCHANGED <<owns, vmState>> /\ UNCHANGED <<machine, ui>>
        /\ stopped' = stopped \/ out[Parent] = "stopped"
    BY <1>1, Zenon DEF ParentGone, ParentStops, ops, vms, driver, server
  <2>2. PICK to \in {"gate", "done"} : at' = [at EXCEPT ![Parent] = to]
    BY <1>1, Zenon DEF ParentGone, ParentStops
  <2>3. Parent \in Callers /\ Parent \notin Clients
    BY ParentAssumption, Zenon DEF Callers
  <2>4. Unanswered'
    BY <1>0, <2>1, <2>2, <2>3, UnansweredMove, ZenonT(60)
  <2>5. Over' => Over
    BY <2>1, <2>3, Zenon DEF Over
  <2>6. Complete'
    BY <1>0, <2>1, <2>5, CompleteQuiet, ZenonT(60)
  <2>7. RCore'
    BY <1>0, <2>1, CoreQuiet, Zenon
  <2> QED
    BY <1>0, <2>4, <2>6, <2>7, Zenon DEF RInv, RCore
<1>2. CASE ReleaseOwned \/ Exit \/ UNCHANGED vars
  <2>1. /\ UNCHANGED <<at, key, out, request, reply>> /\ UNCHANGED <<closing, stopped>>
        /\ UNCHANGED <<opState, job, waits, cancelled>> /\ UNCHANGED vms
        /\ UNCHANGED <<owns, vmState>> /\ UNCHANGED ui
    BY <1>2, Zenon DEF ReleaseOwned, Exit, vars, http, ops, vms, driver, server
  <2>2. \A v \in Keys : machine'[v] = "none" <=> machine[v] = "none"
    BY <1>2, Zenon DEF ReleaseOwned, Exit, vars, driver
  <2>3. RCore'
    BY <1>0, <2>1, <2>2, CoreQuiet, Zenon
  <2>4. Unanswered'
    BY <1>0, <2>1, Zenon DEF Unanswered
  <2>5. Over' => Over
    BY <2>1, Zenon DEF Over
  <2>6. Complete'
    BY <1>0, <2>1, <2>2, <2>5, CompleteQuiet, ZenonT(60)
  <2> QED
    BY <1>0, <2>3, <2>4, <2>6, Zenon DEF RInv, RCore
<1> QED
  BY <1>1, <1>2, Zenon

\* Every step.
LEMMA RKeeps ==
  ASSUME RInv, IInv, [Next]_vars
  PROVE  RInv'
<1>1. ASSUME NEW c \in Clients,
             (\E k \in Keys, r \in Requests : Request(c, k, r)) \/ Mutate(c) \/ Answer(c) \/ ShutdownFails(c)
      PROVE  RInv'
  <2>1. CASE (\E k \in Keys, r \in Requests : Request(c, k, r)) \/ Refuse(c) \/ Answer(c) \/ ShutdownFails(c)
    BY <2>1, RHttp, Zenon
  <2>2. ASSUME NEW k \in Keys, AcceptPull(c, k) \/ AcceptStart(c, k) PROVE RInv'
    BY <2>2, RAccept, Zenon
  <2>3. ASSUME NEW k \in Keys, NEW v \in Keys, AcceptGlass(c, k, v) \/ AcceptStop(c, k, v)
        PROVE  RInv'
    BY <2>3, RAccept, Zenon
  <2> QED
    BY <1>1, <2>1, <2>2, <2>3, Zenon DEF Mutate
<1>2. ASSUME NEW k \in Keys, Job(k) \/ GuestExits(k) PROVE RInv'
  BY <1>2, RJob, Zenon
<1>3. CASE Monitor
  BY <1>3, RMonitor, Zenon
<1>4. ASSUME NEW c \in Callers, Shutdown(c) PROVE RInv'
  BY <1>4, RShutdown, Zenon
<1>5. CASE ParentGone \/ ParentStops \/ ReleaseOwned \/ Exit \/ UNCHANGED vars
  BY <1>5, RProcess, Zenon
<1> QED
  BY <1>1, <1>2, <1>3, <1>4, <1>5, Zenon DEF Next, Step, Ended

-----------------------------------------------------------------------------
(* What follows.                                                           *)

\* IInv and RInv hold of every behaviour.
THEOREM ReportsCorrect == Spec => [](IInv /\ RInv)
<1>1. Init => IInv /\ RInv
  BY InitHolds, RInit, Zenon
<1>2. IInv /\ RInv /\ [Next]_vars => (IInv /\ RInv)'
  BY NextKeeps, RKeeps, Zenon
<1> QED
  BY <1>1, <1>2, PTL DEF Spec

\* The variables keep their types: in particular every machine that exists was
\* made by a start, and has cancel and done functions when mutate or monitorVMs
\* call them.
THEOREM TypeCorrect == Spec => []TypeOK
<1>1. IInv /\ RInv => TypeOK
  BY Zenon DEF RInv
<1> QED
  BY <1>1, ReportsCorrect, PTL

\* DetachedFirst holds: the done channel that a stop waits for is that of the
\* window, if its machine has one, and a shutdown talks to the driver when no
\* job is left.
THEOREM DetachedFirstCorrect == Spec => []DetachedFirst
<1>1. ASSUME IInv, RInv PROVE DetachedFirst
  <2>1. ASSUME NEW k \in Keys, NEW g \in Keys, job[k] = "stop", request[g].route = "glass",
               Vm(g) = Vm(k)
        PROVE  job[g] \in {"none", "leave", "done"}
    <3>1. request[k].route = "stop"
      BY <1>1, <2>1, Zenon DEF IInv, Places
    <3>2. ~Window(g)
      BY <1>1, <2>1, <3>1, ZenonT(60) DEF RInv, Windows, WindowWaited
    <3>3. job[g] \in JobPlaces /\ Reports(job[g], opState[g], request[g].route)
      BY <1>1, Zenon DEF RInv, TypeOK, Reported
    <3>4. job[g] \notin StartPlaces \cup {"wait", "stop"}
      BY <1>1, <2>1, Zenon DEF IInv, Places
    <3> QED
      BY <2>1, <3>2, <3>3, <3>4, ZenonT(60) DEF JobPlaces, Reports, Window, WindowPlaces, StartPlaces
  <2>2. ASSUME NEW c \in Callers, at[c] = "driver" PROVE ui = None
    <3>1. \A k \in Keys : job[k] \in {"none", "done"}
      BY <1>1, <2>2, Zenon DEF IInv, Drains, Drained
    <3> QED
      BY <1>1, <3>1, Zenon DEF RInv, Windows, WindowUi
  <2> QED
    BY <2>1, <2>2, Zenon DEF DetachedFirst
<1>2. IInv /\ RInv => DetachedFirst
  BY <1>1, Zenon
<1> QED
  BY <1>2, ReportsCorrect, PTL

\* ActiveHonest holds: what a machine reports as its active operation has not
\* ended, and a stop is reported until it has.
THEOREM ActiveHonestCorrect == Spec => []ActiveHonest
<1>1. ASSUME RInv PROVE ActiveHonest
  <2>1. \A v \in Keys : active[v] # None => Unfinished(active[v])
    BY <1>1, Zenon DEF RInv, Actives, ActiveAbout
  <2>2. \A k \in Keys : request[k].route = "stop" /\ Unfinished(k) => active[Vm(k)] = k
    BY <1>1, Zenon DEF RInv, Actives, ActiveStop
  <2> QED
    BY <2>1, <2>2, Zenon DEF ActiveHonest
<1>2. IInv /\ RInv => ActiveHonest
  BY <1>1, Zenon
<1> QED
  BY <1>2, ReportsCorrect, PTL

\* ShutdownComplete holds: after a shutdown that succeeded no job runs, nothing
\* is left of any machine, and nothing begins.
THEOREM ShutdownCompleteCorrect == Spec => []ShutdownComplete
<1>1. Clients \subseteq Callers
  BY Zenon DEF Callers
<1>2. IInv /\ RInv => ShutdownComplete
  BY <1>1, Zenon DEF RInv, Complete, Over, ShutdownComplete
<1> QED
  BY <1>2, ReportsCorrect, PTL

\* A finished operation does not change: what changes is new or unfinished.
LEMMA OpsStay ==
  ASSUME IInv, RInv, Next, NEW k \in Keys, opState[k] \in {"succeeded", "failed"}
  PROVE  opState'[k] = opState[k]
<1>0. TypeOK /\ RCore
  BY RInvParts, Zenon
<1>1. ASSUME NEW j \in Keys, NEW s, opState' = [opState EXCEPT ![j] = s],
             opState[j] \notin {"succeeded", "failed"}
      PROVE  opState'[k] = opState[k]
  BY <1>0, <1>1, Domains, Zenon
<1>2. \A j \in Keys : Reports(job[j], opState[j], request[j].route)
  BY <1>0, Zenon DEF RCore, Reported
<1>3. ASSUME NEW c \in Clients, NEW j \in Keys, NEW v \in Keys,
             AcceptPull(c, j) \/ AcceptStart(c, j) \/ AcceptGlass(c, j, v) \/ AcceptStop(c, j, v)
      PROVE  opState'[k] = opState[k]
  <2>1. PICK route : Accept(c, route, j)
    BY <1>3, Zenon DEF AcceptPull, AcceptStart, AcceptGlass, AcceptStop
  <2>2. job[j] = "none" /\ opState' = [opState EXCEPT ![j] = "queued"]
    BY <1>0, <2>1, AcceptFacts, ZenonT(60)
  <2>3. opState[j] = "none"
    BY <1>2, <2>2, Zenon DEF Reports
  <2> QED
    BY <1>1, <2>2, <2>3, Zenon
<1>4. ASSUME NEW j \in Keys, Job(j) PROVE opState'[k] = opState[k]
  <2>1. CASE UNCHANGED opState
    BY <2>1, Zenon
  <2>2. CASE JobBegins(j)
    <3>1. opState[j] = "queued" /\ opState' = [opState EXCEPT ![j] = "running"]
      BY <1>2, <2>2, Zenon DEF JobBegins, At, Reports
    <3> QED
      BY <1>1, <3>1, ZenonT(60)
  <2>3. CASE \E ok \in BOOLEAN : Finish(j, ok) /\ opState[j] = "running"
    <3>1. PICK s : opState' = [opState EXCEPT ![j] = s]
      BY <2>3, Zenon DEF Finish
    <3> QED
      BY <1>1, <2>3, <3>1, Zenon
  <2>4. CASE \/ (\E ok \in BOOLEAN : PullEnds(j, ok)) \/ StartEnds(j)
             \/ (\E ok \in BOOLEAN : StartCleaned(j, ok))
             \/ StopGivesUp(j) \/ (\E ok \in BOOLEAN : StopEnds(j, ok))
    <3>1. job[j] \in StartPlaces \cup {"pull", "wait", "stop", "desktop"}
      BY <2>4, Zenon DEF PullEnds, StartEnds, StartCleaned, StopGivesUp, StopEnds, At, StartPlaces
    <3>2. opState[j] = "running"
      BY <1>2, <3>1, Zenon DEF Reports
    <3>3. \E ok \in BOOLEAN : Finish(j, ok)
      BY <2>4, Zenon DEF PullEnds, StartEnds, StartCleaned, StopGivesUp, StopEnds, Stopped
    <3> QED
      BY <2>3, <3>2, <3>3, Zenon
  <2>5. CASE GlassPresents(j) \/ \E ok \in BOOLEAN : GlassEnds(j, ok)
    BY <2>1, <2>3, <2>5, Zenon DEF GlassPresents, GlassEnds, NotPresented
  <2> QED
    BY <1>4, <2>1, <2>2, <2>4, <2>5, ZenonT(60) DEF Job, TimesOut, TimerFires, TimerCancels, Leave,
       StopPowersOff, StartJob, StartCreates, StartBoots, StartFails, StopJob, StopWaits,
       GlassJob, GlassOpens, WindowCloses, ops
<1>5. CASE UNCHANGED opState
  BY <1>5, Zenon
<1>6. CASE \E c \in Clients : Mutate(c)
  BY <1>3, <1>5, <1>6, ZenonT(60) DEF Mutate, Refuse, ops
<1> QED
  BY <1>4, <1>5, <1>6, ZenonT(60) DEF Next, Step, Ended, Request, Answer, ShutdownFails, GuestExits,
     Monitor, MonitorLooks, MonitorAsks, MonitorFails, ParentGone, Shutdown, ShutdownBegins,
     ShutdownDrains, ShutdownStops, ShutdownEnds, Returns, ParentStops, ReleaseOwned, Exit,
     ops, vars

\* The response recorded for a key does not change: a new request has a new key,
\* and an answer is the first one of its key.
LEMMA RepliesStay ==
  ASSUME IInv, RInv, Next, NEW k \in Keys, reply[k] \in Answers
  PROVE  reply'[k] = reply[k]
<1>0. TypeOK /\ Unanswered /\ reply[k] \notin {"unused", "pending"}
  BY Zenon DEF RInv, Answers
<1>1. ASSUME NEW c \in Clients, NEW j \in Keys, NEW r \in Requests, Request(c, j, r)
      PROVE  reply'[k] = reply[k]
  <2>1. reply[j] = "unused" /\ reply' = [reply EXCEPT ![j] = "pending"]
    BY <1>1, Zenon DEF Request, FirstUse, Unused
  <2> QED
    BY <1>0, <2>1, Domains, Zenon
<1>2. ASSUME NEW c \in Clients, Answer(c) PROVE reply'[k] = reply[k]
  <2>1. at[c] # "idle" /\ reply' = [reply EXCEPT ![key[c]] = out[c]]
    BY <1>2, Zenon DEF Answer
  <2>2. reply[key[c]] = "pending"
    BY <1>0, <2>1, Zenon DEF Unanswered
  <2> QED
    BY <1>0, <2>1, <2>2, Domains, Zenon
<1>3. CASE UNCHANGED reply
  BY <1>3, ZenonT(60)
<1>4. ASSUME NEW j \in Keys, Job(j) PROVE UNCHANGED reply
  BY <1>4, Zenon DEF Job, StartJob, StopJob, GlassJob, JobBegins, TimesOut, TimerFires,
     TimerCancels, Leave, StopPowersOff, PullEnds, StartCreates, StartBoots, StartFails,
     StartEnds, StartCleaned, StopWaits, StopGivesUp, StopEnds, Stopped, GlassOpens,
     GlassPresents, WindowCloses, GlassEnds, http
<1>5. ASSUME NEW c \in Clients, Mutate(c) PROVE UNCHANGED reply
  BY <1>5, ZenonT(60) DEF Mutate, Refuse, AcceptPull, AcceptStart, AcceptGlass, AcceptStop, Accept,
     Responds
<1> QED
  BY <1>1, <1>2, <1>3, <1>4, <1>5, Zenon DEF Next, Step, Ended, ShutdownFails, GuestExits,
     Monitor, MonitorLooks, MonitorAsks, MonitorFails, ParentGone, Shutdown, ShutdownBegins,
     ShutdownDrains, ShutdownStops, ShutdownEnds, Returns, Responds, ParentStops, ReleaseOwned,
     Exit, http, vars

\* FinishedStays holds: an operation ends once, and a key is answered once.
THEOREM FinishedStaysCorrect == Spec => FinishedStays
<1> DEFINE Stays == \A k \in Keys :
             /\ opState[k] \in {"succeeded", "failed"} => opState'[k] = opState[k]
             /\ reply[k] \in Answers => reply'[k] = reply[k]
<1>1. ASSUME IInv, RInv, Next PROVE Stays
  BY <1>1, OpsStay, RepliesStay, Zenon
<1>2. IInv /\ RInv /\ [Next]_vars => [Stays]_vars
  BY <1>1, ZenonT(60)
<1> QED
  BY <1>2, ReportsCorrect, PTL DEF Spec, FinishedStays

\* What a step may do to the state of a machine: only the end of a start that
\* finds it starting lets it run, and only a new machine starts.
LEMMA VmSteps ==
  ASSUME IInv, RInv, Next, NEW v \in Keys
  PROVE  /\ vmState'[v] = "running" => vmState[v] \in {"starting", "running"}
         /\ vmState[v] \notin {"none", "starting"} => vmState'[v] # "starting"
<1> DEFINE Fine == /\ vmState'[v] = "running" => vmState[v] \in {"starting", "running"}
                   /\ vmState[v] \notin {"none", "starting"} => vmState'[v] # "starting"
<1>0. TypeOK /\ RCore
  BY RInvParts, Zenon
<1>1. CASE UNCHANGED vmState
  BY <1>1, Zenon
<1>2. ASSUME NEW w, NEW s, vmState' = [vmState EXCEPT ![w] = s], s \notin {"running", "starting"}
      PROVE  Fine
  BY <1>0, <1>2, Domains, ZenonT(60)
<1>3. ASSUME NEW c \in Clients, Mutate(c) PROVE Fine
  <2>1. CASE UNCHANGED vmState
    BY <1>1, <2>1, ZenonT(60)
  <2>2. ASSUME NEW k \in Keys, AcceptStart(c, k) PROVE Fine
    <3>1. PICK route : Accept(c, route, k)
      BY <2>2, ZenonT(60) DEF AcceptStart
    <3>2. vmState[k] = "none"
      BY <1>0, <3>1, AcceptFacts, Zenon
    <3>3. vmState' = [vmState EXCEPT ![k] = "starting"]
      BY <2>2, Zenon DEF AcceptStart
    <3> QED
      BY <1>0, <3>2, <3>3, Domains, Zenon
  <2>3. ASSUME NEW k \in Keys, NEW w \in Keys, AcceptStop(c, k, w) PROVE Fine
    <3>1. vmState' = [vmState EXCEPT ![w] = "stopping"]
      BY <2>3, Zenon DEF AcceptStop
    <3>2. "stopping" \notin {"running", "starting"}
      BY Zenon
    <3> QED
      BY <1>2, <3>1, <3>2, Zenon
  <2> QED
    BY <1>3, <2>1, <2>2, <2>3, Zenon DEF Mutate, Refuse, AcceptPull, AcceptGlass, vms
<1>4. ASSUME NEW k \in Keys, Job(k) PROVE Fine
  <2>1. CASE UNCHANGED vmState
    BY <1>1, <2>1, Zenon
  <2>2. CASE StartEnds(k)
    <3>1. UNCHANGED vmState \/ (vmState[k] = "starting" /\ vmState' = [vmState EXCEPT ![k] = "running"])
      BY <2>2, Zenon DEF StartEnds, StillStarting
    <3> QED
      BY <1>0, <3>1, Domains, Zenon
  <2>3. CASE \/ StopGivesUp(k) \/ (\E ok \in BOOLEAN : StopEnds(k, ok))
             \/ \E ok \in BOOLEAN : StartCleaned(k, ok)
    <3>1. UNCHANGED vmState \/ \E w : \E s \in {"stopped", "failed"} : vmState' = [vmState EXCEPT ![w] = s]
      BY <2>3, Zenon DEF StopGivesUp, StopEnds, Stopped, StartCleaned
    <3> QED
      BY <1>1, <1>2, <3>1, Zenon
  <2> QED
    BY <1>4, <2>1, <2>2, <2>3, ZenonT(60) DEF Job, StartJob, StopJob, GlassJob, JobBegins, TimesOut,
       TimerFires, TimerCancels, Leave, StopPowersOff, PullEnds, StartCreates, StartBoots,
       StartFails, StopWaits, GlassOpens, GlassPresents, WindowCloses, GlassEnds, vms
<1>5. ASSUME NEW w \in Keys, MonitorFails(w) PROVE Fine
  <2>1. UNCHANGED vmState \/ vmState' = [vmState EXCEPT ![w] = "failed"]
    BY <1>5, Zenon DEF MonitorFails
  <2>2. "failed" \notin {"running", "starting"}
    BY Zenon
  <2> QED
    BY <1>1, <1>2, <2>1, <2>2, Zenon
<1>6. ASSUME NEW c \in Callers, ShutdownEnds(c) PROVE Fine
  BY <1>6, Zenon DEF ShutdownEnds
<1> QED
  BY <1>1, <1>3, <1>4, <1>5, <1>6, ZenonT(60) DEF Next, Step, Ended, Request, Answer, ShutdownFails,
     GuestExits, Monitor, MonitorLooks, MonitorAsks, ParentGone, Shutdown, ShutdownBegins,
     ShutdownDrains, ShutdownStops, ParentStops, ReleaseOwned, Exit, vms, vars

\* NeverRevived holds: no step undoes a stop, and a machine is called stopped
\* only when the driver has released it.
THEOREM NeverRevivedCorrect == Spec => NeverRevived
<1> DEFINE Fine == \A v \in Keys :
             /\ vmState'[v] = "running" => vmState[v] \in {"starting", "running"}
             /\ vmState[v] \notin {"none", "starting"} => vmState'[v] # "starting"
             /\ vmState'[v] = "stopped" => machine'[v] = "none"
<1>1. ASSUME IInv, RInv, Next PROVE Fine
  <2>1. RInv'
    BY <1>1, RKeeps, Zenon
  <2>2. \A v \in Keys : vmState'[v] = "stopped" => machine'[v] = "none"
    BY <2>1, Zenon DEF RInv, StoppedGone, Live
  <2> QED
    BY <1>1, <2>2, VmSteps, Zenon
<1>2. IInv /\ RInv /\ [Next]_vars => [Fine]_vars
  BY <1>1, Zenon
<1> QED
  BY <1>2, ReportsCorrect, PTL DEF Spec, NeverRevived
=============================================================================
