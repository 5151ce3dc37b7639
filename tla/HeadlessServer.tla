--------------------------- MODULE HeadlessServer ---------------------------
(***************************************************************************)
(* The headless backend of the desktop application: an HTTP server that    *)
(* pulls images, starts and stops one virtual machine, opens its native    *)
(* window ("Glass") and shuts down (internal/desktopapp/headless_http.go), *)
(* the driver behind it (headless_runtime.go) and the process around both  *)
(* (headless_run.go).                                                      *)
(*                                                                         *)
(* A request that changes something carries an idempotency key.  Accepted  *)
(* work is an operation with a goroutine of its own, its job.  A key       *)
(* starts at most one operation, so the key also names the operation, its  *)
(* job, its context and, for a start, the virtual machine.  Keys are       *)
(* numbered in the order of their first use.                               *)
(***************************************************************************)
EXTENDS Naturals, FiniteSets

CONSTANTS
  Clients,   \* requests that may be in progress at once
  Parent,    \* the watcher of standard input and signals
  MaxKeys,   \* bound on the idempotency keys used
  Asks       \* the routes each key may be used for

ASSUME ParentAssumption == Parent \notin Clients
ASSUME KeysAssumption == MaxKeys \in Nat

Callers == Clients \cup {Parent}
Keys == 1..MaxKeys
None == 0

Routes == {"pull", "start", "glass", "stop", "shutdown"}

ASSUME AsksAssumption == Asks \in [Keys -> SUBSET Routes]

VARIABLES
  at,        \* where each caller is in ServeHTTP, or the watcher in shutdown
  key,       \* the idempotency key of its request
  out,       \* the response mutate wrote
  request,   \* headlessReplay.request of each key
  reply,     \* headlessReplay.status, once headlessReplay.done is closed
  opState,   \* headlessOperation.State
  job,       \* where the operation's goroutine is
  waits,     \* the job whose done channel a stop waits for
  cancelled, \* contexts that were cancelled or ran out of time
  timer,     \* the timer of a Glass job
  images,    \* whether an image is prepared
  vmState,   \* headlessVM.State
  owns,      \* machines with headlessVM.ownsResources
  active,    \* headlessVM.Active
  glass,     \* headlessVM.Glass.State
  vmJob,     \* the job that headlessVM.cancel and headlessVM.done belong to
  machine,   \* the driver's runtime of each virtual machine
  ui,        \* the Glass job whose window the main thread runs
  monitor,   \* the machines monitorVMs has still to ask, and found gone
  closing,   \* headlessServer.closing; the server's context ends with it
  gate,      \* the caller that holds shutdownGate
  stopped,   \* headlessServer.stopped is closed
  exit       \* how the process ended

http == <<at, key, out, request, reply>>
ops == <<opState, job, waits, cancelled, timer, images>>
vms == <<vmState, owns, active, glass, vmJob>>
driver == <<machine, ui>>
server == <<closing, gate, stopped, exit>>
vars == <<http, ops, vms, driver, monitor, server>>

Requests == [route : {"pull", "start", "shutdown"}, vm : {None}]
              \cup [route : {"glass", "stop"}, vm : Keys]
Answers == {"accepted", "refused", "failed", "stopped"}

Init ==
  /\ at = [c \in Callers |-> "idle"]
  /\ key = [c \in Callers |-> None]
  /\ out = [c \in Callers |-> "none"]
  /\ request = [k \in Keys |-> [route |-> "pull", vm |-> None]]
  /\ reply = [k \in Keys |-> "unused"]
  /\ opState = [k \in Keys |-> "none"]
  /\ job = [k \in Keys |-> "none"]
  /\ waits = [k \in Keys |-> None]
  /\ cancelled = {}
  /\ timer = [k \in Keys |-> "off"]
  /\ images = FALSE
  /\ vmState = [k \in Keys |-> "none"]
  /\ owns = {}
  /\ active = [k \in Keys |-> None]
  /\ glass = [k \in Keys |-> "none"]
  /\ vmJob = [k \in Keys |-> None]
  /\ machine = [k \in Keys |-> "none"]
  /\ ui = None
  /\ monitor = [todo |-> {}, gone |-> {}]
  /\ closing = FALSE
  /\ gate = None
  /\ stopped = FALSE
  /\ exit = "no"

\* The machine an operation is about.
Vm(k) == IF request[k].route = "start" THEN k ELSE request[k].vm

Done(k) == k \in cancelled

-----------------------------------------------------------------------------
(* ServeHTTP.  A key seen before changes nothing: the request waits for    *)
(* the recorded response and replays it, or is refused with 409 if it is   *)
(* another one.  Nor does the 503 of the first test of closing.            *)

Unused(k) == reply[k] = "unused"

\* The key is new to the server.
FirstUse(k) == Unused(k) /\ \A i \in Keys : i < k => ~Unused(i)

\* The identifier of a machine is random: a client knows it from the answer.
Request(c, k, r) ==
  /\ at[c] = "idle"
  /\ FirstUse(k) /\ r.route \in Asks[k]
  /\ r.vm # None => vmState[r.vm] # "none"
  /\ closing => r.route = "shutdown"
  /\ request' = [request EXCEPT ![k] = r]
  /\ reply' = [reply EXCEPT ![k] = "pending"]
  /\ key' = [key EXCEPT ![c] = k]
  /\ at' = [at EXCEPT ![c] = IF r.route = "shutdown" THEN "gate" ELSE "mutate"]
  /\ UNCHANGED <<out, ops, vms, driver, monitor, server>>

Answer(c) ==
  /\ at[c] = "answer"
  /\ at' = [at EXCEPT ![c] = "idle"]
  /\ key' = [key EXCEPT ![c] = None]
  /\ out' = [out EXCEPT ![c] = "none"]
  /\ reply' = [reply EXCEPT ![key[c]] = out[c]]
  /\ stopped' = (stopped \/ out[c] = "stopped")
  /\ UNCHANGED <<request, ops, vms, driver, monitor, closing, gate, exit>>

Responds(c, answer) ==
  /\ at' = [at EXCEPT ![c] = "answer"]
  /\ out' = [out EXCEPT ![c] = answer]
  /\ UNCHANGED <<key, request, reply>>

-----------------------------------------------------------------------------
(* mutate: one critical section, after a second test of closing.           *)

\* Mutant: closing is not tested again under the lock.
ServingAlways == TRUE

Serving == ~closing

\* closing, an invalid body, or a state that does not allow the operation.
Refuse(c) ==
  /\ at[c] = "mutate"
  /\ Responds(c, "refused")
  /\ UNCHANGED <<ops, vms, driver, monitor, server>>

\* accept: a new operation, and the goroutine that runs it.
Accept(c, route, k) ==
  /\ at[c] = "mutate" /\ key[c] = k /\ request[k].route = route
  /\ Serving
  /\ opState' = [opState EXCEPT ![k] = "queued"]
  /\ job' = [job EXCEPT ![k] = "queued"]
  /\ Responds(c, "accepted")
  /\ UNCHANGED <<timer, images, driver, monitor, server>>

AcceptPull(c, k) ==
  /\ Accept(c, "pull", k)
  /\ UNCHANGED <<waits, cancelled, vms>>

\* Mutant: cancel and done stay those of the start.
HoldsFirst(v, k) == [vmJob EXCEPT ![v] = IF @ = None THEN k ELSE @]

\* cancel and done of machine v become those of job k.
Holds(v, k) == [vmJob EXCEPT ![v] = k]

AcceptStart(c, k) ==
  /\ images /\ owns = {}
  /\ Accept(c, "start", k)
  /\ vmState' = [vmState EXCEPT ![k] = "starting"]
  /\ owns' = owns \cup {k}
  /\ active' = [active EXCEPT ![k] = k]
  /\ vmJob' = Holds(k, k)
  /\ UNCHANGED <<waits, cancelled, glass>>

\* spawnGlass
AcceptGlass(c, k, v) ==
  /\ vmState[v] = "running" /\ active[v] = None
  /\ glass[v] \notin {"open", "starting"}
  /\ request[k].vm = v
  /\ Accept(c, "glass", k)
  /\ active' = [active EXCEPT ![v] = k]
  /\ glass' = [glass EXCEPT ![v] = "starting"]
  /\ vmJob' = Holds(v, k)
  /\ UNCHANGED <<waits, cancelled, vmState, owns>>

\* Any machine that exists and is not being stopped, a stopped one included.
AcceptStop(c, k, v) ==
  /\ vmState[v] \notin {"none", "stopping"}
  /\ request[k].vm = v
  /\ Accept(c, "stop", k)
  /\ vmState' = [vmState EXCEPT ![v] = "stopping"]
  /\ active' = [active EXCEPT ![v] = k]
  /\ cancelled' = cancelled \cup {vmJob[v]}
  /\ waits' = [waits EXCEPT ![k] = vmJob[v]]
  /\ UNCHANGED <<owns, glass, vmJob>>

-----------------------------------------------------------------------------
(* The jobs.  What a job does between two critical sections is one step    *)
(* for each effect on the driver.                                          *)

At(k, from, to) ==
  /\ job[k] = from
  /\ job' = [job EXCEPT ![k] = to]

Begun(route) ==
  CASE route = "pull" -> "pull" [] route = "start" -> "boot"
    [] route = "glass" -> "desktop" [] OTHER -> "wait"

JobBegins(k) ==
  /\ At(k, "queued", Begun(request[k].route))
  /\ opState' = [opState EXCEPT ![k] = "running"]
  /\ timer' = [timer EXCEPT ![k] = IF request[k].route = "glass" THEN "armed" ELSE @]
  /\ UNCHANGED <<waits, cancelled, images, http, vms, driver, monitor, server>>

\* Mutant: the context of a start has no deadline.
DeadlinesButBoot == {"pull", "wait", "stop"}

\* Where the context of a pull, a start or a stop may run out of time.
Deadlines == {"pull", "boot", "created", "guest", "wait", "stop"}

TimesOut(k) ==
  /\ job[k] \in Deadlines
  /\ ~Done(k)
  /\ cancelled' = cancelled \cup {k}
  /\ UNCHANGED <<opState, job, waits, timer, images, http, vms, driver, monitor, server>>

\* The timer of a Glass job runs in a goroutine of its own: stopping it does
\* not stop a callback that has begun.
TimerFires(k) ==
  /\ timer[k] = "armed" /\ ~Done(k)
  /\ timer' = [timer EXCEPT ![k] = "fired"]
  /\ UNCHANGED <<opState, job, waits, cancelled, images, http, vms, driver, monitor, server>>

TimerCancels(k) ==
  /\ timer[k] = "fired"
  /\ timer' = [timer EXCEPT ![k] = "off"]
  /\ cancelled' = cancelled \cup {k}
  /\ UNCHANGED <<opState, job, waits, images, http, vms, driver, monitor, server>>

TimerOff(k) == [timer EXCEPT ![k] = IF @ = "armed" THEN "off" ELSE @]

\* finish
Finish(k, ok) ==
  opState' = [opState EXCEPT ![k] = IF ok THEN "succeeded" ELSE "failed"]

\* The deferred calls: the job's context is cancelled, a callback of its timer
\* has no effect any more, its done channel is closed, and the job counted.
Leave(k) ==
  /\ At(k, "leave", "done")
  /\ cancelled' = cancelled \cup {k}
  /\ timer' = [timer EXCEPT ![k] = "off"]
  /\ UNCHANGED <<opState, waits, images, http, vms, driver, monitor, server>>

PullEnds(k, ok) ==
  /\ At(k, "pull", "leave")
  /\ Finish(k, ok)
  /\ images' = (images \/ ok)
  /\ UNCHANGED <<waits, cancelled, timer, http, vms, driver, monitor, server>>

-----------------------------------------------------------------------------
(* Start, and the driver's Start: a runtime enters the driver's table and  *)
(* boots the guest, any part may fail, and a failed start releases what it *)
(* left with the driver's Stop.                                            *)

StartCreates(k) ==
  /\ At(k, "boot", "created")
  /\ machine' = [machine EXCEPT ![k] = "created"]
  /\ UNCHANGED <<opState, waits, cancelled, timer, images, http, vms, ui, monitor, server>>

StartBoots(k) ==
  /\ At(k, "created", "guest")
  /\ machine' = [machine EXCEPT ![k] = "running"]
  /\ UNCHANGED <<opState, waits, cancelled, timer, images, http, vms, ui, monitor, server>>

StartFails(k) ==
  /\ \E from \in {"boot", "created", "guest"} : At(k, from, "cleanup")
  /\ UNCHANGED <<opState, waits, cancelled, timer, images, http, vms, driver, monitor, server>>

\* Mutant: whatever happened to the machine meanwhile.
StillStartingAlways(k) == TRUE

\* A machine that is no longer starting is left to the stop that changed it.
StillStarting(k) == vmState[k] = "starting"

StartEnds(k) ==
  /\ At(k, "guest", "leave")
  /\ Finish(k, TRUE)
  /\ IF StillStarting(k)
       THEN /\ vmState' = [vmState EXCEPT ![k] = "running"]
            /\ active' = [active EXCEPT ![k] = None]
       ELSE UNCHANGED <<vmState, active>>
  /\ UNCHANGED <<waits, cancelled, timer, images, owns, glass, vmJob, http, driver, monitor, server>>

\* The driver's Stop of machine v: an unknown one is stopped.  A running guest
\* is asked to power off, and only one that has exited is released.
PowersOff(v) ==
  /\ machine[v] = "running"
  /\ machine' = [machine EXCEPT ![v] = "exited"]
  /\ UNCHANGED ui

Releases(v) ==
  /\ machine[v] # "running"
  /\ machine' = [machine EXCEPT ![v] = "none"]
  /\ UNCHANGED ui

DriverStop(v, ok) ==
  IF ok THEN Releases(v) ELSE machine[v] # "none" /\ UNCHANGED driver

StopPowersOff(k) ==
  /\ job[k] \in {"cleanup", "stop"}
  /\ PowersOff(Vm(k))
  /\ UNCHANGED <<http, ops, vms, monitor, server>>

StartCleaned(k, ok) ==
  /\ At(k, "cleanup", "leave")
  /\ DriverStop(k, ok)
  /\ Finish(k, FALSE)
  /\ IF StillStarting(k)
       THEN /\ vmState' = [vmState EXCEPT ![k] = "failed"]
            /\ owns' = IF ok THEN owns \ {k} ELSE owns
            /\ active' = [active EXCEPT ![k] = None]
       ELSE UNCHANGED <<vmState, owns, active>>
  /\ UNCHANGED <<waits, cancelled, timer, images, glass, vmJob, http, monitor, server>>

-----------------------------------------------------------------------------
(* Stop.                                                                   *)

\* Mutant: the guest is stopped at once.
DetachedAlways(k) == TRUE

\* The job the machine had when the stop was accepted has closed its done.
Detached(k) == job[waits[k]] = "done"

StopWaits(k) ==
  /\ At(k, "wait", "stop")
  /\ Detached(k)
  /\ UNCHANGED <<opState, waits, cancelled, timer, images, http, vms, driver, monitor, server>>

Stopped(k, ok) ==
  /\ Finish(k, ok)
  /\ vmState' = [vmState EXCEPT ![Vm(k)] = IF ok THEN "stopped" ELSE "failed"]
  /\ owns' = IF ok THEN owns \ {Vm(k)} ELSE owns \cup {Vm(k)}
  /\ active' = [active EXCEPT ![Vm(k)] = None]
  /\ UNCHANGED <<waits, cancelled, timer, images, glass, vmJob, http, monitor, server>>

StopGivesUp(k) ==
  /\ Done(k)
  /\ At(k, "wait", "leave")
  /\ Stopped(k, FALSE)
  /\ UNCHANGED driver

StopEnds(k, ok) ==
  /\ At(k, "stop", "leave")
  /\ DriverStop(Vm(k), ok)
  /\ Stopped(k, ok)

-----------------------------------------------------------------------------
(* Glass: the desktop is started in the guest, the window runs on the main *)
(* thread, and the first frame completes the operation.                    *)

GlassOpens(k) ==
  /\ At(k, "desktop", "window")
  /\ ui = None /\ machine[Vm(k)] # "none"
  /\ ui' = k
  /\ UNCHANGED <<opState, waits, cancelled, timer, images, machine, http, vms, monitor, server>>

GlassPresents(k) ==
  /\ job[k] = "window" /\ ~Done(k) /\ opState[k] = "running"
  /\ timer' = TimerOff(k)
  /\ glass' = [glass EXCEPT ![Vm(k)] = "open"]
  /\ active' = [active EXCEPT ![Vm(k)] = None]
  /\ Finish(k, TRUE)
  /\ UNCHANGED <<job, waits, cancelled, images, vmState, owns, vmJob, http, driver, monitor, server>>

\* The user closes the window, it fails, or its context ends.
WindowCloses(k) ==
  /\ At(k, "window", "closed")
  /\ ui' = None
  /\ UNCHANGED <<opState, waits, cancelled, timer, images, machine, http, vms, monitor, server>>

\* Mutants: the operation ends although it had; the active one is cleared,
\* whichever it is.
NotPresentedAlways(k) == TRUE
ClearsAny(k) == [active EXCEPT ![Vm(k)] = None]

\* No frame was presented: the operation still runs.
NotPresented(k) == opState[k] = "running"

Clears(k) == [active EXCEPT ![Vm(k)] = IF @ = k THEN None ELSE @]

\* Without a window there is an error.
GlassEnds(k, ok) ==
  /\ \/ At(k, "desktop", "leave") /\ ~ok
     \/ At(k, "closed", "leave")
  /\ timer' = TimerOff(k)
  /\ IF NotPresented(k)
       THEN /\ Finish(k, FALSE)
            /\ glass' = [glass EXCEPT ![Vm(k)] = "failed"]
       ELSE /\ glass' = [glass EXCEPT ![Vm(k)] = IF ok THEN "closed" ELSE "failed"]
            /\ UNCHANGED opState
  /\ active' = Clears(k)
  /\ UNCHANGED <<waits, cancelled, images, vmState, owns, vmJob, http, driver, monitor, server>>

-----------------------------------------------------------------------------
(* monitorVMs, and guests that end by themselves.                          *)

GuestExits(v) ==
  /\ PowersOff(v)
  /\ UNCHANGED <<http, ops, vms, monitor, server>>

\* A tick and the end of the server's context may be ready together.
MonitorLooks ==
  /\ monitor = [todo |-> {}, gone |-> {}]
  /\ monitor' = [todo |-> {v \in Keys : vmState[v] = "running"}, gone |-> {}]
  /\ monitor' # monitor
  /\ UNCHANGED <<http, ops, vms, driver, server>>

\* Status is asked without the lock; an error counts as running.
MonitorAsks(v, gone) ==
  /\ v \in monitor.todo /\ monitor.gone = {}
  /\ gone => machine[v] # "running"
  /\ monitor' = [todo |-> monitor.todo \ {v}, gone |-> IF gone THEN {v} ELSE {}]
  /\ UNCHANGED <<http, ops, vms, driver, server>>

MonitorFails(v) ==
  /\ v \in monitor.gone
  /\ monitor' = [monitor EXCEPT !.gone = {}]
  /\ IF vmState[v] = "running"
       THEN /\ vmState' = [vmState EXCEPT ![v] = "failed"]
            /\ cancelled' = cancelled \cup {vmJob[v]}
       ELSE UNCHANGED <<vmState, cancelled>>
  /\ UNCHANGED <<opState, job, waits, timer, images, owns, active, glass, vmJob, http, driver, server>>

-----------------------------------------------------------------------------
(* shutdown, called by a request or, once, by the watcher of standard      *)
(* input and signals.  Its deadline may pass at every wait.                *)

ParentGone ==
  /\ at[Parent] = "idle"
  /\ at' = [at EXCEPT ![Parent] = "gate"]
  /\ UNCHANGED <<key, out, request, reply, ops, vms, driver, monitor, server>>

\* Every context of a job is derived from the server's.
ShutdownBegins(c) ==
  /\ at[c] = "gate" /\ gate = None
  /\ gate' = c
  /\ closing' = TRUE
  /\ cancelled' = Keys
  /\ at' = [at EXCEPT ![c] = "drain"]
  /\ UNCHANGED <<opState, job, waits, timer, images>>
  /\ UNCHANGED <<key, out, request, reply, vms, driver, monitor, stopped, exit>>

Drained == \A k \in Keys : job[k] \in {"none", "done"}

ShutdownDrains(c) ==
  /\ at[c] = "drain" /\ Drained
  /\ at' = [at EXCEPT ![c] = "driver"]
  /\ UNCHANGED <<key, out, request, reply, ops, vms, driver, monitor, server>>

\* The driver's Shutdown: Stop of every machine in its table.
ShutdownStops(c) ==
  /\ at[c] = "driver"
  /\ \E v \in Keys : PowersOff(v) \/ (machine[v] # "none" /\ Releases(v))
  /\ UNCHANGED <<http, ops, vms, monitor, server>>

Returns(c, answer) ==
  /\ Responds(c, answer)
  /\ gate' = IF gate = c THEN None ELSE gate
  /\ UNCHANGED <<ops, monitor, closing, stopped, exit>>

ShutdownFails(c) ==
  /\ at[c] \in {"gate", "drain", "driver"}
  /\ Returns(c, "failed")
  /\ UNCHANGED <<vms, driver>>

ShutdownEnds(c) ==
  /\ at[c] = "driver" /\ \A v \in Keys : machine[v] = "none"
  /\ vmState' = [v \in Keys |-> IF vmState[v] = "none" THEN "none" ELSE "stopped"]
  /\ owns' = {}
  /\ active' = [v \in Keys |-> None]
  /\ glass' = [v \in Keys |-> IF glass[v] = "none" THEN "none" ELSE "closed"]
  /\ Returns(c, "stopped")
  /\ UNCHANGED <<vmJob, driver>>

\* The watcher's shutdown: it succeeds, or it fails, what is left is released
\* as a last resort (releaseOwned), and the process ends with an error.  What
\* others do after the failure, they might as well do just before it.
ParentStops ==
  /\ at[Parent] = "answer" /\ out[Parent] = "stopped"
  /\ at' = [at EXCEPT ![Parent] = "done"]
  /\ stopped' = TRUE
  /\ UNCHANGED <<key, out, request, reply, ops, vms, driver, monitor, closing, gate, exit>>

ReleaseOwned ==
  /\ at[Parent] \in {"gate", "drain", "driver"}
  /\ machine' = [v \in Keys |-> IF machine[v] = "running" THEN "exited" ELSE machine[v]]
  /\ exit' = "fatal"
  /\ UNCHANGED <<http, ops, vms, ui, monitor, closing, gate, stopped>>

\* The main thread, when it runs no window.
Exit ==
  /\ ui = None /\ stopped
  /\ exit' = "stopped"
  /\ UNCHANGED <<http, ops, vms, driver, monitor, closing, gate, stopped>>

-----------------------------------------------------------------------------

Mutate(c) ==
  \/ Refuse(c)
  \/ \E k \in Keys : AcceptPull(c, k) \/ AcceptStart(c, k)
  \/ \E k, v \in Keys : AcceptGlass(c, k, v) \/ AcceptStop(c, k, v)

StartJob(k) ==
  StartCreates(k) \/ StartBoots(k) \/ StartFails(k) \/ StartEnds(k)
    \/ \E ok \in BOOLEAN : StartCleaned(k, ok)
StopJob(k) ==
  StopWaits(k) \/ StopGivesUp(k) \/ \E ok \in BOOLEAN : StopEnds(k, ok)
GlassJob(k) ==
  GlassOpens(k) \/ GlassPresents(k) \/ WindowCloses(k)
    \/ \E ok \in BOOLEAN : GlassEnds(k, ok)
Job(k) ==
  JobBegins(k) \/ TimesOut(k) \/ TimerFires(k) \/ TimerCancels(k) \/ Leave(k)
    \/ StopPowersOff(k) \/ (\E ok \in BOOLEAN : PullEnds(k, ok))
    \/ StartJob(k) \/ StopJob(k) \/ GlassJob(k)

Monitor ==
  \/ MonitorLooks
  \/ \E v \in Keys : (\E gone \in BOOLEAN : MonitorAsks(v, gone)) \/ MonitorFails(v)

Shutdown(c) ==
  ShutdownBegins(c) \/ ShutdownDrains(c) \/ ShutdownStops(c) \/ ShutdownEnds(c)

Alive == exit = "no"

Step ==
  \/ \E c \in Clients : \/ \E k \in Keys, r \in Requests : Request(c, k, r)
                        \/ Mutate(c) \/ Answer(c) \/ ShutdownFails(c)
  \/ \E k \in Keys : Job(k) \/ GuestExits(k)
  \/ Monitor
  \/ ParentGone \/ (\E c \in Callers : Shutdown(c)) \/ ParentStops \/ ReleaseOwned
  \/ Exit

Ended == ~Alive /\ UNCHANGED vars

Next == (Alive /\ Step) \/ Ended

Spec == Init /\ [][Next]_vars

(* Goroutines run, timers and deadlines pass, and what the driver does ends *)
(* once its context has ended.  Guests, windows and users need do nothing.  *)
JobRuns(k) ==
  \/ JobBegins(k) \/ Leave(k) \/ StopWaits(k) \/ StopGivesUp(k)
  \/ \E ok \in BOOLEAN :
       \/ StartCleaned(k, ok)
       \/ job[k] = "closed" /\ GlassEnds(k, ok)
       \/ Done(k) /\ (PullEnds(k, ok) \/ StopEnds(k, ok) \/ GlassEnds(k, ok))
  \/ Done(k) /\ (StartFails(k) \/ StartEnds(k) \/ WindowCloses(k))
TimePasses(k) == TimesOut(k) \/ TimerFires(k) \/ TimerCancels(k)

Fairness ==
  \A k \in Keys : WF_vars(Alive /\ JobRuns(k)) /\ WF_vars(Alive /\ TimePasses(k))

FairSpec == Spec /\ Fairness

-----------------------------------------------------------------------------
(* Properties.                                                             *)

JobPlaces == {"none", "queued", "pull", "boot", "created", "guest", "cleanup", "wait",
              "stop", "desktop", "window", "closed", "leave", "done"}

\* Every variable has its type, a machine is made by a start only, and it has
\* the cancel and done functions that mutate calls and waits for.
TypeOK ==
  /\ at \in [Callers -> {"idle", "mutate", "answer", "gate", "drain", "driver",
                         "done"}]
  /\ key \in [Callers -> Keys \cup {None}]
  /\ out \in [Callers -> Answers \cup {"none"}]
  /\ request \in [Keys -> Requests]
  /\ reply \in [Keys -> Answers \cup {"unused", "pending"}]
  /\ opState \in [Keys -> {"none", "queued", "running", "succeeded", "failed"}]
  /\ job \in [Keys -> JobPlaces]
  /\ waits \in [Keys -> Keys \cup {None}]
  /\ cancelled \subseteq Keys
  /\ timer \in [Keys -> {"off", "armed", "fired"}]
  /\ vmState \in [Keys -> {"none", "starting", "running", "stopping", "stopped", "failed"}]
  /\ owns \subseteq Keys
  /\ active \in [Keys -> Keys \cup {None}]
  /\ glass \in [Keys -> {"none", "starting", "open", "closed", "failed"}]
  /\ vmJob \in [Keys -> Keys \cup {None}]
  /\ machine \in [Keys -> {"none", "created", "running", "exited"}]
  /\ ui \in Keys \cup {None}
  /\ monitor \in [todo : SUBSET Keys, gone : SUBSET Keys]
  /\ images \in BOOLEAN /\ closing \in BOOLEAN /\ stopped \in BOOLEAN
  /\ gate \in Callers \cup {None}
  /\ exit \in {"no", "stopped", "fatal"}
  /\ \A v \in Keys : vmState[v] # "none" => request[v].route = "start" /\ vmJob[v] # None

\* "max_active_vms": 1.  The driver never holds two machines, and one that it
\* holds is marked as owning resources, so that no other start is accepted and
\* a failed stop can be tried again.
OneMachine ==
  /\ \A v \in Keys : machine[v] # "none" => v \in owns
  /\ \A v, w \in Keys : machine[v] # "none" /\ machine[w] # "none" => v = w

\* While a stop, or a shutdown, asks a guest to power off and releases its
\* display, no window of that machine is open or can still open.
DetachedFirst ==
  /\ \A k, g \in Keys :
       job[k] = "stop" /\ request[g].route = "glass" /\ Vm(g) = Vm(k)
         => job[g] \in {"none", "leave", "done"}
  /\ \A c \in Callers : at[c] = "driver" => ui = None

Unfinished(k) == opState[k] \in {"queued", "running"}

\* The active operation a machine reports has not ended, and a stop is
\* reported until it has: no end of a start or of a window hides it.
ActiveHonest ==
  /\ \A v \in Keys : active[v] # None => Unfinished(active[v])
  /\ \A k \in Keys : request[k].route = "stop" /\ Unfinished(k) => active[Vm(k)] = k

\* Once a shutdown succeeded, every job has ended and nothing is left of any
\* machine; nothing begins afterwards.
ShutdownComplete ==
  stopped \/ (\E c \in Clients : out[c] = "stopped")
    => /\ Drained
       /\ owns = {}
       /\ \A v \in Keys : machine[v] = "none" /\ vmState[v] \in {"none", "stopped"}

\* An operation ends once, and the response recorded for a key is the one that
\* every retry gets: neither a retry nor a late callback changes them.
FinishedStays ==
  [][\A k \in Keys :
       /\ opState[k] \in {"succeeded", "failed"} => opState'[k] = opState[k]
       /\ reply[k] \in Answers => reply'[k] = reply[k]]_vars

\* A machine runs only once: the end of its start does not undo a stop, and it
\* is called stopped only when the driver has released it.
NeverRevived ==
  [][\A v \in Keys :
       /\ vmState'[v] = "running" => vmState[v] \in {"starting", "running"}
       /\ vmState[v] \notin {"none", "starting"} => vmState'[v] # "starting"
       /\ vmState'[v] = "stopped" => machine'[v] = "none"]_vars

\* Every accepted operation ends, whatever the guest, the window and the
\* driver do, unless the process ends first: again and again there is a time
\* when none is in progress.
OperationsEnd == []<>(~Alive \/ \A k \in Keys : ~Unfinished(k))

=============================================================================
