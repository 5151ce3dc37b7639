--------------------------- MODULE VMManagerProofs ---------------------------
(***************************************************************************)
(* Proofs about the life of a machine, for any number of names, starts,    *)
(* operations, callers and retries: it stays registered until a stop       *)
(* succeeds, a stop can reach every instance that runs, and an exit that a *)
(* stop caused is not reported as a crash.                                 *)
(*                                                                         *)
(* None of the three is inductive.  A failed stop publishes its error some *)
(* steps after Close returned, and watch may publish an exit meanwhile:    *)
(* KInv says that a stop in progress holds stopping, which keeps watch     *)
(* away, and that no start can take the name.  MInv adds, for each start   *)
(* and its machine (Local), which phases have an instance, a slot and a    *)
(* lease, what watch has seen, and what each outcome of a stop says of the *)
(* instance.  A step of one start leaves Local of the others: what it does *)
(* to the maps is about its own name (Apart).                              *)
(***************************************************************************)
EXTENDS VMManager, TLAPS

(* The outcomes of a stop, and the maps of the manager.                    *)
Outcomes == {"pending", "ok", "err"}

(* The maps that KInv is about.                                            *)
Shape ==
    /\ running \in [Ids -> Attempts \cup {NoOne}]
    /\ starting \in [Ids -> Attempts \cup {NoOne}]
    /\ DOMAIN phase = Attempts /\ DOMAIN ident = Attempts
    /\ stop \in [Attempts -> Seq(Outcomes)]
    /\ DOMAIN stopping = Attempts /\ DOMAIN stopPc = Attempts

(* A start has a name, and a registered machine is found under its name.   *)
Named == \A a \in Attempts : phase[a] # "idle" => ident[a] \in Ids
(* The machine registered under a name has that name.                      *)
Owner ==
    \A id \in Ids : running[id] # NoOne =>
        ident[running[id]] = id /\ phase[running[id]] = "registered"

(* A name that is starting is not running.                                 *)
StartsAlone == \A id \in Ids : starting[id] # NoOne => running[id] = NoOne

(* Only registered machines are stopped.  A stop in progress keeps its     *)
(* machine registered and marked as stopping.                              *)
OnlyRegistered == \A a \in Attempts : stop[a] # << >> => phase[a] = "registered"
(* A stop in progress holds the stopping mark.                             *)
InProgress ==
    \A a \in Attempts : stopPc[a] # "idle" =>
        stopping[a] /\ LastStop(a) = "pending" /\ running[ident[a]] = a

(* What a stop that fails relies on.                                       *)
KInv ==
    Shape /\ Named /\ Owner /\ StartsAlone /\ OnlyRegistered /\ InProgress /\ KeptForRetry

(* A start in progress is found under its name; one that gives up after it *)
(* left the map does so because the manager is closing.                    *)
Pending == {"admitted", "booting", "booted", "aborting"}
(* The machine is in the running map.                                      *)
Here(a) == running[ident[a]] = a
(* The phases of a start, and the map it is in.                            *)
Begun(a) ==
    /\ phase[a] \in Pending \cup {"idle", "discarding", "registered", "ended"}
    /\ phase[a] \in Pending => starting[ident[a]] = a
    /\ phase[a] = "discarding" => closing

(* The instance a start has at each of its phases.                         *)
Instance(a) ==
    /\ inst[a] \in {"none", "live", "dead", "closed"}
    /\ phase[a] \in {"idle", "admitted", "booting"} => inst[a] = "none"
    /\ phase[a] \in {"booted", "registered"} => inst[a] # "none"
    /\ phase[a] = "booted" => inst[a] # "closed"

(* A registered machine is watched.  The watch keeps it in the map as long *)
(* as no stop took over, and an instance that runs or has a slot is there. *)
Watched(a) ==
    /\ phase[a] = "registered" <=> watch[a] # "off"
    /\ watch[a] \in {"returned", "done"} => inst[a] # "live" /\ place[a] = 0
    /\ watch[a] \in {"waiting", "returned"} => Here(a) \/ stopping[a]
    /\ phase[a] = "registered" /\ (inst[a] = "live" \/ place[a] # 0) => Here(a)

(* What a stop has done: Close has given the slot back, a stop that        *)
(* succeeded has ended the instance, and what a stop has closed is left to *)
(* it.                                                                     *)
Ceased(a) ==
    /\ stopPc[a] = "ok" => inst[a] # "live"
    /\ stopPc[a] \in {"ok", "err"} => place[a] = 0
    /\ phase[a] = "registered" /\ inst[a] = "closed" => StopOwnsExit(a)
    /\ \A n \in 1..Len(stop[a]) : stop[a][n] = "ok" => inst[a] # "live"

(* A slot belongs to a start between reserveHost and releaseHost.          *)
Slotted(a) ==
    place[a] # 0 => phase[a] \in {"booting", "booted", "discarding", "registered"}

(* The address of a start or machine in the maps is leased to its name.    *)
Holder(a) == phase[a] \in Pending \/ (phase[a] = "registered" /\ Here(a))
(* The lease is that of the name.                                          *)
Leased(a) ==
    /\ phase[a] = "idle" => addr[a] = 0
    /\ Holder(a) /\ addr[a] # 0 => leases[ident[a]] = addr[a]

(* All that is said of one start and its machine.                          *)
Local(a) == Begun(a) /\ Instance(a) /\ Watched(a) /\ Ceased(a) /\ Slotted(a) /\ Leased(a)

(* A name without machine and start has no lease.                          *)
NamesLeased ==
    \A id \in Ids : leases[id] # 0 => running[id] # NoOne \/ starting[id] # NoOne

(* The maps and fields that MInv is about.                                 *)
Shape3 ==
    /\ DOMAIN leases = Ids /\ closing \in BOOLEAN
    /\ DOMAIN addr = Attempts /\ DOMAIN inst = Attempts /\ place \in [Attempts -> 0..Hosts]
    /\ DOMAIN watch = Attempts /\ DOMAIN exited = Ids
    /\ load \in [1..Hosts -> Nat]

(* What ended as a crash was not closed.                                   *)
Exited == \A id \in Ids : exited[id] = Nobody \/ exited[id].who \in Attempts

(* What is true of every start and machine, and of the names and exits.    *)
MInv == Shape3 /\ (\A a \in Attempts : Local(a)) /\ NamesLeased /\ Exited /\ ExitHonest

-----------------------------------------------------------------------------
(* Facts about the sequence of a machine's stops.                          *)

(* beginMachineStopLocked adds a stop: it is the last one.                 *)
LEMMA Appended ==
    ASSUME NEW s \in Seq(Outcomes), NEW x \in Outcomes
    PROVE  /\ Append(s, x) \in Seq(Outcomes) /\ Append(s, x) # << >>
           /\ Append(s, x)[Len(Append(s, x))] = x
           /\ Len(Append(s, x)) = Len(s) + 1
           /\ \A n \in 1..Len(s) : Append(s, x)[n] = s[n]
OBVIOUS

(* runMachineStop gives the last stop its outcome.                         *)
LEMMA Replaced ==
    ASSUME NEW s \in Seq(Outcomes), s # << >>, NEW x \in Outcomes,
           NEW t, t = [s EXCEPT ![Len(s)] = x]
    PROVE  /\ t \in Seq(Outcomes) /\ t # << >> /\ Len(t) = Len(s) /\ t[Len(t)] = x
           /\ \A n \in 1..Len(s) : n # Len(s) => t[n] = s[n]
<1>1. Len(s) \in 1..Len(s) /\ \A n \in 1..Len(s) : s[n] \in Outcomes
  OBVIOUS
<1>2. /\ t \in Seq(Outcomes) /\ Len(t) = Len(s)
      /\ \A n \in 1..Len(s) : t[n] = IF n = Len(s) THEN x ELSE s[n]
  BY <1>1
<1>3. t # << >>
  <2>1. Len(t) \in Nat \ {0}
    BY <1>1, <1>2
  <2> QED
    BY <2>1, Zenon
<1>4. t[Len(t)] = x /\ \A n \in 1..Len(s) : n # Len(s) => t[n] = s[n]
  BY <1>1, <1>2, Zenon
<1> QED
  BY <1>2, <1>3, <1>4, Zenon

-----------------------------------------------------------------------------
(* KInv, step by step.                                                     *)

(* The manager starts without machines.                                    *)
LEMMA KInit == ASSUME Init PROVE KInv
<1>1. \A a \in Attempts : stop[a] = << >> /\ LastStop(a) = "none"
  BY Zenon DEF Init, LastStop
<1>2. Shape
  BY DEF Init, Shape, Outcomes
<1> QED
  BY <1>1, <1>2, Zenon DEF Init, KInv, Named, Owner, StartsAlone, OnlyRegistered, InProgress,
     KeptForRetry

(* Steps that leave starts, stops and the map of machines alone.           *)
LEMMA KQuiet ==
    ASSUME KInv, UNCHANGED <<running, starting, phase, ident, stop, stopping, stopPc>>
    PROVE  KInv'
BY Zenon DEF KInv, Shape, Named, Owner, StartsAlone, OnlyRegistered, InProgress,
   KeptForRetry, LastStop

(* Steps of a start up to its registration, and of one that is given up.   *)
LEMMA KStart ==
    ASSUME KInv, VMAssumption, NEW a \in Attempts, NEW p,
           phase[a] # "registered", phase' = [phase EXCEPT ![a] = p],
           p \notin {"idle", "registered"},
           UNCHANGED <<running, stop, stopping, stopPc>>,
           \/ ident' = ident /\ phase[a] # "idle"
           \/ \E id \in Ids : ident' = [ident EXCEPT ![a] = id],
           starting' \in [Ids -> Attempts \cup {NoOne}],
           \A id \in Ids : starting'[id] # NoOne => running[id] = NoOne
    PROVE  KInv'
<1>0. /\ DOMAIN phase' = Attempts /\ phase'[a] = p /\ DOMAIN ident' = Attempts
      /\ \A b \in Attempts : b # a => phase'[b] = phase[b] /\ ident'[b] = ident[b]
  BY Zenon DEF KInv, Shape
<1>1. Shape'
  BY <1>0, Zenon DEF KInv, Shape
<1>2. Named'
  BY <1>0, Zenon DEF KInv, Named, Shape
<1>3. \A b \in Attempts : phase[b] = "registered" => b # a
  OBVIOUS
<1>4. Owner'
  <2>1. \A id \in Ids : running[id] # NoOne => running[id] \in Attempts
    BY Zenon DEF KInv, Shape
  <2>2. \A id \in Ids : running[id] # NoOne => running[id] # a
    BY Zenon DEF KInv, Owner
  <2> QED
    BY <1>0, <2>1, <2>2, Zenon DEF KInv, Owner
<1>5. StartsAlone'
  BY Zenon DEF StartsAlone
<1>6. OnlyRegistered'
  BY <1>0, <1>3, Zenon DEF KInv, OnlyRegistered
<1>7. \A b \in Attempts : LastStop(b)' = LastStop(b)
  BY Zenon DEF LastStop
<1>8. \A b \in Attempts : LastStop(b) # "none" => b # a /\ ident'[b] = ident[b]
  BY <1>0, <1>3, Zenon DEF KInv, OnlyRegistered, LastStop
<1>9. InProgress'
  BY <1>7, <1>8 DEF KInv, InProgress
<1>10. KeptForRetry'
  BY <1>7, <1>8, Zenon DEF KInv, KeptForRetry
<1> QED
  BY <1>1, <1>2, <1>4, <1>5, <1>6, <1>9, <1>10, Zenon DEF KInv

(* FinishStart, and Discard: the name is free again.                       *)
LEMMA Forgets ==
    ASSUME KInv, NEW a \in Attempts,
           starting' = IF starting[ident[a]] = a
                       THEN [starting EXCEPT ![ident[a]] = NoOne] ELSE starting
    PROVE  /\ starting' \in [Ids -> Attempts \cup {NoOne}]
           /\ \A id \in Ids : starting'[id] # NoOne => running[id] = NoOne
BY Zenon DEF KInv, Shape, StartsAlone

(* A start that registers its machine finds no other under its name.       *)
LEMMA KRegister ==
    ASSUME KInv, VMAssumption, NEW a \in Attempts, Register(a)
    PROVE  KInv'
<1>0. /\ phase[a] = "booted" /\ starting[ident[a]] = a /\ a # NoOne
      /\ UNCHANGED <<ident, stop, stopping, stopPc>>
  BY Zenon DEF Register, Superseded, VMAssumption
<1>1. ident[a] \in Ids /\ running[ident[a]] = NoOne
  BY <1>0, Zenon DEF KInv, Named, StartsAlone
<1>2. /\ running' \in [Ids -> Attempts \cup {NoOne}] /\ running'[ident[a]] = a
      /\ \A id \in Ids : id # ident[a] => running'[id] = running[id]
      /\ starting' \in [Ids -> Attempts \cup {NoOne}] /\ starting'[ident[a]] = NoOne
      /\ \A id \in Ids : id # ident[a] => starting'[id] = starting[id]
      /\ DOMAIN phase' = Attempts /\ phase'[a] = "registered"
      /\ \A b \in Attempts : b # a => phase'[b] = phase[b]
  BY <1>1, Zenon DEF Register, KInv, Shape
<1>3. Shape'
  BY <1>0, <1>2, Zenon DEF KInv, Shape
<1>4. Named'
  BY <1>0, <1>1, <1>2, Zenon DEF KInv, Named
<1>5. Owner'
  <2>1. \A id \in Ids : running[id] # NoOne => running[id] \in Attempts
    BY Zenon DEF KInv, Shape
  <2> QED
    BY <1>0, <1>1, <1>2, <2>1 DEF KInv, Owner
<1>6. StartsAlone'
  BY <1>1, <1>2, Zenon DEF KInv, StartsAlone
<1>7. OnlyRegistered'
  BY <1>0, <1>2, Zenon DEF KInv, OnlyRegistered
<1>8. \A b \in Attempts : LastStop(b)' = LastStop(b)
  BY <1>0, Zenon DEF LastStop
<1>9. \A b \in Attempts : LastStop(b) # "none" => ident[b] \in Ids
  BY Zenon DEF KInv, OnlyRegistered, LastStop, Named
<1>10. \A b \in Attempts : LastStop(b) # "none" /\ running[ident[b]] = b =>
         running'[ident[b]] = b
  BY <1>1, <1>2, <1>9 DEF VMAssumption
<1>11. InProgress'
  BY <1>0, <1>8, <1>10 DEF KInv, InProgress
<1>12. KeptForRetry'
  BY <1>0, <1>8, <1>10, Zenon DEF KInv, KeptForRetry
<1> QED
  BY <1>3, <1>4, <1>5, <1>6, <1>7, <1>11, <1>12, Zenon DEF KInv

(* What beginMachineStopLocked does to each machine.                       *)
LEMMA Begins ==
    ASSUME Shape, NEW S, BeginStops(S)
    PROVE  /\ stop' \in [Attempts -> Seq(Outcomes)]
           /\ DOMAIN stopping' = Attempts /\ DOMAIN stopPc' = Attempts
           /\ \A a \in Attempts :
                \/ /\ stop'[a] = stop[a] /\ stopPc'[a] = stopPc[a]
                   /\ stopping'[a] <=> stopping[a]
                \/ /\ a \in S /\ LastStop(a) \in {"none", "err"} /\ stopPc'[a] = "lock"
                   /\ stop'[a] = Append(stop[a], "pending") /\ stopping'[a]
<1>1. "pending" \in Outcomes /\ \A a \in Attempts : stop[a] \in Seq(Outcomes)
  BY Zenon DEF Outcomes, Shape
<1>2. \A a \in Attempts : Append(stop[a], "pending") \in Seq(Outcomes)
  BY <1>1, Appended, Zenon
<1> QED
  BY <1>1, <1>2, Zenon DEF BeginStops

(* beginMachineStopLocked: a fresh stop, or the retry of a failed one.     *)
LEMMA KBegin ==
    ASSUME KInv, VMAssumption, NEW S, S \subseteq {running[id] : id \in Registered},
           BeginStops(S), UNCHANGED <<running, starting, phase, ident>>
    PROVE  KInv'
<1>1. /\ stop' \in [Attempts -> Seq(Outcomes)]
      /\ DOMAIN stopping' = Attempts /\ DOMAIN stopPc' = Attempts
      /\ \A a \in Attempts :
           \/ /\ stop'[a] = stop[a] /\ stopPc'[a] = stopPc[a]
              /\ stopping'[a] <=> stopping[a]
           \/ /\ a \in S /\ LastStop(a) \in {"none", "err"} /\ stopPc'[a] = "lock"
              /\ stop'[a] = Append(stop[a], "pending") /\ stopping'[a]
  BY Begins, Zenon DEF KInv
<1>2. \A a \in S : running[ident[a]] = a /\ phase[a] = "registered"
  BY DEF KInv, Owner, Registered
<1>3. \A a \in Attempts :
        \/ /\ stop'[a] = stop[a] /\ LastStop(a)' = LastStop(a) /\ stopPc'[a] = stopPc[a]
           /\ stopping'[a] <=> stopping[a]
        \/ /\ a \in S /\ stopping'[a] /\ LastStop(a)' = "pending"
  <2> TAKE a \in Attempts
  <2>1. CASE stop'[a] = Append(stop[a], "pending") /\ a \in S /\ stopping'[a]
    <3>1. stop'[a] # << >> /\ stop'[a][Len(stop'[a])] = "pending"
      BY <2>1, Appended DEF KInv, Shape, Outcomes
    <3> QED
      BY <2>1, <3>1, Zenon DEF LastStop
  <2>2. CASE stop'[a] = stop[a] /\ stopPc'[a] = stopPc[a] /\ (stopping'[a] <=> stopping[a])
    BY <2>2, Zenon DEF LastStop
  <2> QED
    BY <1>1, <2>1, <2>2, Zenon
<1>4. Shape'
  BY <1>1, Zenon DEF KInv, Shape
<1>5. Named' /\ Owner' /\ StartsAlone'
  BY Zenon DEF KInv, Named, Owner, StartsAlone
<1>6. OnlyRegistered'
  BY <1>1, <1>2, ZenonT(60) DEF KInv, OnlyRegistered
<1>7. InProgress'
  BY <1>2, <1>3, Zenon DEF KInv, InProgress
<1>8. KeptForRetry'
  <2>1. \A a \in Attempts : LastStop(a)' = "err" => LastStop(a) = "err"
    BY <1>3, Zenon
  <2> QED
    BY <2>1, Zenon DEF KInv, KeptForRetry
<1> QED
  BY <1>4, <1>5, <1>6, <1>7, <1>8, Zenon DEF KInv

(* A stop in progress goes on.                                             *)
LEMMA KStopMoves ==
    ASSUME KInv, NEW a \in Attempts, NEW p, stopPc[a] # "idle",
           stopPc' = [stopPc EXCEPT ![a] = p],
           UNCHANGED <<running, starting, phase, ident, stop, stopping>>
    PROVE  KInv'
<1>1. DOMAIN stopPc' = Attempts /\ \A b \in Attempts : b # a => stopPc'[b] = stopPc[b]
  BY Zenon DEF KInv, Shape
<1>2. \A b \in Attempts : stopPc'[b] # "idle" => stopPc[b] # "idle"
  BY <1>1, Zenon
<1>3. Shape'
  BY <1>1, Zenon DEF KInv, Shape
<1> QED
  BY <1>2, <1>3, Zenon DEF KInv, Named, Owner, StartsAlone, OnlyRegistered, InProgress,
     KeptForRetry, LastStop

(* Unregister takes a machine from the map, if it is still there.          *)
LEMMA Unregisters ==
    ASSUME KInv, VMAssumption, NEW a \in Attempts, Unregister(a)
    PROVE  /\ running' \in [Ids -> Attempts \cup {NoOne}]
           /\ \A id \in Ids : running'[id] = NoOne \/ running'[id] = running[id]
           /\ \A b \in Attempts : b # a /\ ident[b] \in Ids /\ running[ident[b]] = b =>
                running'[ident[b]] = b
<1>1. running \in [Ids -> Attempts \cup {NoOne}]
  BY Zenon DEF KInv, Shape
<1> QED
  BY <1>1, Zenon DEF Unregister, VMAssumption

(* What leaves the map of machines was not stopped without success.        *)
LEMMA KUnregister ==
    ASSUME KInv, VMAssumption, NEW a \in Attempts, Unregister(a),
           UNCHANGED <<starting, phase, ident>>,
           stop' \in [Attempts -> Seq(Outcomes)],
           DOMAIN stopping' = Attempts, DOMAIN stopPc' = Attempts,
           stopPc'[a] = "idle", LastStop(a)' # "err",
           stop'[a] # << >> => phase[a] = "registered",
           \A b \in Attempts : b # a => stop'[b] = stop[b] /\ stopPc'[b] = stopPc[b],
           \A b \in Attempts : b # a => (stopping'[b] <=> stopping[b])
    PROVE  KInv'
<1>1. /\ running' \in [Ids -> Attempts \cup {NoOne}]
      /\ \A id \in Ids : running'[id] = NoOne \/ running'[id] = running[id]
      /\ \A b \in Attempts : b # a /\ ident[b] \in Ids /\ running[ident[b]] = b =>
           running'[ident[b]] = b
  BY Unregisters, Zenon
<1>2. \A b \in Attempts : b # a => LastStop(b)' = LastStop(b)
  BY Zenon DEF LastStop
<1>3. \A b \in Attempts : LastStop(b) # "none" => ident[b] \in Ids
  BY Zenon DEF KInv, OnlyRegistered, LastStop, Named
<1>4. Shape' /\ Named'
  BY <1>1, Zenon DEF KInv, Shape, Named
<1>5. Owner' /\ StartsAlone'
  BY <1>1, ZenonT(60) DEF KInv, Owner, StartsAlone
<1>6. OnlyRegistered'
  BY Zenon DEF KInv, OnlyRegistered
<1>7. \A b \in Attempts : stopPc[b] # "idle" => ident[b] \in Ids
  BY <1>3, Zenon DEF KInv, InProgress
<1>8. InProgress'
  <2>1. \A b \in Attempts : stopPc'[b] # "idle" => b # a /\ stopPc[b] # "idle"
    BY Zenon
  <2>2. \A b \in Attempts : stopPc[b] # "idle" =>
          stopping[b] /\ LastStop(b) = "pending" /\ running[ident[b]] = b
    BY Zenon DEF KInv, InProgress
  <2>3. SUFFICES ASSUME NEW b \in Attempts, stopPc'[b] # "idle"
                 PROVE  stopping'[b] /\ LastStop(b)' = "pending" /\ running'[ident'[b]] = b
    BY Zenon DEF InProgress
  <2>4. b # a /\ stopPc[b] # "idle" /\ ident[b] \in Ids
    BY <1>7, <2>1, <2>3, Zenon
  <2>5. stopping'[b] /\ LastStop(b)' = "pending"
    BY <1>2, <2>2, <2>4, ZenonT(60)
  <2>6. running'[ident'[b]] = b
    BY <1>1, <2>2, <2>4, Zenon
  <2> QED
    BY <2>5, <2>6, Zenon
<1>9. KeptForRetry'
  BY <1>1, <1>2, <1>3 DEF KInv, KeptForRetry
<1> QED
  BY <1>4, <1>5, <1>6, <1>8, <1>9, Zenon DEF KInv

(* A stop publishes its outcome: it is that of the last stop.              *)
LEMMA Publishes ==
    ASSUME KInv, NEW a \in Attempts, StopPublish(a)
    PROVE  /\ stop' \in [Attempts -> Seq(Outcomes)]
           /\ stop[a] # << >> /\ stop[a][Len(stop[a])] = "pending"
           /\ stop'[a] # << >> /\ LastStop(a)' = stopPc[a]
           /\ Len(stop'[a]) = Len(stop[a]) /\ stop'[a][Len(stop[a])] = stopPc[a]
           /\ \A n \in 1..Len(stop[a]) : n # Len(stop[a]) => stop'[a][n] = stop[a][n]
           /\ \A b \in Attempts : b # a => stop'[b] = stop[b]
<1>1. stopPc[a] \in Outcomes /\ stopPc[a] # "idle"
  BY Zenon DEF StopPublish, Outcomes
<1>2. stop[a] # << >> /\ stop[a][Len(stop[a])] = "pending"
  BY <1>1, Zenon DEF KInv, InProgress, LastStop
<1>3. stop[a] \in Seq(Outcomes) /\ stop \in [Attempts -> Seq(Outcomes)]
  BY Zenon DEF KInv, Shape
<1>4. /\ stop'[a] = [stop[a] EXCEPT ![Len(stop[a])] = stopPc[a]]
      /\ DOMAIN stop' = Attempts /\ stop' = [stop EXCEPT ![a] = stop'[a]]
      /\ \A b \in Attempts : b # a => stop'[b] = stop[b]
  BY <1>3, Zenon DEF StopPublish
<1>5. /\ stop'[a] \in Seq(Outcomes) /\ stop'[a] # << >> /\ Len(stop'[a]) = Len(stop[a])
      /\ stop'[a][Len(stop'[a])] = stopPc[a]
      /\ \A n \in 1..Len(stop[a]) : n # Len(stop[a]) => stop'[a][n] = stop[a][n]
  BY <1>1, <1>2, <1>3, <1>4, Replaced
<1>6. stop' \in [Attempts -> Seq(Outcomes)]
  BY <1>3, <1>4, <1>5, Zenon
<1>7. LastStop(a)' = stopPc[a]
  BY <1>5, Zenon DEF LastStop
<1> QED
  BY <1>2, <1>4, <1>5, <1>6, <1>7, Zenon

(* runMachineStop publishes the outcome of Close.                          *)
LEMMA KPublish ==
    ASSUME KInv, VMAssumption, NEW a \in Attempts, StopPublish(a)
    PROVE  KInv'
<1>0. /\ stop' \in [Attempts -> Seq(Outcomes)] /\ stop[a] # << >>
      /\ LastStop(a)' = stopPc[a]
      /\ \A b \in Attempts : b # a => stop'[b] = stop[b]
  BY Publishes, Zenon
<1>1. phase[a] = "registered" /\ ident[a] \in Ids
  BY <1>0, Zenon DEF KInv, OnlyRegistered, Named
<1>2. UNCHANGED <<starting, phase, ident>>
  BY Zenon DEF StopPublish, starts
<1>3. /\ DOMAIN stopPc' = Attempts /\ stopPc'[a] = "idle"
      /\ \A b \in Attempts : b # a => stopPc'[b] = stopPc[b]
  BY Zenon DEF StopPublish, KInv, Shape
<1>4. CASE StopSucceeded(a) /\ Unregister(a) /\ UNCHANGED stopping
  <2>1. LastStop(a)' # "err"
    BY <1>0, <1>4, Zenon DEF StopSucceeded
  <2>2. DOMAIN stopping' = Attempts /\ \A b \in Attempts : stopping'[b] <=> stopping[b]
    BY <1>4, Zenon DEF KInv, Shape
  <2> QED
    BY <1>0, <1>1, <1>2, <1>3, <1>4, <2>1, <2>2, KUnregister, Zenon
<1>5. CASE stopping' = [stopping EXCEPT ![a] = FALSE] /\ UNCHANGED running
  <2>1. /\ DOMAIN stopping' = Attempts
        /\ \A b \in Attempts : b # a => (stopping'[b] <=> stopping[b])
    BY <1>5, Zenon DEF KInv, Shape
  <2>2. running[ident[a]] = a
    BY Zenon DEF StopPublish, KInv, InProgress
  <2>3. \A b \in Attempts : b # a => LastStop(b)' = LastStop(b)
    BY <1>0, Zenon DEF LastStop
  <2>4. Shape' /\ Named' /\ Owner' /\ StartsAlone'
    BY <1>0, <1>2, <1>3, <1>5, <2>1, Zenon DEF KInv, Shape, Named, Owner, StartsAlone
  <2>5. OnlyRegistered'
    BY <1>0, <1>1, <1>2, Zenon DEF KInv, OnlyRegistered
  <2>6. InProgress'
    <3>1. \A b \in Attempts : stopPc'[b] # "idle" => b # a /\ stopPc[b] # "idle"
      BY <1>3, Zenon
    <3> QED
      BY <1>2, <1>5, <2>1, <2>3, <3>1, ZenonT(60) DEF KInv, InProgress
  <2>7. KeptForRetry'
    BY <1>2, <1>5, <2>2, <2>3, Zenon DEF KInv, KeptForRetry
  <2> QED
    BY <2>4, <2>5, <2>6, <2>7, Zenon DEF KInv
<1> QED
  BY <1>4, <1>5, Zenon DEF StopPublish

(* watch leaves the exit to a stop in progress and to a stop that failed.  *)
LEMMA KWatch ==
    ASSUME KInv, VMAssumption, NEW a \in Attempts, WatchPublish(a)
    PROVE  KInv'
<1>1. UNCHANGED <<starting, phase, ident, stop, stopping, stopPc>>
  BY Zenon DEF WatchPublish, starts
<1>2. CASE UNCHANGED running
  BY <1>1, <1>2, KQuiet, Zenon
<1>3. CASE ~StopOwnsExit(a) /\ Unregister(a)
  <2>1. stopPc[a] = "idle" /\ LastStop(a)' # "err"
    BY <1>1, <1>3, Zenon DEF StopOwnsExit, KInv, InProgress, LastStop
  <2>2. /\ stop' \in [Attempts -> Seq(Outcomes)]
        /\ DOMAIN stopping' = Attempts /\ DOMAIN stopPc' = Attempts
        /\ stop'[a] # << >> => phase[a] = "registered"
    BY <1>1, Zenon DEF KInv, Shape, OnlyRegistered
  <2> QED
    BY <1>1, <1>3, <2>1, <2>2, KUnregister, Zenon
<1> QED
  BY <1>2, <1>3, Zenon DEF WatchPublish

(* Every step keeps KInv.                                                  *)
LEMMA KNext ==
    ASSUME KInv, VMAssumption, [Next]_vars
    PROVE  KInv'
<1>1. CASE UNCHANGED vars
  BY <1>1, KQuiet, Zenon DEF vars, manager, starts, machine
<1>2. ASSUME NEW a \in Attempts, StartStep(a)
      PROVE  KInv'
  <2>0. starting \in [Ids -> Attempts \cup {NoOne}]
        /\ \A id \in Ids : starting[id] # NoOne => running[id] = NoOne
    BY Zenon DEF KInv, Shape, StartsAlone
  <2>1. ASSUME NEW id \in Ids, NEW network \in Networks, Admit(a, id, network)
        PROVE  KInv'
    <3>1. /\ phase[a] = "idle" /\ phase' = [phase EXCEPT ![a] = "admitted"]
          /\ ident' = [ident EXCEPT ![a] = id]
          /\ UNCHANGED <<running, stop, stopping, stopPc>>
      BY <2>1, Zenon DEF Admit, machine
    <3>2. /\ starting' \in [Ids -> Attempts \cup {NoOne}]
          /\ \A i \in Ids : starting'[i] # NoOne => running[i] = NoOne
      BY <2>0, <2>1, Zenon DEF Admit
    <3>3. phase[a] # "registered" /\ "admitted" \notin {"idle", "registered"}
      BY <3>1, Zenon
    <3> QED
      BY <3>1, <3>2, <3>3, KStart, Zenon
  <2>2. CASE ReserveHost(a) \/ Boot(a) \/ AbortClose(a) \/ DiscardClose(a)
    <3>1. UNCHANGED <<running, starting, ident, stop, stopping, stopPc>>
      BY <2>2, Zenon DEF ReserveHost, Boot, AbortClose, DiscardClose, manager, machine
    <3>2. PICK p \in {"booting", "booted", "aborting", "ended"} :
            phase' = [phase EXCEPT ![a] = p]
      BY <2>2, Zenon DEF ReserveHost, Boot, AbortClose, DiscardClose
    <3>3. phase[a] \notin {"registered", "idle"} /\ p \notin {"idle", "registered"}
      BY <2>2, <3>2, Zenon DEF ReserveHost, Boot, AbortClose, DiscardClose
    <3> QED
      BY <2>0, <3>1, <3>2, <3>3, KStart, Zenon
  <2>3. CASE BootFails(a) \/ AbortFinish(a) \/ Discard(a)
    <3>1. /\ UNCHANGED <<running, ident, stop, stopping, stopPc>>
          /\ starting' = IF starting[ident[a]] = a
                         THEN [starting EXCEPT ![ident[a]] = NoOne] ELSE starting
      BY <2>3, Zenon DEF BootFails, AbortFinish, Discard, FinishStart, machine
    <3>2. PICK p \in {"ended", "discarding"} : phase' = [phase EXCEPT ![a] = p]
      BY <2>3, Zenon DEF BootFails, AbortFinish, Discard, FinishStart
    <3>3. phase[a] \notin {"registered", "idle"} /\ p \notin {"idle", "registered"}
      BY <2>3, <3>2, Zenon DEF BootFails, AbortFinish, Discard
    <3>4. /\ starting' \in [Ids -> Attempts \cup {NoOne}]
          /\ \A id \in Ids : starting'[id] # NoOne => running[id] = NoOne
      BY <3>1, Forgets, Zenon
    <3> QED
      BY <3>1, <3>2, <3>3, <3>4, KStart, Zenon
  <2>4. CASE Register(a)
    BY <2>4, KRegister, Zenon
  <2> QED
    BY <1>2, <2>1, <2>2, <2>3, <2>4, Zenon DEF StartStep
<1>3. ASSUME NEW a \in Attempts, Exit(a) \/ WatchStep(a)
      PROVE  KInv'
  <2>1. CASE Exit(a) \/ WatchReturns(a)
    BY <2>1, KQuiet, Zenon DEF Exit, WatchReturns, manager, starts, machine
  <2>2. CASE WatchPublish(a)
    BY <2>2, KWatch, Zenon
  <2> QED
    BY <1>3, <2>1, <2>2, Zenon DEF WatchStep
<1>4. ASSUME NEW a \in Attempts, StopStep(a)
      PROVE  KInv'
  <2>1. CASE StopLock(a) \/ StopClose(a)
    <3>1. UNCHANGED <<running, starting, phase, ident, stop, stopping>>
      BY <2>1, Zenon DEF StopLock, StopClose, manager, starts
    <3>2. stopPc[a] # "idle" /\ \E p : stopPc' = [stopPc EXCEPT ![a] = p]
      BY <2>1, Zenon DEF StopLock, StopClose
    <3> QED
      BY <3>1, <3>2, KStopMoves, Zenon
  <2>2. CASE StopPublish(a)
    BY <2>2, KPublish, Zenon
  <2> QED
    BY <1>4, <2>1, <2>2, Zenon DEF StopStep
<1>5. ASSUME NEW id \in Ids, ShutdownInstance(id) \/ Reap(id)
      PROVE  KInv'
  <2>1. CASE ShutdownInstance(id)
    <3>1. {running[id]} \subseteq {running[i] : i \in Registered}
      BY <2>1, Zenon DEF ShutdownInstance, Registered
    <3>2. BeginStops({running[id]}) /\ UNCHANGED <<running, starting, phase, ident>>
      BY <2>1, Zenon DEF ShutdownInstance, manager, starts
    <3> QED
      BY <3>1, <3>2, KBegin, Zenon
  <2>2. CASE Reap(id)
    BY <2>2, KQuiet, Zenon DEF Reap, starts, machine
  <2> QED
    BY <1>5, <2>1, <2>2, Zenon
<1>6. ASSUME NEW o \in Ops, OpStep(o)
      PROVE  KInv'
  <2>1. UNCHANGED <<running, starting, phase, ident, stop, stopping, stopPc>>
    BY <1>6, Zenon DEF OpStep, OpLook, OpLock, OpValidate, OpDone, SnapshotBegin,
       SnapshotDone, BalloonBegin, BalloonDone, manager, starts, machine
  <2> QED
    BY <2>1, KQuiet, Zenon
<1>7. ASSUME NEW c \in Callers, ShutdownAll(c) \/ ShutdownReturns(c) \/ ShutdownTimeout(c)
      PROVE  KInv'
  <2>1. CASE ShutdownAll(c)
    <3>1. BeginStops({running[i] : i \in Registered})
          /\ UNCHANGED <<running, starting, phase, ident>>
      BY <2>1, Zenon DEF ShutdownAll, starts
    <3> QED
      BY <3>1, KBegin, Zenon
  <2>2. CASE ShutdownReturns(c) \/ ShutdownTimeout(c)
    BY <2>2, KQuiet, Zenon DEF ShutdownReturns, ShutdownTimeout, manager, starts, machine
  <2> QED
    BY <1>7, <2>1, <2>2, Zenon
<1> QED
  BY <1>1, <1>2, <1>3, <1>4, <1>5, <1>6, <1>7, Zenon DEF Next

(* watch: "A failed Close keeps the machine registered so cleanup can be   *)
(* retried".  A machine whose last stop failed stays in the manager's map, *)
(* for any number of starts, stops, retries and exits.                     *)
THEOREM KeptForRetryCorrect == Spec => []KeptForRetry
<1>1. Init => KInv
  BY KInit, Zenon
<1>2. KInv /\ [Next]_vars => KInv'
  BY KNext, VMAssumption, Zenon
<1>3. KInv => KeptForRetry
  BY Zenon DEF KInv
<1> QED
  BY <1>1, <1>2, <1>3, PTL DEF Spec

-----------------------------------------------------------------------------
(* What a step of one start or machine leaves to the others.               *)

(* A start or machine whose own state and place in the maps stay.          *)
LEMMA LocalFrame ==
    ASSUME NEW b \in Attempts, Local(b),
           phase'[b] = phase[b], ident'[b] = ident[b], inst'[b] = inst[b],
           place'[b] = place[b], watch'[b] = watch[b], stop'[b] = stop[b],
           stopPc'[b] = stopPc[b], stopping'[b] <=> stopping[b], addr'[b] = addr[b],
           closing => closing',
           phase[b] \in Pending => starting'[ident[b]] = b,
           phase[b] = "registered" => (Here(b)' <=> Here(b)),
           Holder(b) => leases'[ident[b]] = leases[ident[b]]
    PROVE  Local(b)'
<1>1. LastStop(b)' = LastStop(b)
  BY Zenon DEF LastStop
<1>2. Begun(b)' /\ Instance(b)' /\ Slotted(b)'
  BY Zenon DEF Local, Begun, Instance, Slotted
<1>3. Watched(b)'
  <2>1. watch[b] # "off" => phase[b] = "registered"
    BY Zenon DEF Local, Watched
  <2> QED
    BY <2>1 DEF Local, Watched
<1>4. Ceased(b)'
  BY <1>1, Zenon DEF Local, Ceased, StopOwnsExit
<1>5. Leased(b)'
  BY Zenon DEF Local, Leased, Holder
<1> QED
  BY <1>2, <1>3, <1>4, <1>5, Zenon DEF Local

(* A step leaves a start and its machine alone.                            *)
Same(b) ==
    /\ phase'[b] = phase[b] /\ ident'[b] = ident[b] /\ inst'[b] = inst[b]
    /\ place'[b] = place[b] /\ watch'[b] = watch[b] /\ stop'[b] = stop[b]
    /\ stopPc'[b] = stopPc[b] /\ (stopping'[b] <=> stopping[b]) /\ addr'[b] = addr[b]

(* A step of a changes the maps only at names that are its own.            *)
Apart(a) ==
    \A id \in Ids :
       \/ /\ starting'[id] = starting[id] /\ running'[id] = running[id]
          /\ leases'[id] = leases[id]
       \/ {starting[id], starting'[id], running[id], running'[id]} \subseteq {NoOne, a}

(* A step of another start or machine keeps Local.                         *)
LEMMA Others ==
    ASSUME KInv, VMAssumption, NEW a \in Attempts, NEW b \in Attempts, b # a,
           Local(b), Same(b), Apart(a), closing => closing'
    PROVE  Local(b)'
<1>1. b # NoOne /\ (phase[b] # "idle" => ident[b] \in Ids)
  BY Zenon DEF VMAssumption, KInv, Named
<1>2. phase[b] \in Pending => starting[ident[b]] = b /\ phase[b] # "idle"
  BY DEF Local, Begun, Pending
<1>3. phase[b] \in Pending =>
        starting'[ident[b]] = b /\ leases'[ident[b]] = leases[ident[b]]
  BY <1>1, <1>2, Zenon DEF Apart
<1>4. phase[b] = "registered" => (Here(b)' <=> Here(b))
  <2>1. phase[b] = "registered" => ident[b] \in Ids
    BY <1>1
  <2>2. ident[b] \in Ids => (running'[ident[b]] = b <=> running[ident[b]] = b)
    BY <1>1, Zenon DEF Apart
  <2>3. ident'[b] = ident[b]
    BY Zenon DEF Same
  <2> QED
    BY <2>1, <2>2, <2>3, Zenon DEF Here
<1>5. Holder(b) => leases'[ident[b]] = leases[ident[b]]
  BY <1>1, <1>3, Zenon DEF Apart, Here, Holder
<1> QED
  BY <1>3, <1>4, <1>5, LocalFrame, Zenon DEF Same

(* Close gives the slot back; when it succeeds the instance does not run.  *)
LEMMA Closes ==
    ASSUME Shape3, NEW a \in Attempts, NEW ok, CloseInstance(a, ok)
    PROVE  /\ DOMAIN inst' = Attempts /\ place' \in [Attempts -> 0..Hosts]
           /\ place'[a] = 0 /\ (ok => inst'[a] # "live")
           /\ inst'[a] = inst[a] \/ (inst[a] = "live" /\ inst'[a] = "closed")
           /\ \A b \in Attempts : b # a => inst'[b] = inst[b] /\ place'[b] = place[b]
<1>1. DOMAIN inst = Attempts /\ place \in [Attempts -> 0..Hosts] /\ 0 \in 0..Hosts
  BY VMAssumption DEF Shape3, VMAssumption
<1>2. PICK now \in {inst[a], IF inst[a] = "live" THEN "closed" ELSE inst[a]} :
        (ok => now # "live") /\ inst' = [inst EXCEPT ![a] = now]
  BY Zenon DEF CloseInstance
<1>3. place' = [place EXCEPT ![a] = 0]
  BY Zenon DEF CloseInstance, ReleaseHost
<1>4. now = inst[a] \/ (inst[a] = "live" /\ now = "closed")
  BY <1>2, Zenon
<1> QED
  BY <1>1, <1>2, <1>3, <1>4, Zenon

-----------------------------------------------------------------------------
(* MInv, step by step.                                                     *)

(* A start in progress owns its name; what is not registered is not        *)
(* stopped and not watched.                                                *)
LEMMA InTheMaps ==
    ASSUME KInv, VMAssumption, NEW a \in Attempts, Local(a)
    PROVE  /\ a # NoOne
           /\ phase[a] \in Pending =>
                ident[a] \in Ids /\ starting[ident[a]] = a /\ running[ident[a]] = NoOne
           /\ phase[a] # "registered" =>
                stopPc[a] = "idle" /\ stop[a] = << >> /\ watch[a] = "off"
<1>1. a # NoOne
  BY Zenon DEF VMAssumption
<1>2. phase[a] \in Pending => phase[a] # "idle" /\ starting[ident[a]] = a
  BY DEF Local, Begun, Pending
<1>3. stopPc[a] # "idle" => stop[a] # << >>
  <2>1. LastStop(a) = "pending" => stop[a] # << >>
    BY DEF LastStop
  <2> QED
    BY <2>1, Zenon DEF KInv, InProgress
<1>4. phase[a] # "registered" => stopPc[a] = "idle" /\ stop[a] = << >> /\ watch[a] = "off"
  BY <1>3, Zenon DEF KInv, OnlyRegistered, Local, Watched
<1> QED
  BY <1>1, <1>2, <1>4, Zenon DEF KInv, Named, StartsAlone

(* Nothing has stopped what is only now registered.                        *)
LEMMA StartCeased ==
    ASSUME NEW a \in Attempts, stopPc'[a] = "idle", stop'[a] = << >>,
           phase'[a] = "registered" => inst'[a] # "closed"
    PROVE  Ceased(a)'
BY DEF Ceased

(* The exits that are kept stay true.                                      *)
LEMMA ExitsStay ==
    ASSUME Exited, ExitHonest,
           \A id \in Ids : exited'[id] \in {exited[id], Nobody},
           \A b \in Attempts : inst[b] = "dead" => inst'[b] = "dead"
    PROVE  Exited' /\ ExitHonest'
<1>1. Nobody.status # "crashed"
  BY DEF Nobody
<1>2. Exited'
  BY Zenon DEF Exited
<1>3. ASSUME NEW id \in Ids, exited'[id].status = "crashed"
      PROVE  inst'[exited'[id].who] = "dead"
  <2>1. exited'[id] = exited[id] /\ exited[id] # Nobody
    BY <1>1, <1>3, Zenon
  <2> QED
    BY <1>3, <2>1, Zenon DEF Exited, ExitHonest
<1> QED
  BY <1>2, <1>3, Zenon DEF ExitHonest

(* What a step of one start or machine has to show.                        *)
LEMMA OneKeeps ==
    ASSUME KInv, MInv, VMAssumption, NEW a \in Attempts,
           \A b \in Attempts : b # a => Same(b),
           Apart(a), closing => closing', Local(a)',
           Shape3', NamesLeased', Exited', ExitHonest'
    PROVE  MInv'
<1>1. \A b \in Attempts : b # a => Local(b)'
  BY Others, Zenon DEF MInv
<1> QED
  BY <1>1, Zenon DEF MInv

(* A start is admitted.                                                    *)
LEMMA MAdmit ==
    ASSUME KInv, MInv, VMAssumption, NEW a \in Attempts, NEW id \in Ids,
           NEW network \in Networks, Admit(a, id, network)
    PROVE  MInv'
<1>0. Local(a) /\ Shape3 /\ NamesLeased /\ Exited /\ ExitHonest
  BY Zenon DEF MInv
<1>1. /\ phase[a] = "idle" /\ running[id] = NoOne /\ starting[id] = NoOne
      /\ UNCHANGED <<running, closing, inst, place, load, watch, stop, stopPc, stopping>>
      /\ phase' = [phase EXCEPT ![a] = "admitted"] /\ ident' = [ident EXCEPT ![a] = id]
      /\ starting' = [starting EXCEPT ![id] = a] /\ exited' = [exited EXCEPT ![id] = Nobody]
  BY Zenon DEF Admit, machine, slots
<1>2. /\ phase'[a] = "admitted" /\ ident'[a] = id
      /\ \A b \in Attempts : b # a => phase'[b] = phase[b] /\ ident'[b] = ident[b]
      /\ starting'[id] = a /\ \A i \in Ids : i # id => starting'[i] = starting[i]
      /\ DOMAIN exited' = Ids /\ \A i \in Ids : exited'[i] \in {exited[i], Nobody}
  BY <1>0, <1>1, Zenon DEF KInv, Shape, Shape3
<1>5. addr[a] = 0
  BY <1>0, <1>1, Zenon DEF Local, Leased
<1>6. /\ DOMAIN leases' = Ids /\ DOMAIN addr' = Attempts
      /\ addr'[a] # 0 => leases'[id] = addr'[a]
      /\ \A i \in Ids : i # id => leases'[i] = leases[i]
      /\ \A b \in Attempts : b # a => addr'[b] = addr[b]
  <2>1. DOMAIN leases = Ids /\ DOMAIN addr = Attempts
    BY <1>0, Zenon DEF Shape3
  <2>2. CASE network
    BY <2>1, <2>2, Zenon DEF Admit
  <2>3. CASE ~network
    BY <1>5, <2>1, <2>3, Zenon DEF Admit
  <2> QED
    BY <2>2, <2>3, Zenon
<1>7. \A b \in Attempts : b # a => Same(b)
  BY <1>1, <1>2, <1>6, Zenon DEF Same
<1>8. Apart(a)
  BY <1>1, <1>2, <1>6, ZenonT(60) DEF Apart
<1>9. Local(a)'
  <2>1. stopPc'[a] = "idle" /\ stop'[a] = << >> /\ watch'[a] = "off"
    BY <1>0, <1>1, InTheMaps
  <2>2. Ceased(a)'
    BY <1>2, <2>1, StartCeased
  <2>3. inst'[a] = "none" /\ place'[a] = 0
    BY <1>0, <1>1 DEF Local, Instance, Slotted
  <2>4. Begun(a)' /\ Instance(a)' /\ Slotted(a)'
    BY <1>2, <2>3 DEF Begun, Instance, Slotted, Pending
  <2>5. Watched(a)'
    BY <1>2, <2>1 DEF Watched
  <2>6. Leased(a)'
    BY <1>2, <1>6 DEF Leased
  <2> QED
    BY <2>2, <2>4, <2>5, <2>6, Zenon DEF Local
<1>10. Shape3'
  BY <1>0, <1>1, <1>2, <1>6, Zenon DEF Shape3
<1>11. NamesLeased'
  <2>1. a # NoOne
    BY Zenon DEF VMAssumption
  <2>2. \A i \in Ids : i # id /\ leases[i] # 0 => running[i] # NoOne \/ starting[i] # NoOne
    BY <1>0, Zenon DEF NamesLeased
  <2>3. running' = running
    BY <1>1, Zenon
  <2> QED
    BY <1>2, <1>6, <2>1, <2>2, <2>3, Zenon DEF NamesLeased
<1>12. Exited' /\ ExitHonest'
  BY <1>0, <1>1, <1>2, ExitsStay, Zenon
<1> QED
  BY <1>1, <1>7, <1>8, <1>9, <1>10, <1>11, <1>12, OneKeeps, Zenon

(* A start that goes on as long as its name is its own: it takes a host,   *)
(* boots, or closes what it booted.                                        *)
LEMMA MGoesOn ==
    ASSUME KInv, MInv, VMAssumption, NEW a \in Attempts, NEW p \in {"booting", "booted", "aborting"},
           phase[a] \in {"admitted", "booting", "booted"}, phase' = [phase EXCEPT ![a] = p],
           UNCHANGED <<manager, ident, addr, machine>>,
           DOMAIN inst' = Attempts, place' \in [Attempts -> 0..Hosts], load' \in [1..Hosts -> Nat],
           \A b \in Attempts : b # a => inst'[b] = inst[b] /\ place'[b] = place[b],
           inst[a] = "dead" => inst'[a] = "dead",
           inst'[a] \in {"none", "live", "dead", "closed"},
           p = "booting" => inst'[a] = "none",
           p = "booted" => inst'[a] \notin {"none", "closed"},
           p = "aborting" => place'[a] = 0
    PROVE  MInv'
<1>0. Local(a) /\ Shape3 /\ NamesLeased /\ Exited /\ ExitHonest
  BY Zenon DEF MInv
<1>1. UNCHANGED <<running, starting, leases, exited, closing, watch, stop, stopPc, stopping>>
  BY Zenon DEF manager, machine
<1>2. phase'[a] = p /\ \A b \in Attempts : b # a => phase'[b] = phase[b]
  BY Zenon DEF KInv, Shape
<1>3. phase[a] \in Pending /\ phase[a] # "registered" /\ p \in Pending
      /\ p \notin {"registered", "idle", "admitted", "discarding"}
  BY DEF Pending
<1>4. /\ ident[a] \in Ids /\ starting[ident[a]] = a /\ running[ident[a]] = NoOne
      /\ stopPc[a] = "idle" /\ stop[a] = << >> /\ watch[a] = "off"
  BY <1>0, <1>3, InTheMaps, Zenon
<1>5. Local(a)'
  <2>1. Ceased(a)'
    BY <1>1, <1>2, <1>3, <1>4, StartCeased, ZenonT(60)
  <2>2. Begun(a)' /\ Instance(a)' /\ Slotted(a)'
    BY <1>1, <1>2, <1>3, <1>4 DEF Begun, Instance, Slotted
  <2>3. Watched(a)'
    BY <1>1, <1>2, <1>3, <1>4 DEF Watched
  <2>4. Leased(a)'
    BY <1>0, <1>1, <1>2, <1>3, Zenon DEF Local, Leased, Holder
  <2> QED
    BY <2>1, <2>2, <2>3, <2>4, Zenon DEF Local
<1>6. \A b \in Attempts : b # a => Same(b)
  BY <1>1, <1>2, Zenon DEF Same
<1>7. Apart(a)
  BY <1>1, Zenon DEF Apart
<1>8. Shape3' /\ NamesLeased'
  BY <1>0, <1>1, Zenon DEF Shape3, NamesLeased
<1>9. Exited' /\ ExitHonest'
  BY <1>0, <1>1, ExitsStay, Zenon
<1> QED
  BY <1>1, <1>5, <1>6, <1>7, <1>8, <1>9, OneKeeps, Zenon

(* A start that gives up leaves the maps.                                  *)
LEMMA MGivesUp ==
    ASSUME KInv, MInv, VMAssumption, NEW a \in Attempts, NEW p \in {"ended", "discarding"},
           phase[a] \in Pending, phase' = [phase EXCEPT ![a] = p],
           starting' = IF starting[ident[a]] = a
                       THEN [starting EXCEPT ![ident[a]] = NoOne] ELSE starting,
           leases' = [leases EXCEPT ![ident[a]] = 0],
           UNCHANGED <<running, exited, closing, ident, addr, machine, inst>>,
           place' \in [Attempts -> 0..Hosts], load' \in [1..Hosts -> Nat],
           \A b \in Attempts : b # a => place'[b] = place[b],
           p = "ended" => place'[a] = 0,
           p = "discarding" => closing
    PROVE  MInv'
<1>0. Local(a) /\ Shape3 /\ NamesLeased /\ Exited /\ ExitHonest
  BY Zenon DEF MInv
<1>1. UNCHANGED <<watch, stop, stopPc, stopping>>
  BY Zenon DEF machine
<1>2. phase'[a] = p /\ \A b \in Attempts : b # a => phase'[b] = phase[b]
  BY Zenon DEF KInv, Shape
<1>3. phase[a] # "registered" /\ p \notin Pending
      /\ p \notin {"registered", "idle", "admitted", "booting", "booted"}
  BY DEF Pending
<1>4. /\ ident[a] \in Ids /\ starting[ident[a]] = a /\ running[ident[a]] = NoOne
      /\ stopPc[a] = "idle" /\ stop[a] = << >> /\ watch[a] = "off"
  BY <1>0, <1>3, InTheMaps, Zenon
<1>5. /\ starting'[ident[a]] = NoOne /\ leases'[ident[a]] = 0 /\ DOMAIN leases' = Ids
      /\ \A id \in Ids : id # ident[a] => starting'[id] = starting[id] /\ leases'[id] = leases[id]
  <2>1. DOMAIN leases = Ids /\ 0 \in Nat /\ starting \in [Ids -> Attempts \cup {NoOne}]
    BY <1>0 DEF Shape3, KInv, Shape
  <2> QED
    BY <1>4, <2>1, Zenon
<1>6. Local(a)'
  <2>1. Ceased(a)'
    BY <1>1, <1>2, <1>3, <1>4, StartCeased, ZenonT(60)
  <2>2. Begun(a)' /\ Instance(a)' /\ Slotted(a)'
    BY <1>0, <1>2, <1>3, SMTT(30) DEF Local, Begun, Instance, Slotted
  <2>3. Watched(a)'
    BY <1>1, <1>2, <1>3, <1>4 DEF Watched
  <2>4. Leased(a)'
    BY <1>2, <1>3, Zenon DEF Leased, Holder
  <2> QED
    BY <2>1, <2>2, <2>3, <2>4, ZenonT(60) DEF Local
<1>7. \A b \in Attempts : b # a => Same(b)
  BY <1>1, <1>2, Zenon DEF Same
<1>8. Apart(a)
  <2>1. ASSUME NEW id \in Ids, id # ident[a]
        PROVE  starting'[id] = starting[id] /\ running'[id] = running[id] /\ leases'[id] = leases[id]
    BY <1>5, <2>1, Zenon
  <2>2. {starting[ident[a]], starting'[ident[a]], running[ident[a]], running'[ident[a]]}
          \subseteq {NoOne, a}
    BY <1>4, <1>5, Zenon
  <2> QED
    BY <2>1, <2>2, Zenon DEF Apart
<1>9. Shape3' /\ NamesLeased'
  BY <1>0, <1>1, <1>5, ZenonT(60) DEF Shape3, NamesLeased
<1>10. Exited' /\ ExitHonest'
  BY <1>0, ExitsStay, Zenon
<1> QED
  BY <1>6, <1>7, <1>8, <1>9, <1>10, OneKeeps, Zenon

(* A start registers its machine.                                          *)
LEMMA MRegister ==
    ASSUME KInv, MInv, VMAssumption, NEW a \in Attempts, Register(a)
    PROVE  MInv'
<1>0. Local(a) /\ Shape3 /\ NamesLeased /\ Exited /\ ExitHonest
  BY Zenon DEF MInv
<1>1. /\ phase[a] = "booted" /\ phase' = [phase EXCEPT ![a] = "registered"]
      /\ starting' = [starting EXCEPT ![ident[a]] = NoOne]
      /\ running' = [running EXCEPT ![ident[a]] = a]
      /\ watch' = [watch EXCEPT ![a] = "waiting"]
      /\ UNCHANGED <<leases, exited, closing, ident, addr, stop, stopping, stopPc, inst, place, load>>
  BY Zenon DEF Register, slots
<1>2. phase[a] \in Pending /\ phase[a] # "registered"
  BY <1>1 DEF Pending
<1>3. /\ a # NoOne
      /\ ident[a] \in Ids /\ starting[ident[a]] = a /\ running[ident[a]] = NoOne
      /\ stopPc[a] = "idle" /\ stop[a] = << >>
  BY <1>0, <1>2, InTheMaps, Zenon
<1>4. /\ phase'[a] = "registered" /\ \A b \in Attempts : b # a => phase'[b] = phase[b]
      /\ starting'[ident[a]] = NoOne /\ running'[ident[a]] = a
      /\ \A id \in Ids : id # ident[a] => starting'[id] = starting[id] /\ running'[id] = running[id]
      /\ DOMAIN watch' = Attempts /\ watch'[a] = "waiting"
      /\ \A b \in Attempts : b # a => watch'[b] = watch[b]
  BY <1>0, <1>1, <1>3, ZenonT(60) DEF KInv, Shape, Shape3
<1>5. inst[a] \notin {"none", "closed"}
  BY <1>0, <1>1 DEF Local, Instance
<1>6. Local(a)'
  <2>1. Ceased(a)'
    BY <1>1, <1>3, <1>5, StartCeased
  <2>2. Begun(a)' /\ Instance(a)' /\ Slotted(a)'
    BY <1>0, <1>1, <1>4, <1>5, SMTT(30) DEF Local, Begun, Instance, Slotted, Pending
  <2>3. Watched(a)'
    BY <1>1, <1>4 DEF Watched, Here
  <2>4. Leased(a)'
    BY <1>0, <1>1, <1>2, <1>4 DEF Local, Leased, Holder
  <2> QED
    BY <2>1, <2>2, <2>3, <2>4, ZenonT(60) DEF Local
<1>7. \A b \in Attempts : b # a => Same(b)
  BY <1>1, <1>4, Zenon DEF Same
<1>8. Apart(a)
  <2>1. ASSUME NEW id \in Ids, id # ident[a]
        PROVE  starting'[id] = starting[id] /\ running'[id] = running[id] /\ leases'[id] = leases[id]
    BY <1>1, <1>4, <2>1, Zenon
  <2>2. {starting[ident[a]], starting'[ident[a]], running[ident[a]], running'[ident[a]]}
          \subseteq {NoOne, a}
    BY <1>3, <1>4, Zenon
  <2> QED
    BY <2>1, <2>2, Zenon DEF Apart
<1>9. Shape3'
  BY <1>0, <1>1, <1>4, Zenon DEF Shape3
<1>10. NamesLeased'
  <2>1. \A id \in Ids : id # ident[a] => running'[id] = running[id] /\ starting'[id] = starting[id]
    BY <1>4, Zenon
  <2>2. UNCHANGED leases /\ running'[ident[a]] # NoOne
    BY <1>1, <1>3, <1>4, Zenon
  <2> QED
    BY <1>0, <2>1, <2>2, Zenon DEF NamesLeased
<1>11. Exited' /\ ExitHonest'
  BY <1>0, <1>1, ExitsStay, Zenon
<1> QED
  BY <1>1, <1>6, <1>7, <1>8, <1>9, <1>10, <1>11, OneKeeps, Zenon

(* releaseHost keeps the types.                                            *)
LEMMA Releases ==
    ASSUME Shape3, VMAssumption, NEW a \in Attempts, ReleaseHost(a)
    PROVE  /\ place' \in [Attempts -> 0..Hosts] /\ load' \in [1..Hosts -> Nat]
           /\ place'[a] = 0 /\ \A b \in Attempts : b # a => place'[b] = place[b]
<1>1. /\ load \in [1..Hosts -> Nat] /\ place \in [Attempts -> 0..Hosts] /\ place[a] \in 0..Hosts
      /\ 0 \in 0..Hosts /\ Hosts \in Nat
  BY DEF Shape3, VMAssumption
<1>2. place' = [place EXCEPT ![a] = 0]
  BY Zenon DEF ReleaseHost
<1>3. load' \in [1..Hosts -> Nat]
  <2>1. CASE place[a] = 0 \/ load[place[a]] = 0
    BY <1>1, <2>1, Zenon DEF ReleaseHost
  <2>2. CASE ~(place[a] = 0 \/ load[place[a]] = 0)
    <3>1. place[a] \in 1..Hosts
      BY <1>1, <2>2
    <3>2. load[place[a]] - 1 \in Nat
      BY <1>1, <2>2, <3>1
    <3>3. load' = [load EXCEPT ![place[a]] = load[place[a]] - 1]
      BY <2>2, Zenon DEF ReleaseHost
    <3> QED
      BY <1>1, <3>1, <3>2, <3>3, Zenon
  <2> QED
    BY <2>1, <2>2, Zenon
<1> QED
  BY <1>1, <1>2, <1>3, Zenon

(* A discarded instance is closed and its start ends.                      *)
LEMMA MDiscardClose ==
    ASSUME KInv, MInv, VMAssumption, NEW a \in Attempts, DiscardClose(a)
    PROVE  MInv'
<1>0. Local(a) /\ Shape3 /\ NamesLeased /\ Exited /\ ExitHonest
  BY Zenon DEF MInv
<1>1. /\ phase[a] = "discarding" /\ phase' = [phase EXCEPT ![a] = "ended"]
      /\ UNCHANGED <<running, starting, leases, exited, closing, ident, addr, watch, stop, stopPc, stopping>>
  BY Zenon DEF DiscardClose, manager, machine
<1>2. PICK ok \in BOOLEAN : CloseInstance(a, ok)
  BY Zenon DEF DiscardClose
<1>3. /\ DOMAIN inst' = Attempts /\ place'[a] = 0
      /\ inst'[a] = inst[a] \/ (inst[a] = "live" /\ inst'[a] = "closed")
      /\ \A b \in Attempts : b # a => inst'[b] = inst[b] /\ place'[b] = place[b]
  BY <1>0, <1>2, Closes, Zenon
<1>4. place' \in [Attempts -> 0..Hosts] /\ load' \in [1..Hosts -> Nat]
  BY <1>0, <1>2, Releases, Zenon DEF CloseInstance
<1>5. phase'[a] = "ended" /\ \A b \in Attempts : b # a => phase'[b] = phase[b]
  BY <1>1, Zenon DEF KInv, Shape
<1>6. stopPc[a] = "idle" /\ stop[a] = << >> /\ watch[a] = "off"
  BY <1>0, <1>1, InTheMaps, SMTT(30)
<1>7. Local(a)'
  <2>1. Ceased(a)'
    BY <1>1, <1>5, <1>6, StartCeased, SMTT(30)
  <2>2. Begun(a)' /\ Instance(a)' /\ Slotted(a)'
    BY <1>0, <1>3, <1>5, SMTT(30) DEF Local, Begun, Instance, Slotted, Pending
  <2>3. Watched(a)'
    BY <1>1, <1>5, <1>6 DEF Watched
  <2>4. Leased(a)'
    BY <1>5 DEF Leased, Holder, Pending
  <2> QED
    BY <2>1, <2>2, <2>3, <2>4, Zenon DEF Local
<1>8. \A b \in Attempts : b # a => Same(b)
  BY <1>1, <1>3, <1>5, Zenon DEF Same
<1>9. Apart(a)
  BY <1>1, Zenon DEF Apart
<1>10. Shape3' /\ NamesLeased'
  BY <1>0, <1>1, <1>3, <1>4, Zenon DEF Shape3, NamesLeased
<1>11. \A b \in Attempts : inst[b] = "dead" => inst'[b] = "dead"
  BY <1>3
<1>12. Exited' /\ ExitHonest'
  BY <1>0, <1>1, <1>11, ExitsStay, ZenonT(60)
<1> QED
  BY <1>1, <1>7, <1>8, <1>9, <1>10, <1>12, OneKeeps, Zenon

(* Every step of a start.                                                  *)
LEMMA MStart ==
    ASSUME KInv, MInv, VMAssumption, NEW a \in Attempts, StartStep(a)
    PROVE  MInv'
<1>0. Local(a) /\ Shape3
  BY Zenon DEF MInv
<1>00. DOMAIN inst = Attempts /\ place \in [Attempts -> 0..Hosts] /\ load \in [1..Hosts -> Nat]
  BY <1>0, Zenon DEF Shape3
<1>1. CASE ReserveHost(a)
  <2>1. PICK h \in 1..Hosts : load' = [load EXCEPT ![h] = @ + 1] /\ place' = [place EXCEPT ![a] = h]
    BY <1>1, Zenon DEF ReserveHost
  <2>2. load[h] + 1 \in Nat /\ h \in 0..Hosts
    BY <1>00 DEF VMAssumption
  <2>3. /\ place' \in [Attempts -> 0..Hosts] /\ load' \in [1..Hosts -> Nat]
        /\ \A b \in Attempts : b # a => place'[b] = place[b]
    BY <1>00, <2>1, <2>2, Zenon
  <2>4. inst[a] = "none"
    BY <1>0, <1>1 DEF Local, Instance, ReserveHost
  <2>5. /\ phase[a] = "admitted" /\ phase' = [phase EXCEPT ![a] = "booting"]
        /\ UNCHANGED <<manager, ident, addr, machine, inst>>
    BY <1>1, Zenon DEF ReserveHost
  <2> QED
    BY <1>00, <2>3, <2>4, <2>5, MGoesOn, ZenonT(60)
<1>2. CASE Boot(a)
  <2>1. /\ phase[a] = "booting" /\ phase' = [phase EXCEPT ![a] = "booted"]
        /\ UNCHANGED <<manager, ident, addr, machine, place, load>>
        /\ inst' = [inst EXCEPT ![a] = "live"]
    BY <1>2, Zenon DEF Boot, slots
  <2>2. DOMAIN inst' = Attempts /\ inst'[a] = "live" /\ \A b \in Attempts : b # a => inst'[b] = inst[b]
    BY <1>00, <2>1, Zenon
  <2>3. inst[a] = "none"
    BY <1>0, <2>1 DEF Local, Instance
  <2> QED
    BY <1>00, <2>1, <2>2, <2>3, MGoesOn, ZenonT(60)
<1>3. CASE AbortClose(a)
  <2>1. /\ phase[a] = "booted" /\ phase' = [phase EXCEPT ![a] = "aborting"]
        /\ UNCHANGED <<manager, ident, addr, machine>>
    BY <1>3, Zenon DEF AbortClose
  <2>2. PICK ok \in BOOLEAN : CloseInstance(a, ok)
    BY <1>3, Zenon DEF AbortClose
  <2>3. /\ DOMAIN inst' = Attempts /\ place'[a] = 0
        /\ inst'[a] = inst[a] \/ (inst[a] = "live" /\ inst'[a] = "closed")
        /\ \A b \in Attempts : b # a => inst'[b] = inst[b] /\ place'[b] = place[b]
    BY <1>0, <2>2, Closes, Zenon
  <2>4. place' \in [Attempts -> 0..Hosts] /\ load' \in [1..Hosts -> Nat]
    BY <1>0, <2>2, Releases, Zenon DEF CloseInstance
  <2>5. inst'[a] \in {"none", "live", "dead", "closed"}
    BY <1>0, <2>3, SMTT(30) DEF Local, Instance
  <2> QED
    BY <2>1, <2>3, <2>4, <2>5, MGoesOn, ZenonT(60)
<1>4. CASE BootFails(a)
  <2>1. /\ phase[a] \in Pending
        /\ UNCHANGED <<running, exited, closing, ident, addr, machine, inst>>
    BY <1>4 DEF BootFails, Pending
  <2>2. FinishStart(a) /\ ReleaseHost(a)
    BY <1>4, Zenon DEF BootFails
  <2> QED
    BY <1>0, <2>1, <2>2, Releases, MGivesUp, ZenonT(60) DEF FinishStart
<1>5. CASE AbortFinish(a)
  <2>1. /\ phase[a] \in Pending /\ phase[a] = "aborting"
        /\ UNCHANGED <<running, exited, closing, ident, addr, machine, inst, place, load>>
    BY <1>5 DEF AbortFinish, Pending, slots
  <2>2. place[a] = 0
    BY <1>0, <2>1 DEF Local, Slotted
  <2>3. FinishStart(a)
    BY <1>5, ZenonT(60) DEF AbortFinish
  <2> QED
    BY <1>00, <2>1, <2>2, <2>3, MGivesUp, ZenonT(60) DEF FinishStart
<1>6. CASE Discard(a)
  <2>1. /\ phase[a] \in Pending /\ phase[a] = "booted"
        /\ UNCHANGED <<running, exited, closing, ident, addr, machine, inst, place, load>>
    BY <1>6 DEF Discard, Pending, slots
  <2>2. closing
    BY <1>0, <1>6, <2>1, Zenon DEF Discard, Superseded, Local, Begun
  <2> QED
    BY <1>00, <1>6, <2>1, <2>2, MGivesUp, ZenonT(60) DEF Discard
<1> QED
  BY <1>1, <1>2, <1>3, <1>4, <1>5, <1>6, MAdmit, MRegister, MDiscardClose, Zenon DEF StartStep

(* A machine ends by itself.                                               *)
LEMMA MExit ==
    ASSUME KInv, MInv, VMAssumption, NEW a \in Attempts, Exit(a)
    PROVE  MInv'
<1>0. Local(a) /\ Shape3 /\ NamesLeased /\ Exited /\ ExitHonest
  BY Zenon DEF MInv
<1>1. /\ inst[a] = "live" /\ inst' = [inst EXCEPT ![a] = "dead"]
      /\ UNCHANGED <<running, starting, leases, exited, closing, phase, ident, addr, place, load,
                     watch, stop, stopPc, stopping>>
  BY Zenon DEF Exit, manager, starts, machine, slots
<1>2. DOMAIN inst' = Attempts /\ inst'[a] = "dead" /\ \A b \in Attempts : b # a => inst'[b] = inst[b]
  BY <1>0, <1>1, Zenon DEF Shape3
<1>3. Local(a)'
  <2>1. Begun(a)' /\ Slotted(a)' /\ Leased(a)'
    BY <1>0, <1>1, Zenon DEF Local, Begun, Slotted, Leased, Holder, Here
  <2>2. Instance(a)'
    BY <1>0, <1>1, <1>2, SMTT(30) DEF Local, Instance
  <2>3. Watched(a)'
    BY <1>0, <1>1, <1>2, SMTT(30) DEF Local, Watched, Here
  <2>4. Ceased(a)'
    BY <1>0, <1>1, <1>2 DEF Local, Ceased
  <2> QED
    BY <2>1, <2>2, <2>3, <2>4, Zenon DEF Local
<1>4. \A b \in Attempts : b # a => Same(b)
  BY <1>1, <1>2, Zenon DEF Same
<1>5. Apart(a)
  BY <1>1, Zenon DEF Apart
<1>6. Shape3' /\ NamesLeased'
  BY <1>0, <1>1, <1>2, Zenon DEF Shape3, NamesLeased
<1>7. \A b \in Attempts : inst[b] = "dead" => inst'[b] = "dead"
  BY <1>2, Zenon
<1>8. Exited' /\ ExitHonest'
  BY <1>0, <1>1, <1>7, ExitsStay, Zenon
<1> QED
  BY <1>1, <1>3, <1>4, <1>5, <1>6, <1>8, OneKeeps, Zenon

(* A stop takes the lock, or Close returns.                                *)
LEMMA MStop ==
    ASSUME KInv, MInv, VMAssumption, NEW a \in Attempts, StopLock(a) \/ StopClose(a)
    PROVE  MInv'
<1>0. Local(a) /\ Shape3 /\ NamesLeased /\ Exited /\ ExitHonest
  BY Zenon DEF MInv
<1>1. /\ stopPc[a] # "idle"
      /\ UNCHANGED <<running, starting, leases, exited, closing, phase, ident, addr,
                     watch, stop, stopping>>
  BY DEF StopLock, StopClose, manager, starts
<1>2. stopping[a] /\ Here(a) /\ LastStop(a) = "pending" /\ phase[a] = "registered"
  <2>1. stopping[a] /\ Here(a) /\ LastStop(a) = "pending"
    BY <1>1, Zenon DEF KInv, InProgress, Here
  <2>2. phase[a] = "registered"
    BY <1>0, <1>1, InTheMaps, Zenon
  <2> QED
    BY <2>1, <2>2, Zenon
<1>3. /\ DOMAIN inst' = Attempts /\ place' \in [Attempts -> 0..Hosts] /\ load' \in [1..Hosts -> Nat]
      /\ \A b \in Attempts : b # a => inst'[b] = inst[b] /\ place'[b] = place[b] /\ stopPc'[b] = stopPc[b]
      /\ place'[a] # 0 => place'[a] = place[a]
      /\ inst'[a] = inst[a] \/ (inst[a] = "live" /\ inst'[a] = "closed")
      /\ stopPc'[a] = "ok" => inst'[a] # "live"
      /\ stopPc'[a] \in {"ok", "err"} => place'[a] = 0
  <2>0. DOMAIN stopPc = Attempts /\ DOMAIN inst = Attempts
        /\ place \in [Attempts -> 0..Hosts] /\ load \in [1..Hosts -> Nat]
    BY <1>0, Zenon DEF KInv, Shape, Shape3
  <2>1. CASE StopLock(a)
    <3>1. UNCHANGED <<inst, place, load>> /\ stopPc' = [stopPc EXCEPT ![a] = "close"]
      BY <2>1, Zenon DEF StopLock, slots
    <3>2. stopPc'[a] = "close"
      BY <2>0, <3>1, Zenon
    <3> QED
      BY <2>0, <3>1, <3>2
  <2>2. CASE StopClose(a)
    <3>1. PICK ok \in BOOLEAN : /\ CloseInstance(a, ok)
                                /\ stopPc' = [stopPc EXCEPT ![a] = IF ok THEN "ok" ELSE "err"]
      BY <2>2, Zenon DEF StopClose
    <3>2. /\ DOMAIN inst' = Attempts /\ place' \in [Attempts -> 0..Hosts]
          /\ place'[a] = 0 /\ (ok => inst'[a] # "live")
          /\ inst'[a] = inst[a] \/ (inst[a] = "live" /\ inst'[a] = "closed")
          /\ \A b \in Attempts : b # a => inst'[b] = inst[b] /\ place'[b] = place[b]
      BY <1>0, <3>1, Closes, Zenon
    <3>3. load' \in [1..Hosts -> Nat]
      BY <1>0, <3>1, Releases, Zenon DEF CloseInstance
    <3>4. stopPc'[a] = "ok" => ok
      BY <2>0, <3>1
    <3>5. \A b \in Attempts : b # a => stopPc'[b] = stopPc[b]
      BY <2>0, <3>1, Zenon
    <3> QED
      BY <3>2, <3>3, <3>4, <3>5, Zenon
  <2> QED
    BY <2>1, <2>2, Zenon
<1>4. Local(a)'
  <2>1. Begun(a)' /\ Slotted(a)' /\ Leased(a)'
    BY <1>0, <1>1, <1>3, ZenonT(60) DEF Local, Begun, Slotted, Leased, Holder, Here
  <2>2. Instance(a)'
    BY <1>0, <1>1, <1>2, <1>3, SMTT(30) DEF Local, Instance
  <2>3. Watched(a)'
    <3>1. watch[a] \in {"returned", "done"} => inst[a] # "live" /\ place[a] = 0
      BY <1>0, Zenon DEF Local, Watched
    <3>2. watch[a] # "off"
      BY <1>0, <1>2, Zenon DEF Local, Watched
    <3>3. Here(a)'
      BY <1>1, <1>2, Zenon DEF Here
    <3> QED
      BY <1>1, <1>2, <1>3, <3>1, <3>2, <3>3 DEF Watched
  <2>4. Ceased(a)'
    <3>1. \A n \in 1..Len(stop[a]) : stop[a][n] = "ok" => inst[a] # "live"
      BY <1>0, Zenon DEF Local, Ceased
    <3>2. StopOwnsExit(a)'
      BY <1>1, <1>2, Zenon DEF StopOwnsExit
    <3> QED
      BY <1>1, <1>3, <3>1, <3>2 DEF Ceased
  <2> QED
    BY <2>1, <2>2, <2>3, <2>4, Zenon DEF Local
<1>5. \A b \in Attempts : b # a => Same(b)
  BY <1>1, <1>3, Zenon DEF Same
<1>6. Apart(a)
  BY <1>1, ZenonT(60) DEF Apart
<1>7. Shape3' /\ NamesLeased'
  BY <1>0, <1>1, <1>3, Zenon DEF Shape3, NamesLeased
<1>8. \A b \in Attempts : inst[b] = "dead" => inst'[b] = "dead"
  BY <1>3
<1>9. Exited' /\ ExitHonest'
  BY <1>0, <1>1, <1>8, ExitsStay, Zenon
<1> QED
  BY <1>1, <1>4, <1>5, <1>6, <1>7, <1>9, OneKeeps, ZenonT(60)

(* recordExitLocked adds one exit, and may drop one.                       *)
LEMMA Records ==
    ASSUME Shape3, Exited, ExitHonest, NEW a \in Attempts, ident[a] \in Ids,
           NEW status \in {"stopped", "crashed"}, RecordExit(a, status),
           UNCHANGED inst, status = "crashed" => inst[a] = "dead"
    PROVE  DOMAIN exited' = Ids /\ Exited' /\ ExitHonest'
<1> DEFINE new == [who |-> a, status |-> status]
           all == [exited EXCEPT ![ident[a]] = new]
<1>1. DOMAIN all = Ids /\ \A id \in Ids : all[id] \in {exited[id], new}
  BY Zenon DEF Shape3
<1>2. exited' = all \/ \E id \in Ids : exited' = [all EXCEPT ![id] = Nobody]
  <2>1. \/ exited' = all
        \/ \E id \in Ids : all[id] # Nobody /\ exited' = [all EXCEPT ![id] = Nobody]
    BY Zenon DEF RecordExit
  <2> QED
    BY <2>1, Zenon
<1>3. DOMAIN exited' = Ids /\ \A id \in Ids : exited'[id] \in {exited[id], Nobody, new}
  <2> HIDE DEF all
  <2> QED
    BY <1>1, <1>2, ZenonT(60)
<1>4. new.who = a /\ new.status = status /\ Nobody.status # "crashed"
  BY DEF Nobody
<1>5. Exited'
  BY <1>3, <1>4, Zenon DEF Exited
<1>6. ASSUME NEW id \in Ids, exited'[id].status = "crashed"
      PROVE  inst'[exited'[id].who] = "dead"
  <2> HIDE DEF new
  <2>1. CASE exited'[id] = exited[id]
    BY <1>6, <2>1, Zenon DEF ExitHonest
  <2>2. CASE exited'[id] = new
    BY <1>4, <1>6, <2>2, Zenon
  <2> QED
    BY <1>3, <1>4, <1>6, <2>1, <2>2, Zenon
<1> QED
  BY <1>3, <1>5, <1>6, Zenon DEF ExitHonest

(* A machine that is there leaves the maps with its lease.                 *)
LEMMA Leaves ==
    ASSUME KInv, MInv, VMAssumption, NEW a \in Attempts, phase[a] = "registered", Here(a),
           Unregister(a), UNCHANGED starting
    PROVE  /\ Apart(a) /\ NamesLeased' /\ DOMAIN leases' = Ids
           /\ ident[a] \in Ids /\ running'[ident[a]] = NoOne
<1>1. ident[a] \in Ids /\ a # NoOne
  BY DEF KInv, Named, VMAssumption
<1>2. starting[ident[a]] = NoOne
  BY <1>1, Zenon DEF KInv, StartsAlone, Here
<1>3. /\ running \in [Ids -> Attempts \cup {NoOne}] /\ DOMAIN leases = Ids /\ 0 \in Nat
      /\ NamesLeased
  BY DEF KInv, Shape, MInv, Shape3
<1>4. /\ running' = [running EXCEPT ![ident[a]] = NoOne]
      /\ leases' = [leases EXCEPT ![ident[a]] = 0]
  BY Zenon DEF Unregister, Here
<1>5. /\ running'[ident[a]] = NoOne /\ leases'[ident[a]] = 0 /\ DOMAIN leases' = Ids
      /\ \A id \in Ids : id # ident[a] => running'[id] = running[id] /\ leases'[id] = leases[id]
  BY <1>1, <1>3, <1>4, Zenon
<1>6. Apart(a)
  BY <1>1, <1>2, <1>5, Zenon DEF Apart, Here
<1>7. NamesLeased'
  BY <1>3, <1>5, Zenon DEF NamesLeased
<1> QED
  BY <1>1, <1>5, <1>6, <1>7, ZenonT(60)

(* A stop publishes its outcome.                                           *)
LEMMA MPublish ==
    ASSUME KInv, MInv, VMAssumption, NEW a \in Attempts, StopPublish(a)
    PROVE  MInv'
<1>0. Local(a) /\ Shape3 /\ NamesLeased /\ Exited /\ ExitHonest
  BY Zenon DEF MInv
<1>1. /\ stopPc[a] \in {"ok", "err"} /\ stopPc[a] # "idle"
      /\ stopPc' = [stopPc EXCEPT ![a] = "idle"]
      /\ UNCHANGED <<starting, closing, phase, ident, addr, watch, inst, place, load>>
  BY DEF StopPublish, starts, slots
<1>2. stopping[a] /\ Here(a) /\ phase[a] = "registered"
  BY <1>0, <1>1, InTheMaps, Zenon DEF KInv, InProgress, Here
<1>3. place[a] = 0 /\ (stopPc[a] = "ok" => inst[a] # "live")
  BY <1>0, <1>1, Zenon DEF Local, Ceased
<1>4. stopPc'[a] = "idle" /\ \A b \in Attempts : b # a => stopPc'[b] = stopPc[b]
  BY <1>1, Zenon DEF KInv, Shape
<1>5. /\ LastStop(a)' = stopPc[a]
      /\ \A b \in Attempts : b # a => stop'[b] = stop[b]
      /\ \A n \in 1..Len(stop'[a]) : stop'[a][n] = "ok" => inst[a] # "live"
  <2>1. /\ LastStop(a)' = stopPc[a]
        /\ Len(stop'[a]) = Len(stop[a]) /\ stop'[a][Len(stop[a])] = stopPc[a]
        /\ \A n \in 1..Len(stop[a]) : n # Len(stop[a]) => stop'[a][n] = stop[a][n]
        /\ \A b \in Attempts : b # a => stop'[b] = stop[b]
    BY Publishes, Zenon
  <2>2. \A n \in 1..Len(stop[a]) : stop[a][n] = "ok" => inst[a] # "live"
    BY <1>0, Zenon DEF Local, Ceased
  <2> QED
    BY <1>3, <2>1, <2>2, Zenon
<1>6. Begun(a)' /\ Instance(a)' /\ Slotted(a)'
  BY <1>0, <1>1, ZenonT(60) DEF Local, Begun, Instance, Slotted
<1>7. CASE StopSucceeded(a) /\ Unregister(a) /\ RecordExit(a, "stopped") /\ UNCHANGED stopping
  <2>1. /\ Apart(a) /\ NamesLeased' /\ DOMAIN leases' = Ids
        /\ ident[a] \in Ids /\ running'[ident[a]] = NoOne
    BY <1>1, <1>2, <1>7, Leaves, ZenonT(60)
  <2>2. DOMAIN exited' = Ids /\ Exited' /\ ExitHonest'
    BY <1>0, <1>1, <1>7, <2>1, Records
  <2>3. inst[a] # "live"
    BY <1>3, <1>7, ZenonT(60) DEF StopSucceeded
  <2>4. Watched(a)'
    <3>1. /\ phase[a] = "registered" <=> watch[a] # "off"
          /\ watch[a] \in {"returned", "done"} => inst[a] # "live" /\ place[a] = 0
      BY <1>0, ZenonT(60) DEF Local, Watched
    <3> QED
      BY <1>1, <1>2, <1>3, <1>7, <2>3, <3>1, Zenon DEF Watched
  <2>5. Ceased(a)'
    BY <1>1, <1>2, <1>4, <1>5, <1>7 DEF Ceased, StopOwnsExit
  <2>6. Leased(a)'
    <3>1. ~Holder(a)' /\ phase[a] # "idle"
      BY <1>1, <1>2, <2>1, InTheMaps, VMAssumption, SMTT(30) DEF Holder, Here, Pending, VMAssumption
    <3> QED
      BY <1>1, <3>1, ZenonT(60) DEF Leased
  <2>7. \A b \in Attempts : b # a => Same(b)
    BY <1>1, <1>4, <1>5, <1>7, Zenon DEF Same
  <2>8. Shape3'
    BY <1>0, <1>1, <2>1, <2>2, ZenonT(60) DEF Shape3
  <2>9. Local(a)'
    BY <1>6, <2>4, <2>5, <2>6, Zenon DEF Local
  <2> QED
    BY <1>1, <2>1, <2>2, <2>7, <2>8, <2>9, OneKeeps, Zenon
<1>8. CASE /\ ~StopSucceeded(a) /\ stopping' = [stopping EXCEPT ![a] = FALSE]
           /\ UNCHANGED <<running, leases, exited>>
  <2>1. LastStop(a)' = "err"
    BY <1>1, <1>5, <1>8, Zenon DEF StopSucceeded
  <2>2. \A b \in Attempts : b # a => (stopping'[b] <=> stopping[b])
    BY <1>8, ZenonT(60) DEF KInv, Shape
  <2>3. Watched(a)'
    <3>1. /\ phase[a] = "registered" <=> watch[a] # "off"
          /\ watch[a] \in {"returned", "done"} => inst[a] # "live" /\ place[a] = 0
      BY <1>0, Zenon DEF Local, Watched
    <3>2. Here(a)'
      BY <1>1, <1>2, <1>8, ZenonT(60) DEF Here
    <3> QED
      BY <1>1, <3>1, <3>2, Zenon DEF Watched
  <2>4. Ceased(a)'
    BY <1>1, <1>4, <1>5, <2>1 DEF Ceased, StopOwnsExit
  <2>5. Leased(a)'
    BY <1>0, <1>1, <1>8, ZenonT(60) DEF Local, Leased, Holder, Here
  <2>6. \A b \in Attempts : b # a => Same(b)
    BY <1>1, <1>4, <1>5, <2>2, Zenon DEF Same
  <2>7. Apart(a)
    BY <1>1, <1>8, ZenonT(60) DEF Apart
  <2>8. Shape3' /\ NamesLeased' /\ Exited' /\ ExitHonest'
    BY <1>0, <1>1, <1>8, Zenon DEF Shape3, NamesLeased, Exited, ExitHonest
  <2>9. Local(a)'
    BY <1>6, <2>3, <2>4, <2>5, Zenon DEF Local
  <2> QED
    BY <1>1, <2>6, <2>7, <2>8, <2>9, OneKeeps, ZenonT(60)
<1> QED
  BY <1>7, <1>8, Zenon DEF StopPublish

(* Wait returns, and watch publishes the exit unless a stop does.          *)
LEMMA MWatch ==
    ASSUME KInv, MInv, VMAssumption, NEW a \in Attempts, WatchStep(a)
    PROVE  MInv'
<1>0. Local(a) /\ Shape3 /\ NamesLeased /\ Exited /\ ExitHonest /\ DOMAIN watch = Attempts
  BY Zenon DEF MInv, Shape3
<1>1. /\ UNCHANGED <<starting, closing, phase, ident, addr, inst, stop, stopping, stopPc>>
      /\ watch[a] \in {"waiting", "returned"}
  BY SMTT(30) DEF WatchStep, WatchReturns, WatchPublish, manager, starts
<1>2. phase[a] = "registered" /\ (Here(a) \/ stopping[a])
  BY <1>0, <1>1 DEF Local, Watched
<1>3. PICK w \in {"returned", "done"} : watch' = [watch EXCEPT ![a] = w]
  BY Zenon DEF WatchStep, WatchReturns, WatchPublish
<1>4. DOMAIN watch' = Attempts /\ watch'[a] = w /\ \A b \in Attempts : b # a => watch'[b] = watch[b]
  BY <1>0, <1>3, Zenon
<1>5. Begun(a)' /\ Instance(a)'
  BY <1>0, <1>1, Zenon DEF Local, Begun, Instance
<1>6. LastStop(a)' = LastStop(a)
  BY <1>1, ZenonT(60) DEF LastStop
<1>7. ASSUME inst[a] # "live", place'[a] = 0, watch'[a] = "returned" => Here(a)' \/ stopping[a]
      PROVE  Watched(a)' /\ Slotted(a)' /\ Ceased(a)'
  <2>1. Watched(a)'
    BY <1>1, <1>2, <1>4, <1>7, ZenonT(60) DEF Watched
  <2>2. Slotted(a)'
    BY <1>7, Zenon DEF Slotted
  <2>3. Ceased(a)'
    BY <1>0, <1>1, <1>6, <1>7, ZenonT(60) DEF Local, Ceased, StopOwnsExit
  <2> QED
    BY <2>1, <2>2, <2>3, ZenonT(60)
<1>8. CASE WatchReturns(a)
  <2>1. inst[a] # "live" /\ ReleaseHost(a) /\ UNCHANGED <<running, leases, exited>>
    BY <1>8, Zenon DEF WatchReturns, manager
  <2>2. /\ place' \in [Attempts -> 0..Hosts] /\ load' \in [1..Hosts -> Nat]
        /\ place'[a] = 0 /\ \A b \in Attempts : b # a => place'[b] = place[b]
    BY <1>0, <2>1, Releases, Zenon
  <2>3. Here(a)' <=> Here(a)
    BY <1>1, <2>1, ZenonT(60) DEF Here
  <2>4. Watched(a)' /\ Slotted(a)' /\ Ceased(a)'
    BY <1>2, <1>7, <2>1, <2>2, <2>3, Zenon
  <2>5. Leased(a)'
    BY <1>0, <1>1, <2>1, <2>3, ZenonT(60) DEF Local, Leased, Holder
  <2>6. Local(a)'
    BY <1>5, <2>4, <2>5, Zenon DEF Local
  <2>7. \A b \in Attempts : b # a => Same(b)
    BY <1>1, <1>4, <2>2, Zenon DEF Same
  <2>8. Apart(a)
    BY <1>1, <2>1, Zenon DEF Apart
  <2>9. Shape3' /\ NamesLeased' /\ Exited' /\ ExitHonest'
    BY <1>0, <1>1, <1>4, <2>1, <2>2, ZenonT(60) DEF Shape3, NamesLeased, Exited, ExitHonest
  <2> QED
    BY <1>1, <2>6, <2>7, <2>8, <2>9, OneKeeps, Zenon
<1>9. CASE WatchPublish(a)
  <2>1. inst[a] # "live" /\ place[a] = 0 /\ watch[a] = "returned" /\ UNCHANGED <<place, load>>
        /\ watch'[a] = "done"
    <3>1. watch[a] = "returned" /\ UNCHANGED <<place, load>> /\ watch' = [watch EXCEPT ![a] = "done"]
      BY <1>9, ZenonT(60) DEF WatchPublish, slots
    <3> QED
      BY <1>0, <3>1, ZenonT(60) DEF Local, Watched
  <2>2. Watched(a)' /\ Slotted(a)' /\ Ceased(a)'
    BY <1>7, <2>1
  <2>3. \A b \in Attempts : b # a => Same(b)
    BY <1>1, <1>4, <2>1, Zenon DEF Same
  <2>4. CASE UNCHANGED <<running, leases, exited>>
    <3>1. Leased(a)'
      BY <1>0, <1>1, <2>4, Zenon DEF Local, Leased, Holder, Here
    <3>2. Apart(a)
      BY <1>1, <2>4, ZenonT(60) DEF Apart
    <3>3. Shape3' /\ NamesLeased' /\ Exited' /\ ExitHonest'
      BY <1>0, <1>1, <1>4, <2>1, <2>4, Zenon DEF Shape3, NamesLeased, Exited, ExitHonest
    <3>4. Local(a)'
      BY <1>5, <2>2, <3>1, Zenon DEF Local
    <3> QED
      BY <1>1, <2>3, <3>2, <3>3, <3>4, OneKeeps, ZenonT(60)
  <2>5. CASE /\ ~StopOwnsExit(a) /\ Unregister(a)
             /\ \E status \in {"stopped", "crashed"} : RecordExit(a, status)
    <3>1. Here(a)
      BY <1>2, <2>5, Zenon DEF StopOwnsExit
    <3>2. /\ Apart(a) /\ NamesLeased' /\ DOMAIN leases' = Ids
          /\ ident[a] \in Ids /\ running'[ident[a]] = NoOne
      BY <1>1, <1>2, <2>5, <3>1, Leaves, ZenonT(60)
    <3>3. inst[a] = "dead"
      BY <1>0, <1>2, <2>1, <2>5 DEF Local, Instance, Ceased
    <3>4. PICK status \in {"stopped", "crashed"} : RecordExit(a, status)
      BY <2>5, ZenonT(60)
    <3>5. DOMAIN exited' = Ids /\ Exited' /\ ExitHonest'
      BY <1>0, <1>1, <3>2, <3>3, <3>4, Records, SMTT(30)
    <3>6. Leased(a)'
      <4>1. ~Holder(a)' /\ phase[a] # "idle"
        BY <1>1, <1>2, <3>2, SMTT(30) DEF Holder, Here, Pending, VMAssumption
      <4> QED
        BY <1>1, <4>1, Zenon DEF Leased
    <3>7. Shape3'
      BY <1>0, <1>1, <1>4, <2>1, <3>2, <3>5, Zenon DEF Shape3
    <3>8. Local(a)'
      BY <1>5, <2>2, <3>6, Zenon DEF Local
    <3> QED
      BY <1>1, <2>3, <3>2, <3>5, <3>7, <3>8, OneKeeps, Zenon
  <2> QED
    BY <1>9, <2>4, <2>5, Zenon DEF WatchPublish
<1> QED
  BY <1>8, <1>9, ZenonT(60) DEF WatchStep

(* beginMachineStopLocked marks machines as stopping.                      *)
LEMMA MBegin ==
    ASSUME KInv, MInv, VMAssumption, NEW S, BeginStops(S), closing => closing', closing' \in BOOLEAN,
           UNCHANGED <<running, starting, leases, exited, phase, ident, addr, inst, place, load, watch>>
    PROVE  MInv'
<1>1. \A a \in Attempts :
        \/ /\ stop'[a] = stop[a] /\ stopPc'[a] = stopPc[a]
           /\ stopping'[a] <=> stopping[a]
        \/ /\ stopPc'[a] = "lock" /\ stopping'[a] /\ stop'[a] = Append(stop[a], "pending")
  BY Begins, Zenon DEF KInv
<1>2. Shape3' /\ NamesLeased' /\ Exited' /\ ExitHonest'
  BY Zenon DEF MInv, Shape3, NamesLeased, Exited, ExitHonest
<1>3. ASSUME NEW a \in Attempts PROVE Local(a)'
  <2>0. Local(a)
    BY Zenon DEF MInv
  <2>1. CASE stop'[a] = stop[a] /\ stopPc'[a] = stopPc[a] /\ (stopping'[a] <=> stopping[a])
    BY <2>0, <2>1, LocalFrame, Zenon DEF Local, Begun, Here
  <2>2. CASE stopPc'[a] = "lock" /\ stopping'[a] /\ stop'[a] = Append(stop[a], "pending")
    <3>1. Begun(a)' /\ Instance(a)' /\ Slotted(a)' /\ Leased(a)'
      BY <2>0, ZenonT(60) DEF Local, Begun, Instance, Slotted, Leased, Holder, Here
    <3>2. Watched(a)'
      BY <2>0, <2>2, Zenon DEF Local, Watched, Here
    <3>3. /\ Len(stop'[a]) = Len(stop[a]) + 1 /\ stop'[a][Len(stop'[a])] = "pending"
          /\ \A n \in 1..Len(stop[a]) : stop'[a][n] = stop[a][n]
          /\ Len(stop[a]) \in Nat
      BY <2>2, Appended, SMTT(30) DEF KInv, Shape, Outcomes
    <3>4. \A n \in 1..Len(stop'[a]) : stop'[a][n] = "ok" => n \in 1..Len(stop[a]) /\ stop[a][n] = "ok"
      BY <3>3, SMTT(30)
    <3>5. Ceased(a)'
      BY <2>0, <2>2, <3>4 DEF Local, Ceased, StopOwnsExit
    <3> QED
      BY <3>1, <3>2, <3>5, Zenon DEF Local
  <2> QED
    BY <1>1, <2>1, <2>2, Zenon
<1> QED
  BY <1>2, <1>3, Zenon DEF MInv

(* Operations and callers that leave starts and machines alone.            *)
LEMMA MQuiet ==
    ASSUME MInv, UNCHANGED <<manager, starts, machine, slots, inst>>
    PROVE  MInv'
<1>1. UNCHANGED <<running, starting, leases, exited, closing, phase, ident, addr, stop, stopping,
                  stopPc, watch, place, load, inst>>
  BY Zenon DEF manager, starts, machine, slots
<1>2. ASSUME NEW a \in Attempts PROVE Local(a)'
  BY <1>1, LocalFrame, Zenon DEF MInv, Local, Begun, Here
<1> QED
  BY <1>1, <1>2, Zenon DEF MInv, Shape3, NamesLeased, Exited, ExitHonest

(* The manager starts with nothing.                                        *)
LEMMA MInit == ASSUME Init, VMAssumption PROVE MInv
<1>1. /\ \A a \in Attempts : /\ phase[a] = "idle" /\ inst[a] = "none" /\ watch[a] = "off"
                             /\ place[a] = 0 /\ addr[a] = 0 /\ stopPc[a] = "idle" /\ stop[a] = << >>
      /\ \A id \in Ids : leases[id] = 0 /\ exited[id] = Nobody
  BY Zenon DEF Init
<1>2. Shape3
  <2>1. 0 \in Nat /\ 0 \in 0..Hosts
    BY DEF VMAssumption
  <2> QED
    BY <2>1, Zenon DEF Init, Shape3
<1>3. Nobody.status # "crashed"
  BY SMTT(30) DEF Nobody
<1>4. NamesLeased /\ Exited /\ ExitHonest
  BY <1>1, <1>3, ZenonT(60) DEF NamesLeased, Exited, ExitHonest
<1>5. ASSUME NEW a \in Attempts PROVE Local(a)
  BY <1>1, <1>5, ZenonT(60) DEF Local, Begun, Instance, Watched, Ceased, Slotted, Leased, Holder, Pending
<1> QED
  BY <1>2, <1>4, <1>5, Zenon DEF MInv

(* Every step keeps MInv.                                                  *)
LEMMA MNext ==
    ASSUME KInv, MInv, VMAssumption, [Next]_vars
    PROVE  MInv'
<1>1. CASE UNCHANGED vars
  BY <1>1, MQuiet, ZenonT(60) DEF vars
<1>2. ASSUME NEW a \in Attempts, StartStep(a) \/ Exit(a) \/ StopStep(a) \/ WatchStep(a)
      PROVE  MInv'
  BY <1>2, MStart, MExit, MStop, MPublish, MWatch, Zenon DEF StopStep
<1>3. ASSUME NEW id \in Ids, Reap(id)
      PROVE  MInv'
  <2>1. /\ exited' = [exited EXCEPT ![id] = Nobody]
        /\ UNCHANGED <<running, starting, leases, closing, phase, ident, addr, stop, stopping,
                       stopPc, watch, place, load, inst>>
    BY <1>3, Zenon DEF Reap, starts, machine, slots
  <2>2. DOMAIN exited' = Ids /\ \A i \in Ids : exited'[i] \in {exited[i], Nobody}
    BY <2>1, Zenon DEF MInv, Shape3
  <2>3. Exited' /\ ExitHonest'
    BY <2>1, <2>2, ExitsStay, Zenon DEF MInv
  <2>4. ASSUME NEW a \in Attempts PROVE Local(a)'
    BY <2>1, LocalFrame, Zenon DEF MInv, Local, Begun, Here
  <2> QED
    BY <2>1, <2>2, <2>3, <2>4, Zenon DEF MInv, Shape3, NamesLeased
<1>4. ASSUME NEW id \in Ids, ShutdownInstance(id)
      PROVE  MInv'
  <2>1. /\ BeginStops({running[id]})
        /\ UNCHANGED <<running, starting, leases, exited, closing, phase, ident, addr, inst, place,
                       load, watch>>
    BY <1>4, Zenon DEF ShutdownInstance, manager, starts, slots
  <2> QED
    BY <2>1, MBegin, Zenon DEF MInv, Shape3
<1>5. ASSUME NEW c \in Callers, ShutdownAll(c)
      PROVE  MInv'
  <2>1. /\ BeginStops({running[id] : id \in Registered}) /\ closing'
        /\ closing' \in BOOLEAN
        /\ UNCHANGED <<running, starting, leases, exited, phase, ident, addr, inst, place,
                       load, watch>>
    BY <1>5, Zenon DEF ShutdownAll, starts, slots
  <2> QED
    BY <2>1, MBegin, Zenon
<1>6. ASSUME NEW c \in Callers, ShutdownReturns(c) \/ ShutdownTimeout(c)
      PROVE  MInv'
  <2>1. UNCHANGED <<manager, starts, machine, slots, inst>>
    BY <1>6, Zenon DEF ShutdownReturns, ShutdownTimeout
  <2> QED
    BY <2>1, MQuiet, Zenon
<1>7. ASSUME NEW o \in Ops, OpStep(o)
      PROVE  MInv'
  <2>1. UNCHANGED <<manager, starts, machine, slots, inst>>
    BY <1>7, Zenon DEF OpStep, OpLook, OpLock, OpValidate, OpDone, SnapshotBegin, SnapshotDone,
       BalloonBegin, BalloonDone
  <2> QED
    BY <2>1, MQuiet, Zenon
<1> QED
  BY <1>1, <1>2, <1>3, <1>4, <1>5, <1>6, <1>7, Zenon DEF Next

(* An instance that runs can be reached by a stop: it belongs to a         *)
(* registered machine or to a start in progress, except when a start gave  *)
(* it up and could not close it.                                           *)
THEOREM LiveAccountedCorrect == Spec => []LiveAccounted
<1>1. Init => KInv /\ MInv
  BY KInit, MInit, VMAssumption, ZenonT(60)
<1>2. KInv /\ MInv /\ [Next]_vars => (KInv /\ MInv)'
  BY KNext, MNext, VMAssumption, Zenon
<1>3. ASSUME KInv, MInv PROVE LiveAccounted
  <2>1. SUFFICES ASSUME NEW a \in Attempts, inst[a] = "live",
                        phase[a] \notin {"discarding", "ended"}
                 PROVE  running[ident[a]] = a \/ starting[ident[a]] = a
    BY Zenon DEF LiveAccounted
  <2>2. Begun(a) /\ Instance(a) /\ Watched(a)
    BY <1>3, ZenonT(60) DEF MInv, Local
  <2> QED
    BY <2>1, <2>2 DEF Begun, Instance, Watched, Here, Pending
<1> QED
  BY <1>1, <1>2, <1>3, PTL DEF Spec

(* A machine that Close ended is never reported as crashed, although watch *)
(* publishes its exit some time after Wait returned.                       *)
THEOREM ExitHonestCorrect == Spec => []ExitHonest
<1>1. Init => KInv /\ MInv
  BY KInit, MInit, VMAssumption, Zenon
<1>2. KInv /\ MInv /\ [Next]_vars => (KInv /\ MInv)'
  BY KNext, MNext, VMAssumption, Zenon
<1>3. MInv => ExitHonest
  BY Zenon DEF MInv
<1> QED
  BY <1>1, <1>2, <1>3, PTL DEF Spec

=============================================================================
