----------------------------- MODULE VMManager -----------------------------
(***************************************************************************)
(* The VM manager (internal/core/vm/vm.go): starts, stops, crashes and the *)
(* shutdown of machines, the operations that use a machine meanwhile, and  *)
(* the placement of instances on hosts (internal/core/vm/host/host.go).    *)
(*                                                                         *)
(* A member of Attempts is one call of StartInstanceStream or              *)
(* StartBlankInstanceStream, the instance it boots and the Machine it      *)
(* registers.  A section of the code under Manager.mu is one action, and   *)
(* so is each call into the backend.  The reservations of the code have    *)
(* the same keys as its starts, so starting stands for both.               *)
(***************************************************************************)
EXTENDS Integers, Sequences, FiniteSets

CONSTANTS Ids,            \* instance names
          Attempts,       \* calls of Start
          Callers,        \* calls of ShutdownAll
          Ops,            \* operations on a running machine
          NoOne,          \* the nil of the maps below
          Networks,       \* whether a start may ask for a network address
          Hosts,          \* number of hosts of the placement, tried in order
          HostMax,        \* MaxVMs of each host
          LastLease,      \* 254 in the code
          MaxTombstones,  \* maxExitTombstones
          MaxStops        \* bound: stop operations of one machine

ASSUME VMAssumption ==
    /\ Hosts \in Nat \ {0} /\ HostMax \in Nat \ {0} /\ MaxTombstones \in Nat
    /\ LastLease \in Nat /\ LastLease >= 2 /\ MaxStops \in Nat
    /\ NoOne \notin Attempts \cup Ops \cup Ids
    /\ Attempts \cap Ops = {}
    /\ Networks \subseteq BOOLEAN /\ Networks # {}

VARIABLES
    running, starting, leases, exited, closing,    \* fields of Manager
    phase, ident, addr, cleanupErr,                \* a start
    inst, place,                                   \* its instance and host slot
    stop, stopping, stopPc, watch,                 \* its Machine
    lifecycle, balloon, snapshot,                  \* locks and snapshotCancel
    load,                                          \* placementVMHost.running
    ops, shut                                      \* callers

manager == <<running, starting, leases, exited, closing>>
starts == <<phase, ident, addr, cleanupErr>>
machine == <<stop, stopping, stopPc, watch>>
locks == <<lifecycle, balloon, snapshot>>
slots == <<place, load>>
vars == <<manager, starts, machine, locks, slots, inst, ops, shut>>

MaxVMs == Hosts * HostMax

Exits == [who : Attempts, status : {"stopped", "crashed"}]
Nobody == [who |-> NoOne, status |-> "none"]

(* The maps of the manager and the states of every start, machine,         *)
(* operation and caller have their types, and no more than MaxTombstones   *)
(* exits are kept.                                                         *)
TypeOK ==
    /\ running \in [Ids -> Attempts \cup {NoOne}]
    /\ starting \in [Ids -> Attempts \cup {NoOne}]
    /\ leases \in [Ids -> 0..(LastLease + 1)]
    /\ exited \in [Ids -> Exits \cup {Nobody}]
    /\ Cardinality({id \in Ids : exited[id] # Nobody}) <= MaxTombstones
    /\ closing \in BOOLEAN
    /\ phase \in [Attempts -> {"idle", "admitted", "booting", "booted", "aborting",
                               "discarding", "registered", "ended"}]
    /\ ident \in [Attempts -> Ids \cup {NoOne}]
    /\ addr \in [Attempts -> 0..(LastLease + 1)]
    /\ cleanupErr \in [Attempts -> BOOLEAN]
    /\ inst \in [Attempts -> {"none", "live", "dead", "closed"}]
    /\ place \in [Attempts -> 0..Hosts]
    /\ stop \in [Attempts -> Seq({"pending", "ok", "err"})]
    /\ stopping \in [Attempts -> BOOLEAN]
    /\ stopPc \in [Attempts -> {"idle", "lock", "close", "ok", "err"}]
    /\ watch \in [Attempts -> {"off", "waiting", "returned", "done"}]
    /\ lifecycle \in [Attempts -> Attempts \cup Ops \cup {NoOne}]
    /\ balloon \in [Attempts -> Ops \cup {NoOne}]
    /\ snapshot \in [Attempts -> Ops \cup {NoOne}]
    /\ load \in [1..Hosts -> 0..HostMax]
    /\ ops \in [Ops -> [pc : {"idle", "looked", "locked", "valid", "snapshot",
                              "canceled", "balloonLooked", "balloon"},
                        on : Attempts \cup {NoOne}]]
    /\ shut \in [Callers -> [pc : {"idle", "waiting", "ok", "error"},
                             stops : SUBSET (Attempts \X (1..MaxStops)),
                             starts : SUBSET Attempts,
                             first : BOOLEAN]]

Idle == [pc |-> "idle", on |-> NoOne]

Init ==
    /\ running = [id \in Ids |-> NoOne]
    /\ starting = [id \in Ids |-> NoOne]
    /\ leases = [id \in Ids |-> 0]
    /\ exited = [id \in Ids |-> Nobody]
    /\ closing = FALSE
    /\ phase = [a \in Attempts |-> "idle"]
    /\ ident = [a \in Attempts |-> NoOne]
    /\ addr = [a \in Attempts |-> 0]
    /\ cleanupErr = [a \in Attempts |-> FALSE]
    /\ inst = [a \in Attempts |-> "none"]
    /\ place = [a \in Attempts |-> 0]
    /\ stop = [a \in Attempts |-> << >>]
    /\ stopping = [a \in Attempts |-> FALSE]
    /\ stopPc = [a \in Attempts |-> "idle"]
    /\ watch = [a \in Attempts |-> "off"]
    /\ lifecycle = [a \in Attempts |-> NoOne]
    /\ balloon = [a \in Attempts |-> NoOne]
    /\ snapshot = [a \in Attempts |-> NoOne]
    /\ load = [h \in 1..Hosts |-> 0]
    /\ ops = [o \in Ops |-> Idle]
    /\ shut = [c \in Callers |-> [pc |-> "idle", stops |-> {}, starts |-> {}, first |-> FALSE]]

-----------------------------------------------------------------------------
(* Placement and the instance's Close.                                     *)

(* Wait and Close both give the slot back.                                 *)
ReleaseHostTwice(a) ==
    /\ load' = IF place[a] = 0 \/ load[place[a]] = 0 THEN load
               ELSE [load EXCEPT ![place[a]] = @ - 1]
    /\ UNCHANGED place

(* releaseHost, which a hostedInstance calls once, when Wait or Close      *)
(* returns, whether Close failed or not.                                   *)
ReleaseHost(a) ==
    /\ load' = IF place[a] = 0 \/ load[place[a]] = 0 THEN load
               ELSE [load EXCEPT ![place[a]] = @ - 1]
    /\ place' = [place EXCEPT ![a] = 0]

(* The slot is given back when Wait returns and not when Close does.       *)
CloseInstanceKeepsSlot(a, ok) ==
    /\ \E now \in {inst[a], IF inst[a] = "live" THEN "closed" ELSE inst[a]} :
          /\ ok => now # "live"
          /\ inst' = [inst EXCEPT ![a] = now]
    /\ UNCHANGED slots

(* Close of the instance and of what belongs to it (listener, display,     *)
(* shared memory).  The whole may fail although the instance was closed.   *)
CloseInstance(a, ok) ==
    /\ \E now \in {inst[a], IF inst[a] = "live" THEN "closed" ELSE inst[a]} :
          /\ ok => now # "live"
          /\ inst' = [inst EXCEPT ![a] = now]
    /\ ReleaseHost(a)

(* The virtual machine ends by itself: it powers off or it crashes.  Which *)
(* of the two is known when Wait returns.                                  *)
Exit(a) ==
    /\ inst[a] = "live"
    /\ inst' = [inst EXCEPT ![a] = "dead"]
    /\ UNCHANGED <<manager, starts, machine, locks, slots, ops, shut>>

-----------------------------------------------------------------------------
(* StartInstanceStream and StartBlankInstanceStream.                       *)

Registered == {id \in Ids : running[id] # NoOne}
Starting == {id \in Ids : starting[id] # NoOne}

(* checkCapacityLocked.                                                    *)
HasCapacity == Cardinality(Registered) + Cardinality(Starting) < MaxVMs

(* Only the leases of registered machines count as used.                   *)
UsedLeasesRunning == {1} \cup {leases[id] : id \in Registered}

UsedLeases == {1} \cup {leases[id] : id \in Ids}

(* The smallest free host number, or the one after the last.               *)
NewLease(id) ==
    IF leases[id] # 0 THEN leases[id]
    ELSE CHOOSE n \in 2..(LastLease + 1) :
            /\ n \in UsedLeases => n = LastLease + 1
            /\ \A k \in 2..(n - 1) : k \in UsedLeases

(* The part of a start under the lock: refused while closing, or when the  *)
(* name is taken, or beyond the capacity.                                  *)
Admit(a, id, network) ==
    /\ phase[a] = "idle"
    /\ ~closing
    /\ running[id] = NoOne
    /\ starting[id] = NoOne
    /\ HasCapacity
    /\ phase' = [phase EXCEPT ![a] = "admitted"]
    /\ ident' = [ident EXCEPT ![a] = id]
    /\ exited' = [exited EXCEPT ![id] = Nobody]
    /\ starting' = [starting EXCEPT ![id] = a]
    /\ leases' = IF network THEN [leases EXCEPT ![id] = NewLease(id)] ELSE leases
    /\ addr' = IF network THEN [addr EXCEPT ![a] = NewLease(id)] ELSE addr
    /\ UNCHANGED <<running, closing, cleanupErr, machine, locks, slots, inst, ops, shut>>

(* reserveHost: the first host with room.                                  *)
ReserveHost(a) ==
    /\ phase[a] = "admitted"
    /\ \E h \in 1..Hosts :
          /\ load[h] < HostMax
          /\ \A g \in 1..(h - 1) : load[g] = HostMax
          /\ load' = [load EXCEPT ![h] = @ + 1]
          /\ place' = [place EXCEPT ![a] = h]
    /\ phase' = [phase EXCEPT ![a] = "booting"]
    /\ UNCHANGED <<manager, ident, addr, cleanupErr, machine, locks, inst, ops, shut>>

FinishStart(a) ==
    /\ starting' = IF starting[ident[a]] = a
                   THEN [starting EXCEPT ![ident[a]] = NoOne] ELSE starting
    /\ leases' = [leases EXCEPT ![ident[a]] = 0]
    /\ phase' = [phase EXCEPT ![a] = "ended"]

(* Shared memory, mounts or a host are not available, or the backend fails *)
(* or is canceled.                                                         *)
BootFails(a) ==
    /\ phase[a] \in {"admitted", "booting"}
    /\ ReleaseHost(a)
    /\ FinishStart(a)
    /\ UNCHANGED <<running, exited, closing, ident, addr, cleanupErr, machine, locks,
                   inst, ops, shut>>

Boot(a) ==
    /\ phase[a] = "booting"
    /\ phase' = [phase EXCEPT ![a] = "booted"]
    /\ inst' = [inst EXCEPT ![a] = "live"]
    /\ UNCHANGED <<manager, ident, addr, cleanupErr, machine, locks, slots, ops, shut>>

(* The booted instance cannot be used (shared memory not claimed, shares   *)
(* not added, no display server): it is closed.  Only the failure to add   *)
(* shares records the error of Close in cleanupErr.                        *)
AbortClose(a) ==
    /\ phase[a] = "booted"
    /\ \E ok, shares \in BOOLEAN :
          /\ CloseInstance(a, ok)
          /\ cleanupErr' = [cleanupErr EXCEPT ![a] = shares /\ ~ok]
    /\ phase' = [phase EXCEPT ![a] = "aborting"]
    /\ UNCHANGED <<manager, ident, addr, machine, locks, ops, shut>>

AbortFinish(a) ==
    /\ phase[a] = "aborting"
    /\ FinishStart(a)
    /\ UNCHANGED <<running, exited, closing, ident, addr, cleanupErr, machine, locks,
                   slots, inst, ops, shut>>

(* A start that does not look at closing when it registers its machine.    *)
SupersededIgnored(a) == starting[ident[a]] # a

Superseded(a) == closing \/ starting[ident[a]] # a

Register(a) ==
    /\ phase[a] = "booted"
    /\ ~Superseded(a)
    /\ starting' = [starting EXCEPT ![ident[a]] = NoOne]
    /\ running' = [running EXCEPT ![ident[a]] = a]
    /\ phase' = [phase EXCEPT ![a] = "registered"]
    /\ watch' = [watch EXCEPT ![a] = "waiting"]
    /\ UNCHANGED <<leases, exited, closing, ident, addr, cleanupErr, stop, stopping,
                   stopPc, locks, slots, inst, ops, shut>>

(* The manager is closing: the start leaves the maps, then closes what it  *)
(* booted.                                                                 *)
Discard(a) ==
    /\ phase[a] = "booted"
    /\ Superseded(a)
    /\ starting' = IF starting[ident[a]] = a
                   THEN [starting EXCEPT ![ident[a]] = NoOne] ELSE starting
    /\ leases' = [leases EXCEPT ![ident[a]] = 0]
    /\ phase' = [phase EXCEPT ![a] = "discarding"]
    /\ UNCHANGED <<running, exited, closing, ident, addr, cleanupErr, machine, locks,
                   slots, inst, ops, shut>>

DiscardClose(a) ==
    /\ phase[a] = "discarding"
    /\ \E ok \in BOOLEAN :
          /\ CloseInstance(a, ok)
          /\ cleanupErr' = [cleanupErr EXCEPT ![a] = ~ok]
    /\ phase' = [phase EXCEPT ![a] = "ended"]
    /\ UNCHANGED <<manager, ident, addr, machine, locks, ops, shut>>

-----------------------------------------------------------------------------
(* ShutdownInstance, beginMachineStopLocked, runMachineStop, watch.        *)

LastStop(a) == IF stop[a] = << >> THEN "none" ELSE stop[a][Len(stop[a])]

(* A stop that leaves the snapshot in progress alone.                      *)
BeginStopsNoCancel(S) ==
    LET fresh == {a \in S : LastStop(a) \in {"none", "err"}}
    IN  /\ \A a \in fresh : Len(stop[a]) < MaxStops
        /\ stop' = [a \in Attempts |-> IF a \in fresh THEN Append(stop[a], "pending")
                                       ELSE stop[a]]
        /\ stopping' = [a \in Attempts |-> a \in fresh \/ stopping[a]]
        /\ stopPc' = [a \in Attempts |-> IF a \in fresh THEN "lock" ELSE stopPc[a]]
        /\ UNCHANGED ops

(* beginMachineStopLocked for the machines S: a stop in progress is        *)
(* joined, a failed one is retried, a snapshot in progress is canceled.    *)
BeginStops(S) ==
    LET fresh == {a \in S : LastStop(a) \in {"none", "err"}}
        canceled == {snapshot[a] : a \in fresh}
    IN  /\ \A a \in fresh : Len(stop[a]) < MaxStops
        /\ stop' = [a \in Attempts |-> IF a \in fresh THEN Append(stop[a], "pending")
                                       ELSE stop[a]]
        /\ stopping' = [a \in Attempts |-> a \in fresh \/ stopping[a]]
        /\ stopPc' = [a \in Attempts |-> IF a \in fresh THEN "lock" ELSE stopPc[a]]
        /\ ops' = [o \in Ops |-> IF o \in canceled THEN [ops[o] EXCEPT !.pc = "canceled"]
                                 ELSE ops[o]]

ShutdownInstance(id) ==
    /\ running[id] # NoOne
    /\ BeginStops({running[id]})
    /\ UNCHANGED <<manager, starts, watch, locks, slots, inst, shut>>

(* ShutdownInstance of a machine that has ended only forgets how it ended. *)
Reap(id) ==
    /\ running[id] = NoOne
    /\ exited[id] # Nobody
    /\ exited' = [exited EXCEPT ![id] = Nobody]
    /\ UNCHANGED <<running, starting, leases, closing, starts, machine, locks, slots,
                   inst, ops, shut>>

(* runMachineStop waits for the operations under lifecycleMu, not for a    *)
(* balloon request: closing the instance is what ends a stuck one.         *)
StopLock(a) ==
    /\ stopPc[a] = "lock"
    /\ lifecycle[a] = NoOne
    /\ lifecycle' = [lifecycle EXCEPT ![a] = a]
    /\ stopPc' = [stopPc EXCEPT ![a] = "close"]
    /\ UNCHANGED <<manager, starts, stop, stopping, watch, balloon, snapshot, slots,
                   inst, ops, shut>>

StopClose(a) ==
    /\ stopPc[a] = "close"
    /\ \E ok \in BOOLEAN :
          /\ CloseInstance(a, ok)
          /\ stopPc' = [stopPc EXCEPT ![a] = IF ok THEN "ok" ELSE "err"]
    /\ lifecycle' = [lifecycle EXCEPT ![a] = NoOne]
    /\ UNCHANGED <<manager, starts, stop, stopping, watch, balloon, snapshot, ops, shut>>

(* Tombstones are never dropped.                                           *)
RecordExitForever(a, status) ==
    exited' = [exited EXCEPT ![ident[a]] = [who |-> a, status |-> status]]

(* recordExitLocked.  Exit times have whole seconds, so any tombstone may  *)
(* be the oldest one.                                                      *)
RecordExit(a, status) ==
    LET all == [exited EXCEPT ![ident[a]] = [who |-> a, status |-> status]]
    IN  IF Cardinality({id \in Ids : all[id] # Nobody}) <= MaxTombstones
        THEN exited' = all
        ELSE \E id \in Ids : all[id] # Nobody /\ exited' = [all EXCEPT ![id] = Nobody]

(* The machine leaves the maps of the manager.                             *)
Unregister(a) ==
    /\ running' = IF running[ident[a]] = a
                  THEN [running EXCEPT ![ident[a]] = NoOne] ELSE running
    /\ leases' = [leases EXCEPT ![ident[a]] = 0]

(* The outcome of Close is ignored.                                        *)
StopSucceededAlways(a) == TRUE

StopSucceeded(a) == stopPc[a] = "ok"

StopPublish(a) ==
    /\ stopPc[a] \in {"ok", "err"}
    /\ stop' = [stop EXCEPT ![a][Len(stop[a])] = stopPc[a]]
    /\ stopPc' = [stopPc EXCEPT ![a] = "idle"]
    /\ \/ /\ StopSucceeded(a)
          /\ Unregister(a)
          /\ RecordExit(a, "stopped")
          /\ UNCHANGED stopping
       \/ /\ ~StopSucceeded(a)
          /\ stopping' = [stopping EXCEPT ![a] = FALSE]
          /\ UNCHANGED <<running, leases, exited>>
    /\ UNCHANGED <<starting, closing, starts, watch, locks, slots, inst, ops, shut>>

WatchReturns(a) ==
    /\ watch[a] = "waiting"
    /\ inst[a] # "live"
    /\ ReleaseHost(a)
    /\ watch' = [watch EXCEPT ![a] = "returned"]
    /\ UNCHANGED <<manager, starts, stop, stopping, stopPc, locks, inst, ops, shut>>

(* The stop owns the exit only while it runs.                              *)
StopOwnsExitWhileStopping(a) == stopping[a]

(* An explicit stop publishes the exit itself, and a failed one keeps the  *)
(* machine for another try.                                                *)
StopOwnsExit(a) == stopping[a] \/ LastStop(a) = "err"

(* Wait reports an error or not.                                           *)
WatchPublish(a) ==
    /\ watch[a] = "returned"
    /\ watch' = [watch EXCEPT ![a] = "done"]
    /\ \/ /\ StopOwnsExit(a)
          /\ UNCHANGED <<running, leases, exited>>
       \/ /\ ~StopOwnsExit(a)
          /\ Unregister(a)
          /\ \E status \in {"stopped", "crashed"} : RecordExit(a, status)
    /\ UNCHANGED <<starting, closing, starts, stop, stopping, stopPc, locks, slots,
                   inst, ops, shut>>

-----------------------------------------------------------------------------
(* Operations on a running machine: lockMachineOperation, RunStreamIn,     *)
(* SnapshotRootFS, SetInstanceBalloon.                                     *)

(* The lock is taken and the machine is not looked at again.               *)
UsableUnchecked(a) == TRUE

Usable(a) == running[ident[a]] = a /\ ~stopping[a]

OpLook(o, id) ==
    /\ ops[o].pc = "idle"
    /\ running[id] # NoOne
    /\ ~stopping[running[id]]
    /\ \E pc \in {"looked", "balloonLooked"} : ops' = [ops EXCEPT ![o] = [pc |-> pc, on |-> running[id]]]
    /\ UNCHANGED <<manager, starts, machine, locks, slots, inst, shut>>

OpLock(o) ==
    /\ ops[o].pc = "looked"
    /\ lifecycle[ops[o].on] = NoOne
    /\ lifecycle' = [lifecycle EXCEPT ![ops[o].on] = o]
    /\ ops' = [ops EXCEPT ![o].pc = "locked"]
    /\ UNCHANGED <<manager, starts, machine, balloon, snapshot, slots, inst, shut>>

(* lockMachineOperation's second look at the machine; when it is still     *)
(* valid the caller uses the backend under the lock.                       *)
OpValidate(o) ==
    LET a == ops[o].on IN
    /\ ops[o].pc = "locked"
    /\ \/ /\ Usable(a)
          /\ ops' = [ops EXCEPT ![o].pc = "valid"]
          /\ UNCHANGED lifecycle
       \/ /\ ~Usable(a)
          /\ ops' = [ops EXCEPT ![o] = Idle]
          /\ lifecycle' = [lifecycle EXCEPT ![a] = NoOne]
    /\ UNCHANGED <<manager, starts, machine, balloon, snapshot, slots, inst, shut>>

(* The backend operation (addInstanceShares and the like) returns.         *)
OpDone(o) ==
    /\ ops[o].pc = "valid"
    /\ lifecycle' = [lifecycle EXCEPT ![ops[o].on] = NoOne]
    /\ ops' = [ops EXCEPT ![o] = Idle]
    /\ UNCHANGED <<manager, starts, machine, balloon, snapshot, slots, inst, shut>>

(* SnapshotRootFS without the look under mu.                               *)
SnapshotBeginUnchecked(o) ==
    LET a == ops[o].on IN
    /\ ops[o].pc = "valid"
    /\ snapshot' = [snapshot EXCEPT ![a] = o]
    /\ ops' = [ops EXCEPT ![o].pc = "snapshot"]
    /\ UNCHANGED <<manager, starts, machine, lifecycle, balloon, slots, inst, shut>>

(* SnapshotRootFS looks once more and makes itself cancelable, under mu.   *)
SnapshotBegin(o) ==
    LET a == ops[o].on IN
    /\ ops[o].pc = "valid"
    /\ Usable(a)
    /\ snapshot' = [snapshot EXCEPT ![a] = o]
    /\ ops' = [ops EXCEPT ![o].pc = "snapshot"]
    /\ UNCHANGED <<manager, starts, machine, lifecycle, balloon, slots, inst, shut>>

SnapshotDone(o) ==
    LET a == ops[o].on IN
    /\ ops[o].pc \in {"snapshot", "canceled"}
    /\ snapshot' = [snapshot EXCEPT ![a] = NoOne]
    /\ lifecycle' = [lifecycle EXCEPT ![a] = NoOne]
    /\ ops' = [ops EXCEPT ![o] = Idle]
    /\ UNCHANGED <<manager, starts, machine, balloon, slots, inst, shut>>

BalloonBegin(o) ==
    LET a == ops[o].on IN
    /\ ops[o].pc = "balloonLooked"
    /\ balloon[a] = NoOne
    /\ \/ /\ Usable(a)
          /\ balloon' = [balloon EXCEPT ![a] = o]
          /\ ops' = [ops EXCEPT ![o].pc = "balloon"]
       \/ /\ ~Usable(a)
          /\ ops' = [ops EXCEPT ![o] = Idle]
          /\ UNCHANGED balloon
    /\ UNCHANGED <<manager, starts, machine, lifecycle, snapshot, slots, inst, shut>>

BalloonDone(o) ==
    /\ ops[o].pc = "balloon"
    /\ balloon' = [balloon EXCEPT ![ops[o].on] = NoOne]
    /\ ops' = [ops EXCEPT ![o] = Idle]
    /\ UNCHANGED <<manager, starts, machine, lifecycle, snapshot, slots, inst, shut>>

(* A balloon request of an instance that has gone.                         *)
BalloonEnds(o) ==
    /\ ops[o].pc = "balloon"
    /\ inst[ops[o].on] # "live"
    /\ BalloonDone(o)

-----------------------------------------------------------------------------
(* ShutdownAll.                                                            *)

ShutdownAll(c) ==
    LET machines == {running[id] : id \in Registered} IN
    /\ shut[c].pc = "idle"
    /\ closing' = TRUE
    /\ BeginStops(machines)
    /\ shut' = [shut EXCEPT ![c] =
                  [pc |-> "waiting",
                   stops |-> {<<a, Len(stop'[a])>> : a \in machines},
                   starts |-> {starting[id] : id \in Starting},
                   first |-> ~closing]]
    /\ UNCHANGED <<running, starting, leases, exited, starts, watch, locks, slots, inst>>

StartDone(a) == phase[a] \in {"registered", "ended"}

(* It has waited for the stops only.                                       *)
ShutdownReadyStops(c) ==
    \A s \in shut[c].stops : stop[s[1]][s[2]] # "pending"

(* It has waited for the stops and for the starts it canceled.             *)
ShutdownReady(c) ==
    /\ \A s \in shut[c].stops : stop[s[1]][s[2]] # "pending"
    /\ \A a \in shut[c].starts : StartDone(a)

ShutdownReturns(c) ==
    /\ shut[c].pc = "waiting"
    /\ ShutdownReady(c)
    /\ LET clean == /\ \A s \in shut[c].stops : stop[s[1]][s[2]] = "ok"
                    /\ \A a \in shut[c].starts : ~cleanupErr[a]
       IN  shut' = [shut EXCEPT ![c].pc = IF clean THEN "ok" ELSE "error"]
    /\ UNCHANGED <<manager, starts, machine, locks, slots, inst, ops>>

(* The caller's context ends first; the stops go on without it.            *)
ShutdownTimeout(c) ==
    /\ shut[c].pc = "waiting"
    /\ shut' = [shut EXCEPT ![c].pc = "error"]
    /\ UNCHANGED <<manager, starts, machine, locks, slots, inst, ops>>

-----------------------------------------------------------------------------
StartStep(a) ==
    \/ \E id \in Ids, network \in Networks : Admit(a, id, network)
    \/ ReserveHost(a)
    \/ Boot(a)
    \/ BootFails(a)
    \/ AbortClose(a)
    \/ AbortFinish(a)
    \/ Register(a)
    \/ Discard(a)
    \/ DiscardClose(a)

StopStep(a) == StopLock(a) \/ StopClose(a) \/ StopPublish(a)

WatchStep(a) == WatchReturns(a) \/ WatchPublish(a)

OpStep(o) ==
    \/ \E id \in Ids : OpLook(o, id)
    \/ OpLock(o)
    \/ OpValidate(o)
    \/ OpDone(o)
    \/ SnapshotBegin(o)
    \/ SnapshotDone(o)
    \/ BalloonBegin(o)
    \/ BalloonDone(o)

Next ==
    \/ \E a \in Attempts : StartStep(a) \/ Exit(a) \/ StopStep(a) \/ WatchStep(a)
    \/ \E id \in Ids : ShutdownInstance(id) \/ Reap(id)
    \/ \E o \in Ops : OpStep(o)
    \/ \E c \in Callers : ShutdownAll(c) \/ ShutdownReturns(c) \/ ShutdownTimeout(c)

Spec == Init /\ [][Next]_vars

(* Goroutines of the manager run on; a start goes on once it has booted,   *)
(* and before that once ShutdownAll has canceled its context.  A backend   *)
(* operation under lifecycleMu returns; a snapshot is sure to return only  *)
(* when it is canceled, a balloon request only when the instance is gone.  *)
Fairness ==
    /\ \A a \in Attempts :
          /\ WF_vars(StopStep(a))
          /\ WF_vars(WatchStep(a))
          /\ WF_vars(AbortFinish(a) \/ Register(a) \/ Discard(a) \/ DiscardClose(a))
          /\ WF_vars(closing /\ (ReserveHost(a) \/ Boot(a) \/ BootFails(a)))
    /\ \A o \in Ops :
          /\ WF_vars(OpValidate(o) \/ OpDone(o))
          /\ WF_vars(ops[o].pc = "canceled" /\ SnapshotDone(o))
          /\ WF_vars(BalloonEnds(o))
    /\ \A c \in Callers : WF_vars(ShutdownReturns(c))

FairSpec == Spec /\ Fairness

-----------------------------------------------------------------------------
(* An instance that runs belongs to a registered machine or to a start in  *)
(* progress, so that a stop can reach it.  The exception is an instance    *)
(* whose Close failed while its start gave up: that start has ended and    *)
(* left the maps.                                                          *)
LiveAccounted ==
    \A a \in Attempts : inst[a] = "live" =>
        \/ running[ident[a]] = a
        \/ starting[ident[a]] = a
        \/ phase[a] \in {"discarding", "ended"}

(* ensureNetworkLeaseLocked: two instances that run at the same time never *)
(* have the same address, also when one starts while another one stops,    *)
(* crashes or is retried after a failed Close.                             *)
AddressesDistinct ==
    \A a, b \in Attempts :
        /\ a # b
        /\ inst[a] = "live" /\ phase[a] # "ended"
        /\ inst[b] = "live" /\ phase[b] # "ended"
        /\ addr[a] # 0
        => addr[a] # addr[b]

(* A start that checkCapacityLocked admitted finds a host with room in     *)
(* reserveHost: the two counts, kept under different locks, never disagree *)
(* against the start.                                                      *)
AdmittedFits ==
    \A a \in Attempts : phase[a] = "admitted" => \E h \in 1..Hosts : load[h] < HostMax

(* The start gave up and has closed what it booted, or the Close of a stop *)
(* failed: an instance that runs all the same is one whose Close failed.   *)
CloseFailed(a) ==
    \/ phase[a] \in {"aborting", "ended"}
    \/ stopPc[a] = "err"
    \/ \E n \in 1..Len(stop[a]) : stop[a][n] = "err"

(* placementVMHost counts every instance that boots or runs, on the host   *)
(* it was placed on, although Wait and Close race to give its slot back.   *)
(* The exception is an instance whose Close failed: hostedInstance.Close   *)
(* gives the slot back all the same, so an instance that such a Close left *)
(* running is not counted any more and its host may take one too many.     *)
SlotsCounted ==
    /\ \A a \in Attempts :
          (phase[a] = "booting" \/ inst[a] = "live") /\ ~CloseFailed(a) => place[a] # 0
    /\ \A h \in 1..Hosts :
          Cardinality({a \in Attempts : place[a] = h}) <= load[h] /\ load[h] <= HostMax

(* lockMachineOperation: no operation uses an instance under the lock      *)
(* after a stop has closed it.  Only a stop that failed lets operations    *)
(* back to its machine.                                                    *)
ClosedNeverUsed ==
    \A o \in Ops :
        ops[o].pc \in {"valid", "snapshot", "canceled"} /\ inst[ops[o].on] = "closed" =>
            \E n \in 1..Len(stop[ops[o].on]) : stop[ops[o].on][n] = "err"

(* watch: "An explicit stop owns exit publication": a machine that Close   *)
(* ended is never reported as crashed.                                     *)
ExitHonest ==
    \A id \in Ids : exited[id].status = "crashed" => inst[exited[id].who] = "dead"

(* watch: "A failed Close keeps the machine registered so cleanup can be   *)
(* retried", whenever its instance ends.                                   *)
KeptForRetry ==
    \A a \in Attempts : LastStop(a) = "err" => running[ident[a]] = a

(* When the first ShutdownAll reports success no instance runs, whatever   *)
(* was starting or stopping when it came.  The exceptions are instances    *)
(* whose Close failed in a start that had ended before, or that left no    *)
(* error in cleanupErr.                                                    *)
ShutdownComplete ==
    \A c \in Callers : shut[c].pc = "ok" /\ shut[c].first =>
        \A a \in Attempts : inst[a] = "live" =>
            phase[a] = "ended" /\ ~(a \in shut[c].starts /\ cleanupErr[a])

(* A stop returns, whichever operations use the machine when it begins: a  *)
(* snapshot is canceled and a balloon request does not hold it up.         *)
StopEnds ==
    \A a \in Attempts : stopPc[a] # "idle" ~> stopPc[a] = "idle"

(* ShutdownAll returns without the help of its context.                    *)
ShutdownEnds ==
    \A c \in Callers : shut[c].pc = "waiting" ~> shut[c].pc # "waiting"
=============================================================================
