-------------------------- MODULE VMManagerCallers --------------------------
(***************************************************************************)
(* Proofs about those who use machines and those who end them, for any     *)
(* number of names, starts, operations and callers: no operation uses an   *)
(* instance that a stop has closed unless one of its stops failed, and     *)
(* when the first ShutdownAll succeeds no instance runs.                   *)
(*                                                                         *)
(* ClosedNeverUsed needs, in LInv, who holds lifecycleMu, and that a       *)
(* closed instance stays marked as stopping until an error is published.   *)
(* ShutdownComplete is about what ShutdownAll found when it came: SInv     *)
(* says that a start in progress and a machine that runs after it are      *)
(* among those it waits for, because nothing is admitted or registered     *)
(* while closing (Onward), and MInv that a successful stop has ended its   *)
(* instance.                                                               *)
(*                                                                         *)
(* The lemmas at the end say what every step may do to maps, slots, phases *)
(* and states; VMManagerSlots counts with them.                            *)
(***************************************************************************)
EXTENDS VMManagerProofs

(* One of the machine's stops has failed.                                  *)
HasErr(a) == \E n \in 1..Len(stop[a]) : stop[a][n] = "err"

(* The steps of an operation, and those at which it holds lifecycleMu.     *)
Steps == {"idle", "looked", "locked", "valid", "snapshot", "canceled",
          "balloonLooked", "balloon"}

(* The locks and operations that LInv is about.                            *)
Shape2 ==
    /\ DOMAIN inst = Attempts /\ DOMAIN lifecycle = Attempts
    /\ snapshot \in [Attempts -> Ops \cup {NoOne}]
    /\ ops \in [Ops -> [pc : Steps, on : Attempts \cup {NoOne}]]

(* The operation holds lifecycleMu.                                        *)
Holding(o) == ops[o].pc \in {"locked", "valid", "snapshot", "canceled"}

(* An operation is about a registered machine, and holds its lock from     *)
(* "locked" on, as a stop does while it calls Close.                       *)
Locks ==
    /\ \A o \in Ops : ops[o].pc # "idle" =>
          ops[o].on \in Attempts /\ phase[ops[o].on] = "registered"
    /\ \A o \in Ops : Holding(o) => lifecycle[ops[o].on] = o
    /\ \A a \in Attempts : stopPc[a] = "close" => lifecycle[a] = a

(* Only a snapshot can be canceled.                                        *)
Cancelable ==
    \A a \in Attempts : snapshot[a] # NoOne =>
        ops[snapshot[a]].pc \in {"snapshot", "canceled"} /\ ops[snapshot[a]].on = a

(* What a stop has closed stays marked as stopping, or has an error.       *)
Closed ==
    \A a \in Attempts : inst[a] = "closed" =>
        /\ phase[a] # "booted"
        /\ phase[a] = "registered" => stopping[a] \/ HasErr(a)

(* What an operation under lifecycleMu relies on.                          *)
LInv == Shape2 /\ Locks /\ Cancelable /\ Closed /\ ClosedNeverUsed

(* ShutdownAll waits for what it found: a start that is in progress after  *)
(* it, a machine that runs after it.                                       *)
Found(c) ==
    /\ closing
    /\ \A a \in Attempts : phase[a] \in Pending \cup {"discarding"} => a \in shut[c].starts
    /\ \A a \in Attempts : phase[a] = "registered" /\ inst[a] = "live" =>
         \E n \in 1..MaxStops : <<a, n>> \in shut[c].stops

(* ShutdownAll has seen the end of all it found, and no error.             *)
Clean(c) ==
    /\ \A a \in shut[c].starts : StartDone(a) /\ ~cleanupErr[a]
    /\ \A s \in shut[c].stops : stop[s[1]][s[2]] = "ok"

(* What a caller of ShutdownAll knows while it waits and when it returns.  *)
WellShut(c) ==
    /\ \A s \in shut[c].stops : s[2] <= Len(stop[s[1]])
    /\ shut[c].pc # "idle" => closing
    /\ shut[c].pc \in {"waiting", "ok"} /\ shut[c].first => Found(c)
    /\ shut[c].pc = "ok" => Clean(c)

(* The type of the callers, and the bound on the stops of a machine.       *)
ShutShape ==
    shut \in [Callers -> [pc : {"idle", "waiting", "ok", "error"},
                          stops : SUBSET (Attempts \X (1..MaxStops)),
                          starts : SUBSET Attempts,
                          first : BOOLEAN]]
(* A machine is stopped at most MaxStops times.                            *)
Bounded == \A a \in Attempts : Len(stop[a]) <= MaxStops

(* What ShutdownAll relies on.                                             *)
SInv == ShutShape /\ Bounded /\ DOMAIN cleanupErr = Attempts /\ \A c \in Callers : WellShut(c)

-----------------------------------------------------------------------------
(* LInv, step by step.                                                     *)

(* No operation has begun.                                                 *)
LEMMA LInit == ASSUME Init PROVE LInv
<1>1. Shape2
  <2>1. [pc |-> "idle", on |-> NoOne] \in [pc : Steps, on : Attempts \cup {NoOne}]
    BY Zenon DEF Steps
  <2> QED
    BY <2>1, Zenon DEF Init, Shape2, Idle
<1>2. \A o \in Ops : ops[o].pc = "idle"
  BY Zenon DEF Init, Idle
<1>3. Locks /\ Cancelable /\ Closed /\ ClosedNeverUsed
  BY <1>2, Zenon DEF Init, Locks, Holding, Cancelable, Closed, ClosedNeverUsed
<1> QED
  BY <1>1, <1>3, Zenon DEF LInv

(* Steps of starts, exits and stops that leave operations and locks alone. *)
LEMMA LApart ==
    ASSUME LInv, UNCHANGED <<ops, lifecycle, snapshot>>, DOMAIN inst' = Attempts,
           \A a \in Attempts : phase[a] = "registered" => phase'[a] = "registered",
           \A a \in Attempts : inst'[a] = "closed" /\ phase'[a] \in {"booted", "registered"} =>
                               inst[a] = "closed" /\ phase'[a] = phase[a],
           \A a \in Attempts : stopPc'[a] = "close" => stopPc[a] = "close",
           \A a \in Attempts : HasErr(a) => HasErr(a)',
           \A a \in Attempts : stopping[a] => stopping'[a] \/ HasErr(a)'
    PROVE  LInv'
<1>1. Shape2'
  BY Zenon DEF LInv, Shape2
<1>2. Locks'
  BY Zenon DEF LInv, Locks, Holding
<1>3. Cancelable'
  BY Zenon DEF LInv, Cancelable
<1>4. Closed'
  BY Zenon DEF LInv, Closed
<1>5. ClosedNeverUsed'
  <2> SUFFICES ASSUME NEW o \in Ops, ops[o].pc \in {"valid", "snapshot", "canceled"},
                      inst'[ops[o].on] = "closed"
               PROVE  HasErr(ops[o].on)'
    BY Zenon DEF ClosedNeverUsed, HasErr
  <2>1. ops[o].on \in Attempts /\ phase[ops[o].on] = "registered"
    BY Zenon DEF LInv, Locks
  <2>2. inst[ops[o].on] = "closed"
    BY <2>1, Zenon
  <2>3. HasErr(ops[o].on)
    BY <2>2, Zenon DEF LInv, ClosedNeverUsed, HasErr
  <2> QED
    BY <2>1, <2>3, Zenon
<1> QED
  BY <1>1, <1>2, <1>3, <1>4, <1>5, Zenon DEF LInv

(* Steps of one operation.                                                 *)
LEMMA LOp ==
    ASSUME LInv, VMAssumption, NEW o \in Ops,
           UNCHANGED <<inst, phase, stop, stopping, stopPc>>,
           NEW r \in [pc : Steps, on : Attempts \cup {NoOne}],
           ops' = [ops EXCEPT ![o] = r],
           r.pc # "idle" => r.on \in Attempts /\ phase[r.on] = "registered",
           r.pc \in {"locked", "valid", "snapshot", "canceled"} => lifecycle'[r.on] = o,
           DOMAIN lifecycle' = Attempts,
           \A a \in Attempts : lifecycle'[a] = lifecycle[a] \/ lifecycle[a] \in {o, NoOne},
           snapshot' \in [Attempts -> Ops \cup {NoOne}],
           \A a \in Attempts : snapshot'[a] # NoOne =>
              \/ snapshot'[a] = o /\ r.pc \in {"snapshot", "canceled"} /\ r.on = a
              \/ snapshot'[a] = snapshot[a] /\ snapshot[a] # o,
           r.pc \in {"valid", "snapshot", "canceled"} /\ inst[r.on] = "closed" => HasErr(r.on)
    PROVE  LInv'
<1>0. /\ ops' \in [Ops -> [pc : Steps, on : Attempts \cup {NoOne}]] /\ ops'[o] = r
      /\ \A p \in Ops : p # o => ops'[p] = ops[p]
  BY Zenon DEF LInv, Shape2
<1>1. Shape2'
  BY <1>0, Zenon DEF LInv, Shape2
<1>2. Locks'
  <2>1. \A p \in Ops : ops'[p].pc # "idle" =>
          ops'[p].on \in Attempts /\ phase[ops'[p].on] = "registered"
    BY <1>0, ZenonT(60) DEF LInv, Locks
  <2>2. \A p \in Ops : Holding(p)' => lifecycle'[ops'[p].on] = p
    <3> SUFFICES ASSUME NEW p \in Ops, Holding(p)'
                 PROVE  lifecycle'[ops'[p].on] = p
      BY Zenon
    <3>1. CASE p = o
      BY <1>0, <3>1, Zenon DEF Holding
    <3>2. CASE p # o
      <4>1. ops'[p] = ops[p] /\ Holding(p)
        BY <1>0, <3>2, Zenon DEF Holding
      <4>2. ops[p].on \in Attempts /\ lifecycle[ops[p].on] = p
        BY <4>1, Zenon DEF LInv, Locks, Holding
      <4>3. p \notin {o, NoOne}
        BY <3>2, Zenon DEF VMAssumption
      <4> QED
        BY <4>1, <4>2, <4>3, Zenon
    <3> QED
      BY <3>1, <3>2, Zenon
  <2>3. \A a \in Attempts : stopPc'[a] = "close" => lifecycle'[a] = a
    <3>1. \A a \in Attempts : a \notin {o, NoOne}
      BY ZenonT(60) DEF VMAssumption
    <3>2. \A a \in Attempts : stopPc[a] = "close" => lifecycle[a] = a
      BY Zenon DEF LInv, Locks
    <3> QED
      BY <3>1, <3>2, ZenonT(60)
  <2> QED
    BY <2>1, <2>2, <2>3, Zenon DEF Locks
<1>3. Cancelable'
  <2> SUFFICES ASSUME NEW a \in Attempts, snapshot'[a] # NoOne
               PROVE  /\ ops'[snapshot'[a]].pc \in {"snapshot", "canceled"}
                      /\ ops'[snapshot'[a]].on = a
    BY Zenon DEF Cancelable
  <2>1. CASE snapshot'[a] = o /\ r.pc \in {"snapshot", "canceled"} /\ r.on = a
    BY <1>0, <2>1, Zenon
  <2>2. CASE snapshot'[a] = snapshot[a] /\ snapshot[a] # o
    <3>1. snapshot[a] \in Ops /\ snapshot[a] # NoOne
      BY <2>2, Zenon DEF LInv, Shape2
    <3>2. ops'[snapshot[a]] = ops[snapshot[a]]
      BY <1>0, <2>2, <3>1, Zenon
    <3> QED
      BY <2>2, <3>1, <3>2 DEF LInv, Cancelable
  <2> QED
    BY <2>1, <2>2, Zenon
<1>4. \A a \in Attempts : HasErr(a)' <=> HasErr(a)
  BY Zenon DEF HasErr
<1>5. Closed'
  BY <1>4, Zenon DEF LInv, Closed
<1>6. ClosedNeverUsed'
  <2> SUFFICES ASSUME NEW p \in Ops, ops'[p].pc \in {"valid", "snapshot", "canceled"},
                      inst[ops'[p].on] = "closed"
               PROVE  \E n \in 1..Len(stop[ops'[p].on]) : stop[ops'[p].on][n] = "err"
    BY Zenon DEF ClosedNeverUsed
  <2>1. CASE p = o
    BY <1>0, <2>1, Zenon DEF HasErr
  <2>2. CASE p # o
    BY <1>0, <2>2, ZenonT(60) DEF LInv, ClosedNeverUsed
  <2> QED
    BY <2>1, <2>2, Zenon
<1> QED
  BY <1>1, <1>2, <1>3, <1>5, <1>6, Zenon DEF LInv

(* beginMachineStopLocked cancels a snapshot and marks the machine.        *)
LEMMA LBegin ==
    ASSUME LInv, KInv, VMAssumption, NEW S, S \subseteq Attempts, BeginStops(S),
           UNCHANGED <<inst, phase, lifecycle, snapshot>>
    PROVE  LInv'
<1>1. \A a \in Attempts :
        \/ /\ stop'[a] = stop[a] /\ stopPc'[a] = stopPc[a]
           /\ stopping'[a] <=> stopping[a]
        \/ /\ stopPc'[a] = "lock" /\ stopping'[a]
           /\ stop'[a] = Append(stop[a], "pending")
  BY Begins, Zenon DEF KInv
<1>2. \A a \in Attempts : HasErr(a) => HasErr(a)'
  <2> SUFFICES ASSUME NEW a \in Attempts, stop'[a] = Append(stop[a], "pending"), HasErr(a)
               PROVE  HasErr(a)'
    BY <1>1, Zenon DEF HasErr
  <2>1. stop[a] \in Seq(Outcomes) /\ "pending" \in Outcomes
    BY Zenon DEF KInv, Shape, Outcomes
  <2>2. /\ Len(stop'[a]) = Len(stop[a]) + 1 /\ Len(stop[a]) \in Nat
        /\ \A n \in 1..Len(stop[a]) : stop'[a][n] = stop[a][n]
    BY <2>1, Appended
  <2>3. 1..Len(stop[a]) \subseteq 1..Len(stop'[a])
    BY <2>2
  <2> QED
    BY <2>2, <2>3, Zenon DEF HasErr
<1>3. \A a \in Attempts : /\ stopping[a] => stopping'[a]
                          /\ stopPc'[a] = "close" => stopPc[a] = "close"
  BY <1>1, Zenon
<1>4. /\ ops' \in [Ops -> [pc : Steps, on : Attempts \cup {NoOne}]]
      /\ \A o \in Ops : \/ ops'[o] = ops[o]
                        \/ /\ ops'[o].pc = "canceled" /\ ops'[o].on = ops[o].on
                           /\ ops[o].pc \in {"snapshot", "canceled"}
  <2>1. \A a \in Attempts : snapshot[a] \in Ops => ops[snapshot[a]].pc \in {"snapshot", "canceled"}
    BY Zenon DEF LInv, Cancelable, VMAssumption
  <2>2. \A o \in Ops : ops[o] \in [pc : Steps, on : Attempts \cup {NoOne}]
    BY Zenon DEF LInv, Shape2
  <2>3. PICK F \in SUBSET Attempts :
          ops' = [o \in Ops |-> IF o \in {snapshot[a] : a \in F}
                                THEN [ops[o] EXCEPT !.pc = "canceled"] ELSE ops[o]]
    <3>1. {a \in S : LastStop(a) \in {"none", "err"}} \in SUBSET Attempts
      OBVIOUS
    <3> QED
      BY <3>1, Zenon DEF BeginStops
  <2>4. \A o \in Ops : [ops[o] EXCEPT !.pc = "canceled"] \in [pc : Steps, on : Attempts \cup {NoOne}]
    BY <2>2, Zenon DEF Steps
  <2>5. \A o \in Ops : /\ [ops[o] EXCEPT !.pc = "canceled"].pc = "canceled"
                      /\ [ops[o] EXCEPT !.pc = "canceled"].on = ops[o].on
    BY <2>2, Zenon
  <2>6. \A o \in {snapshot[a] : a \in F} : o \in Ops => ops[o].pc \in {"snapshot", "canceled"}
    BY <2>1, Zenon
  <2> QED
    BY <2>2, <2>3, <2>4, <2>5, <2>6, Zenon
<1>5. Shape2'
  BY <1>4, Zenon DEF LInv, Shape2
<1>6. Locks'
  BY <1>3, <1>4 DEF LInv, Locks, Holding
<1>7. Cancelable'
  <2>1. \A a \in Attempts : snapshot[a] # NoOne => snapshot[a] \in Ops
    BY Zenon DEF LInv, Shape2
  <2> QED
    BY <1>4, <2>1, Zenon DEF LInv, Cancelable
<1>8. Closed'
  BY <1>2, <1>3, Zenon DEF LInv, Closed
<1>9. ClosedNeverUsed'
  <2> SUFFICES ASSUME NEW o \in Ops, ops'[o].pc \in {"valid", "snapshot", "canceled"},
                      inst[ops'[o].on] = "closed"
               PROVE  \E n \in 1..Len(stop'[ops'[o].on]) : stop'[ops'[o].on][n] = "err"
    BY Zenon DEF ClosedNeverUsed
  <2>1. ops[o].pc \in {"valid", "snapshot", "canceled"} /\ ops'[o].on = ops[o].on
    BY <1>4, Zenon
  <2>2. ops[o].on \in Attempts /\ HasErr(ops[o].on)
    BY <2>1, Zenon DEF LInv, Locks, ClosedNeverUsed, HasErr
  <2>3. PICK a \in Attempts : a = ops[o].on
    BY <2>2, Zenon
  <2>4. HasErr(a)'
    BY <1>2, <2>2, <2>3, Zenon
  <2> QED
    BY <2>1, <2>3, <2>4, Zenon DEF HasErr
<1> QED
  BY <1>5, <1>6, <1>7, <1>8, <1>9, Zenon DEF LInv

(* StartInstanceStream: what is closed before it is registered never is.   *)
LEMMA LStart ==
    ASSUME LInv, KInv, NEW a \in Attempts, StartStep(a)
    PROVE  LInv'
<1>1. UNCHANGED <<ops, lifecycle, snapshot, stop, stopping, stopPc>>
  BY Zenon DEF StartStep, Admit, ReserveHost, Boot, BootFails, AbortClose, AbortFinish,
     Register, Discard, DiscardClose, machine, locks
<1>2. PICK p \in {"admitted", "booting", "booted", "aborting", "registered", "discarding", "ended"} :
        /\ phase' = [phase EXCEPT ![a] = p]
        /\ p = "booted" => inst' = [inst EXCEPT ![a] = "live"]
        /\ p = "registered" => UNCHANGED inst /\ phase[a] = "booted"
  BY Zenon DEF StartStep, Admit, ReserveHost, Boot, BootFails, AbortClose, AbortFinish,
     Register, Discard, DiscardClose, FinishStart
<1>3. phase[a] # "registered"
  BY Zenon DEF StartStep, Admit, ReserveHost, Boot, BootFails, AbortClose, AbortFinish,
     Register, Discard, DiscardClose
<1>4. PICK now : UNCHANGED inst \/ inst' = [inst EXCEPT ![a] = now]
  BY Zenon DEF StartStep, Admit, ReserveHost, Boot, BootFails, AbortClose, AbortFinish,
     Register, Discard, DiscardClose, CloseInstance
<1>5. /\ DOMAIN inst' = Attempts
      /\ \A b \in Attempts : b # a => inst'[b] = inst[b] /\ phase'[b] = phase[b]
      /\ phase'[a] = p
  BY <1>2, <1>4, Zenon DEF LInv, Shape2, KInv, Shape
<1>6. inst'[a] = "closed" => p \notin {"booted", "registered"}
  BY <1>2, Zenon DEF LInv, Shape2, Closed
<1>7. \A b \in Attempts : phase[b] = "registered" => phase'[b] = "registered"
  BY <1>3, <1>5, Zenon
<1>8. \A b \in Attempts : inst'[b] = "closed" /\ phase'[b] \in {"booted", "registered"} =>
                          inst[b] = "closed" /\ phase'[b] = phase[b]
  BY <1>5, <1>6, Zenon
<1>9. \A b \in Attempts : HasErr(b) => HasErr(b)'
  BY <1>1, Zenon DEF HasErr
<1> QED
  BY <1>1, <1>5, <1>7, <1>8, <1>9, LApart, Zenon

(* Steps that move neither starts nor stops.                               *)
LEMMA LQuiet ==
    ASSUME LInv, UNCHANGED <<ops, lifecycle, snapshot, phase, stop, stopping, stopPc, inst>>
    PROVE  LInv'
<1>1. Shape2' /\ Cancelable'
  BY Zenon DEF LInv, Shape2, Cancelable
<1>2. Locks'
  BY Zenon DEF LInv, Locks, Holding
<1>3. Closed'
  BY Zenon DEF LInv, Closed, HasErr
<1>4. ClosedNeverUsed'
  BY Zenon DEF LInv, ClosedNeverUsed
<1> QED
  BY <1>1, <1>2, <1>3, <1>4, Zenon DEF LInv

(* An instance that ends by itself is not closed.                          *)
LEMMA LExit ==
    ASSUME LInv, NEW a \in Attempts, Exit(a)
    PROVE  LInv'
<1>1. UNCHANGED <<ops, lifecycle, snapshot, phase, stop, stopping, stopPc>>
  BY Zenon DEF Exit, starts, machine, locks
<1>2. /\ DOMAIN inst' = Attempts
      /\ \A b \in Attempts : inst'[b] = "closed" => inst[b] = "closed"
  BY Zenon DEF Exit, LInv, Shape2
<1>3. \A b \in Attempts : HasErr(b) => HasErr(b)'
  BY <1>1, Zenon DEF HasErr
<1> QED
  BY <1>1, <1>2, <1>3, LApart, Zenon

(* runMachineStop publishes: an error takes the place of stopping.         *)
LEMMA LPublish ==
    ASSUME LInv, KInv, NEW a \in Attempts, StopPublish(a)
    PROVE  LInv'
<1>1. UNCHANGED <<ops, lifecycle, snapshot, phase, inst>> /\ DOMAIN inst' = Attempts
  BY Zenon DEF StopPublish, starts, locks, LInv, Shape2
<1>2. /\ stop[a] # << >> /\ stop[a][Len(stop[a])] = "pending" /\ stop[a] \in Seq(Outcomes)
      /\ Len(stop'[a]) = Len(stop[a]) /\ stop'[a][Len(stop[a])] = stopPc[a]
      /\ \A n \in 1..Len(stop[a]) : n # Len(stop[a]) => stop'[a][n] = stop[a][n]
      /\ \A b \in Attempts : b # a => stop'[b] = stop[b]
  BY Publishes, Zenon DEF KInv, Shape
<1>3. \A b \in Attempts : HasErr(b) => HasErr(b)'
  <2>1. HasErr(a) => HasErr(a)'
    <3> SUFFICES ASSUME NEW n \in 1..Len(stop[a]), stop[a][n] = "err"
                 PROVE  n \in 1..Len(stop'[a]) /\ stop'[a][n] = "err"
      BY Zenon DEF HasErr
    <3>1. n # Len(stop[a])
      BY <1>2, Zenon
    <3> QED
      BY <1>2, <3>1, Zenon
  <2> QED
    BY <1>2, <2>1, Zenon DEF HasErr
<1>4. \A b \in Attempts : stopPc'[b] = "close" => stopPc[b] = "close"
  BY Zenon DEF StopPublish, KInv, Shape
<1>5. \A b \in Attempts : stopping[b] => stopping'[b] \/ HasErr(b)'
  <2>1. CASE StopSucceeded(a)
    BY <2>1, Zenon DEF StopPublish
  <2>2. CASE ~StopSucceeded(a)
    <3>1. stopPc[a] = "err" /\ stopping' = [stopping EXCEPT ![a] = FALSE]
      BY <2>2, Zenon DEF StopPublish, StopSucceeded
    <3>2. Len(stop[a]) \in 1..Len(stop'[a])
      BY <1>2
    <3>3. HasErr(a)'
      BY <1>2, <3>1, <3>2, Zenon DEF HasErr
    <3>4. \A b \in Attempts : b # a => stopping'[b] = stopping[b]
      BY <3>1, Zenon DEF KInv, Shape
    <3> QED
      BY <3>3, <3>4, Zenon
  <2> QED
    BY <2>1, <2>2, Zenon
<1> QED
  BY <1>1, <1>3, <1>4, <1>5, LApart, Zenon

(* runMachineStop takes lifecycleMu when no operation holds it, and gives  *)
(* it back after Close.                                                    *)
LEMMA LStop ==
    ASSUME LInv, KInv, VMAssumption, NEW a \in Attempts, StopLock(a) \/ StopClose(a)
    PROVE  LInv'
<1>1. UNCHANGED <<ops, snapshot, phase, stop, stopping>>
  BY Zenon DEF StopLock, StopClose, starts
<1>2. \A o \in Ops : Holding(o) => ops[o].on # a
  <2> SUFFICES ASSUME NEW o \in Ops, Holding(o), ops[o].on = a
               PROVE  FALSE
    OBVIOUS
  <2>1. lifecycle[a] = o
    BY Zenon DEF LInv, Locks
  <2>2. o # NoOne /\ o # a
    BY Zenon DEF VMAssumption
  <2>3. lifecycle[a] \in {a, NoOne}
    BY Zenon DEF StopLock, StopClose, LInv, Locks
  <2> QED
    BY <2>1, <2>2, <2>3, Zenon
<1>3. /\ DOMAIN lifecycle' = Attempts
      /\ \A b \in Attempts : b # a => lifecycle'[b] = lifecycle[b] /\ stopPc'[b] = stopPc[b]
      /\ stopPc'[a] = "close" => lifecycle'[a] = a
  BY Zenon DEF StopLock, StopClose, LInv, Shape2, KInv, Shape
<1>4. /\ DOMAIN inst' = Attempts
      /\ \A b \in Attempts : b # a => inst'[b] = inst[b]
  BY ZenonT(60) DEF StopLock, StopClose, CloseInstance, LInv, Shape2
<1>5. stopping[a] /\ phase[a] = "registered"
  <2>1. stopPc[a] # "idle" /\ LastStop(a) # "none"
    BY Zenon DEF StopLock, StopClose, KInv, InProgress
  <2> QED
    BY <2>1, Zenon DEF KInv, InProgress, OnlyRegistered, LastStop
<1>6. Shape2'
  BY <1>1, <1>3, <1>4, Zenon DEF LInv, Shape2
<1>7. Locks'
  <2>1. \A o \in Ops : ops'[o].pc # "idle" =>
          ops'[o].on \in Attempts /\ phase'[ops'[o].on] = "registered"
    BY <1>1, Zenon DEF LInv, Locks
  <2>2. \A o \in Ops : Holding(o)' => lifecycle'[ops'[o].on] = o
    <3> SUFFICES ASSUME NEW o \in Ops, Holding(o)
                 PROVE  lifecycle'[ops[o].on] = o
      BY <1>1, Zenon DEF Holding
    <3>1. ops[o].on \in Attempts /\ lifecycle[ops[o].on] = o
      BY Zenon DEF LInv, Locks, Holding
    <3> QED
      BY <1>2, <1>3, <3>1, Zenon
  <2>3. \A b \in Attempts : stopPc'[b] = "close" => lifecycle'[b] = b
    <3> SUFFICES ASSUME NEW b \in Attempts, stopPc'[b] = "close"
                 PROVE  lifecycle'[b] = b
      BY Zenon
    <3>1. CASE b = a
      BY <1>3, <3>1, Zenon
    <3>2. CASE b # a
      BY <1>3, <3>2, Zenon DEF LInv, Locks
    <3> QED
      BY <3>1, <3>2, Zenon
  <2> QED
    BY <2>1, <2>2, <2>3, Zenon DEF Locks
<1>8. Cancelable'
  BY <1>1, Zenon DEF LInv, Cancelable
<1>9. Closed'
  <2>1. \A b \in Attempts : HasErr(b)' <=> HasErr(b)
    BY <1>1, Zenon DEF HasErr
  <2>2. phase[a] # "booted"
    BY <1>5, Zenon
  <2> QED
    BY <1>1, <1>4, <1>5, <2>1, <2>2, Zenon DEF LInv, Closed
<1>10. ClosedNeverUsed'
  <2> SUFFICES ASSUME NEW o \in Ops, ops[o].pc \in {"valid", "snapshot", "canceled"},
                      inst'[ops[o].on] = "closed"
               PROVE  \E n \in 1..Len(stop[ops[o].on]) : stop[ops[o].on][n] = "err"
    BY <1>1, Zenon DEF ClosedNeverUsed
  <2>1. Holding(o) /\ ops[o].on \in Attempts
    BY Zenon DEF Holding, LInv, Locks
  <2>2. inst[ops[o].on] = "closed"
    BY <1>2, <1>4, <2>1, Zenon
  <2> QED
    BY <2>2, Zenon DEF LInv, ClosedNeverUsed
<1> QED
  BY <1>6, <1>7, <1>8, <1>9, <1>10, Zenon DEF LInv

(* Only an operation in its snapshot can be canceled.                      *)
LEMMA NotCancelable ==
    ASSUME LInv, VMAssumption, NEW o \in Ops, ops[o].pc \notin {"snapshot", "canceled"}
    PROVE  \A a \in Attempts : snapshot[a] # o
<1>1. o # NoOne
  BY Zenon DEF VMAssumption
<1> QED
  BY <1>1, Zenon DEF LInv, Cancelable

(* An operation goes from one step to the next about the same machine.     *)
LEMMA LOpMoves ==
    ASSUME LInv, VMAssumption, NEW o \in Ops, NEW q \in Steps,
           UNCHANGED <<inst, phase, stop, stopping, stopPc>>,
           ops[o].pc # "idle", ops' = [ops EXCEPT ![o].pc = q],
           q \in {"locked", "valid", "snapshot", "canceled"} => lifecycle'[ops[o].on] = o,
           DOMAIN lifecycle' = Attempts,
           \A a \in Attempts : lifecycle'[a] = lifecycle[a] \/ lifecycle[a] \in {o, NoOne},
           snapshot' \in [Attempts -> Ops \cup {NoOne}],
           \A a \in Attempts : snapshot'[a] # NoOne =>
              \/ snapshot'[a] = o /\ q \in {"snapshot", "canceled"} /\ ops[o].on = a
              \/ snapshot'[a] = snapshot[a] /\ snapshot[a] # o,
           q \in {"valid", "snapshot", "canceled"} /\ inst[ops[o].on] = "closed" =>
              HasErr(ops[o].on)
    PROVE  LInv'
<1>1. ops[o] \in [pc : Steps, on : Attempts \cup {NoOne}]
  BY Zenon DEF LInv, Shape2
<1>2. PICK r \in [pc : Steps, on : Attempts \cup {NoOne}] :
        r = [pc |-> q, on |-> ops[o].on]
  BY <1>1, Zenon
<1>3. r.pc = q /\ r.on = ops[o].on
  BY <1>2, Zenon
<1>4. ops' = [ops EXCEPT ![o] = r]
  <2>1. [ops[o] EXCEPT !.pc = q] = r
    BY <1>1, <1>2
  <2> QED
    BY <2>1, Zenon DEF LInv, Shape2
<1>5. r.on \in Attempts /\ phase[r.on] = "registered"
  BY <1>3, Zenon DEF LInv, Locks
<1>6. r.pc \in {"locked", "valid", "snapshot", "canceled"} => lifecycle'[r.on] = o
  BY <1>3, Zenon
<1>7. \A a \in Attempts : snapshot'[a] # NoOne =>
        \/ snapshot'[a] = o /\ r.pc \in {"snapshot", "canceled"} /\ r.on = a
        \/ snapshot'[a] = snapshot[a] /\ snapshot[a] # o
  BY <1>3, Zenon
<1>8. r.pc \in {"valid", "snapshot", "canceled"} /\ inst[r.on] = "closed" => HasErr(r.on)
  BY <1>3, Zenon DEF HasErr
<1> QED
  BY <1>4, <1>5, <1>6, <1>7, <1>8, LOp, ZenonT(60)

(* An operation returns.                                                   *)
LEMMA LOpEnds ==
    ASSUME LInv, VMAssumption, NEW o \in Ops,
           UNCHANGED <<inst, phase, stop, stopping, stopPc>>,
           ops' = [ops EXCEPT ![o] = Idle],
           DOMAIN lifecycle' = Attempts,
           \A a \in Attempts : lifecycle'[a] = lifecycle[a] \/ lifecycle[a] \in {o, NoOne},
           snapshot' \in [Attempts -> Ops \cup {NoOne}],
           \A a \in Attempts : snapshot'[a] # NoOne =>
              snapshot'[a] = snapshot[a] /\ snapshot[a] # o
    PROVE  LInv'
<1>1. /\ Idle \in [pc : Steps, on : Attempts \cup {NoOne}]
      /\ Idle.pc = "idle"
  BY Zenon DEF Idle, Steps
<1>2. "idle" \notin {"locked", "valid", "snapshot", "canceled"}
  OBVIOUS
<1>3. PICK r \in [pc : Steps, on : Attempts \cup {NoOne}] : r = Idle /\ r.pc = "idle"
  BY <1>1, Zenon
<1> QED
  BY <1>2, <1>3, LOp, ZenonT(60)

(* SnapshotRootFS, lockMachineOperation and SetInstanceBalloon.            *)
LEMMA LOpStep ==
    ASSUME LInv, KInv, VMAssumption, NEW o \in Ops, OpStep(o)
    PROVE  LInv'
<1>0. UNCHANGED <<inst, phase, stop, stopping, stopPc>>
  BY Zenon DEF OpStep, OpLook, OpLock, OpValidate, OpDone, SnapshotBegin, SnapshotDone,
     BalloonBegin, BalloonDone, starts, machine
<1>1. /\ DOMAIN lifecycle = Attempts /\ snapshot \in [Attempts -> Ops \cup {NoOne}]
      /\ ops[o].pc # "idle" => ops[o].on \in Attempts
      /\ Holding(o) => lifecycle[ops[o].on] = o
  BY Zenon DEF LInv, Shape2, Locks
<1>2. ASSUME NEW id \in Ids, OpLook(o, id) PROVE LInv'
  <2>1. PICK pc \in {"looked", "balloonLooked"} :
          /\ ops[o].pc = "idle" /\ running[id] # NoOne
          /\ ops' = [ops EXCEPT ![o] = [pc |-> pc, on |-> running[id]]]
          /\ UNCHANGED <<lifecycle, snapshot>>
    BY <1>2, Zenon DEF OpLook, locks
  <2>2. running[id] \in Attempts /\ phase[running[id]] = "registered"
    BY <2>1, Zenon DEF KInv, Shape, Owner
  <2>3. PICK r \in [pc : Steps, on : Attempts \cup {NoOne}] :
          r = [pc |-> pc, on |-> running[id]]
    <3>1. pc \in Steps
      BY Zenon DEF Steps
    <3> QED
      BY <2>2, <3>1, Zenon
  <2>4. r.pc = pc /\ r.on = running[id]
    BY <2>3, Zenon
  <2>5. ops' = [ops EXCEPT ![o] = r]
    BY <2>1, <2>3, Zenon
  <2>6. /\ r.on \in Attempts /\ phase[r.on] = "registered"
        /\ r.pc \notin {"locked", "valid", "snapshot", "canceled"}
        /\ r.pc \notin {"valid", "snapshot", "canceled"}
    BY <2>2, <2>4, Zenon
  <2>7. \A a \in Attempts : snapshot[a] # o
    BY <2>1, NotCancelable, Zenon
  <2>8. /\ DOMAIN lifecycle' = Attempts /\ snapshot' \in [Attempts -> Ops \cup {NoOne}]
        /\ \A a \in Attempts : lifecycle'[a] = lifecycle[a]
        /\ \A a \in Attempts : snapshot'[a] = snapshot[a] /\ snapshot[a] # o
    BY <1>1, <2>1, <2>7, Zenon
  <2>9. /\ r.pc # "idle" => r.on \in Attempts /\ phase[r.on] = "registered"
        /\ r.pc \in {"locked", "valid", "snapshot", "canceled"} => lifecycle'[r.on] = o
        /\ r.pc \in {"valid", "snapshot", "canceled"} /\ inst[r.on] = "closed" => HasErr(r.on)
    BY <2>6, Zenon
  <2>10. /\ \A a \in Attempts : lifecycle'[a] = lifecycle[a] \/ lifecycle[a] \in {o, NoOne}
         /\ \A a \in Attempts : snapshot'[a] # NoOne =>
              \/ snapshot'[a] = o /\ r.pc \in {"snapshot", "canceled"} /\ r.on = a
              \/ snapshot'[a] = snapshot[a] /\ snapshot[a] # o
    BY <2>8, Zenon
  <2> QED
    BY <1>0, <2>5, <2>8, <2>9, <2>10, LOp, Zenon
<1>3. CASE OpLock(o)
  <2>1. /\ ops[o].pc = "looked" /\ lifecycle[ops[o].on] = NoOne
        /\ lifecycle' = [lifecycle EXCEPT ![ops[o].on] = o]
        /\ ops' = [ops EXCEPT ![o].pc = "locked"] /\ UNCHANGED snapshot
    BY <1>3, Zenon DEF OpLock
  <2>2. \A a \in Attempts : snapshot[a] # o
    BY <2>1, NotCancelable, Zenon
  <2>3. /\ lifecycle'[ops[o].on] = o /\ DOMAIN lifecycle' = Attempts
        /\ \A a \in Attempts : lifecycle'[a] = lifecycle[a] \/ lifecycle[a] \in {o, NoOne}
    BY <1>1, <2>1, Zenon
  <2>4. "locked" \in Steps /\ "locked" \notin {"valid", "snapshot", "canceled"} /\ ops[o].pc # "idle"
    BY <2>1, Zenon DEF Steps
  <2> QED
    BY <1>0, <1>1, <2>1, <2>2, <2>3, <2>4, LOpMoves, Zenon
<1>4. CASE OpValidate(o)
  <2>1. /\ ops[o].pc = "locked" /\ lifecycle[ops[o].on] = o /\ ops[o].on \in Attempts
        /\ \A a \in Attempts : snapshot[a] # o
    BY <1>1, <1>4, NotCancelable, Zenon DEF OpValidate, Holding
  <2>2. CASE Usable(ops[o].on)
    <3>1. ops' = [ops EXCEPT ![o].pc = "valid"] /\ UNCHANGED <<lifecycle, snapshot>>
      BY <1>4, <2>2, Zenon DEF OpValidate
    <3>2. inst[ops[o].on] = "closed" => HasErr(ops[o].on)
      BY <2>1, <2>2, Zenon DEF Usable, LInv, Closed, Locks
    <3>3. "valid" \in Steps /\ ops[o].pc # "idle"
      BY <2>1, Zenon DEF Steps
    <3> QED
      BY <1>0, <1>1, <2>1, <3>1, <3>2, <3>3, LOpMoves, Zenon
  <2>3. CASE ~Usable(ops[o].on)
    <3>1. /\ ops' = [ops EXCEPT ![o] = Idle] /\ UNCHANGED snapshot
          /\ lifecycle' = [lifecycle EXCEPT ![ops[o].on] = NoOne]
      BY <1>4, <2>3, Zenon DEF OpValidate
    <3>2. /\ DOMAIN lifecycle' = Attempts
          /\ \A a \in Attempts : lifecycle'[a] = lifecycle[a] \/ lifecycle[a] \in {o, NoOne}
      BY <1>1, <2>1, <3>1, Zenon
    <3> QED
      BY <1>0, <1>1, <2>1, <3>1, <3>2, LOpEnds, Zenon
  <2> QED
    BY <2>2, <2>3, Zenon
<1>5. CASE OpDone(o)
  <2>1. /\ ops[o].pc = "valid" /\ lifecycle[ops[o].on] = o /\ ops[o].on \in Attempts
        /\ \A a \in Attempts : snapshot[a] # o
    BY <1>1, <1>5, NotCancelable, Zenon DEF OpDone, Holding
  <2>2. /\ ops' = [ops EXCEPT ![o] = Idle] /\ UNCHANGED snapshot
        /\ lifecycle' = [lifecycle EXCEPT ![ops[o].on] = NoOne]
    BY <1>5, Zenon DEF OpDone
  <2>3. /\ DOMAIN lifecycle' = Attempts
        /\ \A a \in Attempts : lifecycle'[a] = lifecycle[a] \/ lifecycle[a] \in {o, NoOne}
    BY <1>1, <2>1, <2>2, Zenon
  <2> QED
    BY <1>0, <1>1, <2>1, <2>2, <2>3, LOpEnds, Zenon
<1>6. CASE SnapshotBegin(o)
  <2>1. /\ ops[o].pc = "valid" /\ lifecycle[ops[o].on] = o /\ ops[o].on \in Attempts
        /\ \A a \in Attempts : snapshot[a] # o
    BY <1>1, <1>6, NotCancelable, Zenon DEF SnapshotBegin, Holding
  <2>2. /\ ops' = [ops EXCEPT ![o].pc = "snapshot"] /\ UNCHANGED lifecycle
        /\ snapshot' = [snapshot EXCEPT ![ops[o].on] = o]
    BY <1>6, Zenon DEF SnapshotBegin
  <2>3. /\ snapshot' \in [Attempts -> Ops \cup {NoOne}]
        /\ \A a \in Attempts : snapshot'[a] = IF a = ops[o].on THEN o ELSE snapshot[a]
    BY <1>1, <2>1, <2>2, Zenon
  <2>4. /\ "snapshot" \in Steps /\ ops[o].pc # "idle"
        /\ ops[o].pc \in {"valid", "snapshot", "canceled"}
    BY <2>1, Zenon DEF Steps
  <2>5. inst[ops[o].on] = "closed" => HasErr(ops[o].on)
    BY <2>4, Zenon DEF LInv, ClosedNeverUsed, HasErr
  <2> QED
    BY <1>0, <1>1, <2>1, <2>2, <2>3, <2>4, <2>5, LOpMoves, Zenon
<1>7. CASE SnapshotDone(o)
  <2>1. /\ ops[o].pc \in {"snapshot", "canceled"} /\ lifecycle[ops[o].on] = o
        /\ ops[o].on \in Attempts
    BY <1>1, <1>7, Zenon DEF SnapshotDone, Holding
  <2>2. /\ ops' = [ops EXCEPT ![o] = Idle]
        /\ snapshot' = [snapshot EXCEPT ![ops[o].on] = NoOne]
        /\ lifecycle' = [lifecycle EXCEPT ![ops[o].on] = NoOne]
    BY <1>7, Zenon DEF SnapshotDone
  <2>3. /\ DOMAIN lifecycle' = Attempts
        /\ \A a \in Attempts : lifecycle'[a] = lifecycle[a] \/ lifecycle[a] \in {o, NoOne}
    BY <1>1, <2>1, <2>2, Zenon
  <2>4. \A a \in Attempts : a # ops[o].on => snapshot[a] # o
    <3>1. o # NoOne
      BY Zenon DEF VMAssumption
    <3> QED
      BY <3>1, Zenon DEF LInv, Cancelable
  <2>5. /\ snapshot' \in [Attempts -> Ops \cup {NoOne}]
        /\ \A a \in Attempts : snapshot'[a] = IF a = ops[o].on THEN NoOne ELSE snapshot[a]
    BY <1>1, <2>1, <2>2, Zenon
  <2> QED
    BY <1>0, <2>2, <2>3, <2>4, <2>5, LOpEnds, ZenonT(60)
<1>8. CASE BalloonBegin(o)
  <2>1. /\ ops[o].pc = "balloonLooked" /\ UNCHANGED <<lifecycle, snapshot>>
        /\ \/ ops' = [ops EXCEPT ![o].pc = "balloon"]
           \/ ops' = [ops EXCEPT ![o] = Idle]
    BY <1>8, Zenon DEF BalloonBegin
  <2>2. /\ \A a \in Attempts : snapshot[a] # o
        /\ "balloon" \in Steps /\ ops[o].pc # "idle"
        /\ "balloon" \notin {"locked", "valid", "snapshot", "canceled"}
    BY <2>1, NotCancelable, Zenon DEF Steps
  <2>3. CASE ops' = [ops EXCEPT ![o].pc = "balloon"]
    BY <1>0, <1>1, <2>1, <2>2, <2>3, LOpMoves, Zenon
  <2>4. CASE ops' = [ops EXCEPT ![o] = Idle]
    BY <1>0, <1>1, <2>1, <2>2, <2>4, LOpEnds, Zenon
  <2> QED
    BY <2>1, <2>3, <2>4, Zenon
<1>9. CASE BalloonDone(o)
  <2>1. /\ ops[o].pc = "balloon" /\ UNCHANGED <<lifecycle, snapshot>>
        /\ ops' = [ops EXCEPT ![o] = Idle]
    BY <1>9, Zenon DEF BalloonDone
  <2>2. \A a \in Attempts : snapshot[a] # o
    BY <2>1, NotCancelable, Zenon
  <2> QED
    BY <1>0, <1>1, <2>1, <2>2, LOpEnds, Zenon
<1> QED
  BY <1>2, <1>3, <1>4, <1>5, <1>6, <1>7, <1>8, <1>9, Zenon DEF OpStep

(* Every step keeps LInv.                                                  *)
LEMMA LNext ==
    ASSUME LInv, KInv, VMAssumption, [Next]_vars
    PROVE  LInv'
<1>1. CASE UNCHANGED vars
  BY <1>1, LQuiet, Zenon DEF vars, manager, starts, machine, locks
<1>2. ASSUME NEW a \in Attempts, StartStep(a) \/ Exit(a) \/ StopStep(a)
      PROVE  LInv'
  BY <1>2, LStart, LExit, LStop, LPublish, Zenon DEF StopStep
<1>3. ASSUME NEW a \in Attempts, WatchStep(a)
      PROVE  LInv'
  <2>1. UNCHANGED <<ops, lifecycle, snapshot, phase, stop, stopping, stopPc, inst>>
    BY <1>3, Zenon DEF WatchStep, WatchReturns, WatchPublish, starts, locks
  <2> QED
    BY <2>1, LQuiet, Zenon
<1>4. ASSUME NEW id \in Ids, Reap(id)
      PROVE  LInv'
  <2>1. UNCHANGED <<ops, lifecycle, snapshot, phase, stop, stopping, stopPc, inst>>
    BY <1>4, Zenon DEF Reap, starts, machine, locks
  <2> QED
    BY <2>1, LQuiet, Zenon
<1>5. ASSUME NEW id \in Ids, ShutdownInstance(id)
      PROVE  LInv'
  <2>1. {running[id]} \subseteq Attempts
    BY <1>5, Zenon DEF ShutdownInstance, KInv, Shape
  <2>2. BeginStops({running[id]}) /\ UNCHANGED <<inst, phase, lifecycle, snapshot>>
    BY <1>5, Zenon DEF ShutdownInstance, starts, locks
  <2> QED
    BY <2>1, <2>2, LBegin, Zenon
<1>6. ASSUME NEW c \in Callers, ShutdownAll(c)
      PROVE  LInv'
  <2>1. {running[id] : id \in Registered} \subseteq Attempts
    BY ZenonT(60) DEF Registered, KInv, Shape
  <2>2. /\ BeginStops({running[id] : id \in Registered})
        /\ UNCHANGED <<inst, phase, lifecycle, snapshot>>
    BY <1>6, Zenon DEF ShutdownAll, starts, locks
  <2> QED
    BY <2>1, <2>2, LBegin, Zenon
<1>7. ASSUME NEW c \in Callers, ShutdownReturns(c) \/ ShutdownTimeout(c)
      PROVE  LInv'
  <2>1. UNCHANGED <<ops, lifecycle, snapshot, phase, stop, stopping, stopPc, inst>>
    BY <1>7, Zenon DEF ShutdownReturns, ShutdownTimeout, starts, machine, locks
  <2> QED
    BY <2>1, LQuiet, Zenon
<1> QED
  BY <1>1, <1>2, <1>3, <1>4, <1>5, <1>6, <1>7, LOpStep, Zenon DEF Next

(* lockMachineOperation looks at the machine again under lifecycleMu: an   *)
(* operation never uses an instance that a stop has closed, unless a stop  *)
(* of it failed.  For any number of names, starts, operations and callers. *)
THEOREM ClosedNeverUsedCorrect == Spec => []ClosedNeverUsed
<1>1. Init => KInv /\ LInv
  BY KInit, LInit, VMAssumption, Zenon
<1>2. KInv /\ LInv /\ [Next]_vars => (KInv /\ LInv)'
  BY KNext, LNext, VMAssumption, Zenon
<1>3. KInv /\ LInv => ClosedNeverUsed
  BY Zenon DEF LInv
<1> QED
  BY <1>1, <1>2, <1>3, PTL DEF Spec

-----------------------------------------------------------------------------
(* What ShutdownAll found, step by step.                                   *)

(* The phases of a start that ShutdownAll has to wait for.                 *)
Underway == Pending \cup {"discarding"}

(* What starts and machines do after ShutdownAll: no start begins, none    *)
(* registers its machine, and what was stopped stays so.                   *)
Onward ==
    /\ closing => closing'
    /\ DOMAIN cleanupErr' = Attempts /\ Bounded'
    /\ \A a \in Attempts : Len(stop[a]) <= Len(stop'[a]) /\ Len(stop'[a]) \in Nat
    /\ \A a \in Attempts : \A n \in 1..Len(stop[a]) : stop[a][n] = "ok" => stop'[a][n] = "ok"
    /\ \A a \in Attempts : StartDone(a) => StartDone(a)' /\ (cleanupErr'[a] <=> cleanupErr[a])
    /\ closing => \A a \in Attempts : phase'[a] \in Underway => phase[a] \in Underway
    /\ closing => \A a \in Attempts : phase'[a] = "registered" /\ inst'[a] = "live" =>
                                        phase[a] = "registered" /\ inst[a] = "live"

(* A caller that waits or has returned still knows what there is.          *)
LEMMA ShutStays ==
    ASSUME KInv, SInv, VMAssumption, Onward, NEW c \in Callers, shut'[c] = shut[c]
    PROVE  WellShut(c)'
<1>0. WellShut(c) /\ shut[c].starts \subseteq Attempts
      /\ \A s \in shut[c].stops : s[1] \in Attempts /\ s[2] \in 1..MaxStops
  BY DEF SInv, ShutShape
<1>1. \A s \in shut[c].stops : s[2] <= Len(stop[s[1]]) /\ s[2] \in 1..Len(stop[s[1]])
                               /\ Len(stop[s[1]]) \in Nat
  BY <1>0 DEF WellShut, KInv, Shape, VMAssumption
<1>2. \A s \in shut[c].stops : s[2] <= Len(stop'[s[1]])
  BY <1>0, <1>1 DEF VMAssumption, Onward
<1>3. shut[c].pc # "idle" => closing'
  BY <1>0, Zenon DEF WellShut, Onward
<1>4. ASSUME shut[c].pc \in {"waiting", "ok"}, shut[c].first PROVE Found(c)'
  <2>1. Found(c) /\ closing
    BY <1>0, <1>4, Zenon DEF WellShut, Found
  <2> QED
    BY <2>1, Zenon DEF Found, Underway, Onward
<1>5. ASSUME shut[c].pc = "ok" PROVE Clean(c)'
  <2>1. Clean(c)
    BY <1>0, <1>5, Zenon DEF WellShut
  <2>2. \A a \in shut[c].starts : StartDone(a)' /\ ~cleanupErr'[a]
    BY <1>0, <2>1, Zenon DEF Clean, Onward
  <2>3. \A s \in shut[c].stops : stop'[s[1]][s[2]] = "ok"
    BY <1>0, <1>1, <2>1, Zenon DEF Clean, Onward
  <2> QED
    BY <2>2, <2>3, Zenon DEF Clean
<1> QED
  BY <1>2, <1>3, <1>4, <1>5, Zenon DEF WellShut

(* Steps of starts and machines.                                           *)
LEMMA SFrame ==
    ASSUME KInv, SInv, VMAssumption, Onward, UNCHANGED shut
    PROVE  SInv'
<1>1. ShutShape' /\ DOMAIN cleanupErr' = Attempts /\ Bounded'
  BY Zenon DEF SInv, ShutShape, Onward
<1>2. ASSUME NEW c \in Callers PROVE WellShut(c)'
  BY ShutStays, Zenon
<1> QED
  BY <1>1, <1>2, Zenon DEF SInv

(* A start is not admitted, nor its machine registered, while closing.     *)
LEMMA SStart ==
    ASSUME KInv, MInv, SInv, VMAssumption, NEW a \in Attempts, StartStep(a)
    PROVE  SInv'
<1>0. DOMAIN phase = Attempts /\ DOMAIN inst = Attempts /\ DOMAIN cleanupErr = Attempts
  BY Zenon DEF KInv, Shape, MInv, Shape3, SInv
<1>1. UNCHANGED <<shut, closing, stop>>
  BY Zenon DEF StartStep, Admit, ReserveHost, Boot, BootFails, AbortClose, AbortFinish,
     Register, Discard, DiscardClose, manager, machine
<1>2. PICK p : /\ phase' = [phase EXCEPT ![a] = p]
               /\ p = "admitted" => ~closing
               /\ p = "registered" => ~closing
               /\ p \in {"booting", "booted", "aborting", "discarding"} => phase[a] \in Underway
               /\ phase[a] \notin {"registered", "ended"}
  <2>1. ASSUME NEW id \in Ids, NEW network \in Networks, Admit(a, id, network)
        PROVE  phase' = [phase EXCEPT ![a] = "admitted"] /\ ~closing /\ phase[a] = "idle"
    BY <2>1, Zenon DEF Admit
  <2>2. ASSUME Register(a)
        PROVE  phase' = [phase EXCEPT ![a] = "registered"] /\ ~closing /\ phase[a] = "booted"
    BY <2>2, Zenon DEF Register, Superseded
  <2>3. ASSUME ReserveHost(a) \/ Boot(a) \/ AbortClose(a) \/ Discard(a)
        PROVE  /\ phase[a] \in {"admitted", "booting", "booted"}
               /\ \E p \in {"booting", "booted", "aborting", "discarding"} :
                     phase' = [phase EXCEPT ![a] = p]
    BY <2>3, Zenon DEF ReserveHost, Boot, AbortClose, Discard
  <2>4. ASSUME BootFails(a) \/ AbortFinish(a) \/ DiscardClose(a)
        PROVE  /\ phase[a] \in {"admitted", "booting", "aborting", "discarding"}
               /\ phase' = [phase EXCEPT ![a] = "ended"]
    BY <2>4, Zenon DEF BootFails, AbortFinish, DiscardClose, FinishStart
  <2>5. CASE \E id \in Ids, network \in Networks : Admit(a, id, network)
    BY <2>1, <2>5
  <2>6. CASE Register(a)
    BY <2>2, <2>6
  <2>7. CASE ReserveHost(a) \/ Boot(a) \/ AbortClose(a) \/ Discard(a)
    BY <2>3, <2>7 DEF Underway, Pending
  <2>8. CASE BootFails(a) \/ AbortFinish(a) \/ DiscardClose(a)
    BY <2>4, <2>8
  <2> QED
    BY <2>5, <2>6, <2>7, <2>8, Zenon DEF StartStep
<1>3. phase'[a] = p /\ \A b \in Attempts : b # a => phase'[b] = phase[b]
  BY <1>0, <1>2, Zenon
<1>4. /\ DOMAIN cleanupErr' = Attempts
      /\ \A b \in Attempts : b # a => inst'[b] = inst[b] /\ cleanupErr'[b] = cleanupErr[b]
  <2>1. CASE UNCHANGED <<inst, cleanupErr>>
    BY <1>0, <2>1, Zenon
  <2>2. CASE Boot(a)
    BY <1>0, <2>2, Zenon DEF Boot
  <2>3. ASSUME NEW ok, CloseInstance(a, ok), NEW x, cleanupErr' = [cleanupErr EXCEPT ![a] = x]
        PROVE  /\ DOMAIN cleanupErr' = Attempts
               /\ \A b \in Attempts : b # a => inst'[b] = inst[b] /\ cleanupErr'[b] = cleanupErr[b]
    BY <1>0, <2>3, Closes, Zenon DEF MInv
  <2>4. CASE AbortClose(a)
    <3>1. PICK ok \in BOOLEAN, shares \in BOOLEAN :
            CloseInstance(a, ok) /\ cleanupErr' = [cleanupErr EXCEPT ![a] = shares /\ ~ok]
      BY <2>4, Zenon DEF AbortClose
    <3> QED
      BY <2>3, <3>1, Zenon
  <2>5. CASE DiscardClose(a)
    <3>1. PICK ok \in BOOLEAN :
            CloseInstance(a, ok) /\ cleanupErr' = [cleanupErr EXCEPT ![a] = ~ok]
      BY <2>5, Zenon DEF DiscardClose
    <3> QED
      BY <2>3, <3>1, Zenon
  <2> QED
    BY <2>1, <2>2, <2>4, <2>5, Zenon DEF StartStep, Admit, ReserveHost, BootFails, AbortFinish,
       Register, Discard
<1>5. \A b \in Attempts : StartDone(b) => StartDone(b)' /\ (cleanupErr'[b] <=> cleanupErr[b])
  BY <1>2, <1>3, <1>4 DEF StartDone
<1>6. closing => \A b \in Attempts : phase'[b] \in Underway => phase[b] \in Underway
  BY <1>2, <1>3 DEF Underway, Pending
<1>7. closing => \A b \in Attempts : phase'[b] = "registered" /\ inst'[b] = "live" =>
                                       phase[b] = "registered" /\ inst[b] = "live"
  BY <1>2, <1>3, <1>4
<1>8. /\ Bounded' /\ \A b \in Attempts : Len(stop[b]) <= Len(stop'[b]) /\ Len(stop'[b]) \in Nat
      /\ \A b \in Attempts : \A n \in 1..Len(stop[b]) : stop[b][n] = "ok" => stop'[b][n] = "ok"
  BY <1>1 DEF SInv, Bounded, KInv, Shape
<1> QED
  BY <1>1, <1>4, <1>5, <1>6, <1>7, <1>8, SFrame, Zenon DEF Onward

(* Steps of machines: none comes to life again.                            *)
LEMMA SMachine ==
    ASSUME KInv, SInv, VMAssumption, UNCHANGED <<shut, closing, phase, cleanupErr>>, Bounded',
           \A a \in Attempts : inst'[a] = "live" => inst[a] = "live",
           \A a \in Attempts : Len(stop[a]) <= Len(stop'[a]) /\ Len(stop'[a]) \in Nat,
           \A a \in Attempts : \A n \in 1..Len(stop[a]) : stop[a][n] = "ok" => stop'[a][n] = "ok"
    PROVE  SInv'
<1>1. DOMAIN cleanupErr' = Attempts
  BY Zenon DEF SInv
<1>2. Onward
  BY <1>1, Zenon DEF Onward, StartDone
<1> QED
  BY <1>2, SFrame, Zenon

(* Steps that leave the stops alone too.                                   *)
LEMMA SQuiet ==
    ASSUME KInv, SInv, VMAssumption, UNCHANGED <<shut, closing, phase, cleanupErr, stop>>,
           \A a \in Attempts : inst'[a] = "live" => inst[a] = "live"
    PROVE  SInv'
<1>1. \A a \in Attempts : Len(stop[a]) <= Len(stop'[a]) /\ Len(stop'[a]) \in Nat
  BY DEF KInv, Shape
<1>2. Bounded'
  BY Zenon DEF SInv, Bounded
<1> QED
  BY <1>1, <1>2, SMachine, Zenon

(* beginMachineStopLocked adds a stop, within the bound.                   *)
LEMMA Grows ==
    ASSUME KInv, SInv, VMAssumption, NEW S, BeginStops(S)
    PROVE  /\ Bounded'
           /\ \A a \in Attempts : Len(stop[a]) <= Len(stop'[a]) /\ Len(stop'[a]) \in Nat
           /\ \A a \in Attempts : \A n \in 1..Len(stop[a]) : stop'[a][n] = stop[a][n]
           /\ \A a \in Attempts : a \in S => Len(stop'[a]) \in 1..MaxStops
<1>1. ASSUME NEW a \in Attempts
      PROVE  /\ Len(stop'[a]) \in Nat /\ Len(stop[a]) <= Len(stop'[a]) /\ Len(stop'[a]) <= MaxStops
             /\ \A n \in 1..Len(stop[a]) : stop'[a][n] = stop[a][n]
             /\ a \in S => Len(stop'[a]) \in 1..MaxStops
  <2>1. /\ stop[a] \in Seq(Outcomes) /\ Len(stop[a]) \in Nat /\ Len(stop[a]) <= MaxStops
        /\ stop[a] # << >> => Len(stop[a]) > 0
        /\ MaxStops \in Nat
    BY DEF KInv, Shape, SInv, Bounded, VMAssumption
  <2>2. CASE a \in S /\ LastStop(a) \in {"none", "err"}
    <3>1. stop'[a] = Append(stop[a], "pending") /\ Len(stop[a]) < MaxStops
      BY <2>2, Zenon DEF BeginStops
    <3>2. "pending" \in Outcomes
      BY DEF Outcomes
    <3>3. Len(stop'[a]) = Len(stop[a]) + 1 /\ \A n \in 1..Len(stop[a]) : stop'[a][n] = stop[a][n]
      BY <2>1, <3>1, <3>2, Appended
    <3> QED
      BY <2>1, <3>1, <3>3
  <2>3. CASE ~(a \in S /\ LastStop(a) \in {"none", "err"})
    <3>1. stop'[a] = stop[a]
      BY <2>3, Zenon DEF BeginStops
    <3>2. a \in S => stop[a] # << >>
      BY <2>3, Zenon DEF LastStop
    <3> QED
      BY <2>1, <3>1, <3>2
  <2> QED
    BY <2>2, <2>3
<1> QED
  BY <1>1, Zenon DEF Bounded

(* The steps of stops and of the watch.                                    *)
LEMMA SStops ==
    ASSUME KInv, MInv, SInv, VMAssumption, NEW a \in Attempts,
           Exit(a) \/ StopStep(a) \/ WatchStep(a)
    PROVE  SInv'
<1>0. DOMAIN inst = Attempts /\ UNCHANGED <<shut, closing, phase, cleanupErr>>
  BY Zenon DEF MInv, Shape3, Exit, StopStep, StopLock, StopClose, StopPublish, WatchStep,
     WatchReturns, WatchPublish, manager, starts
<1>1. CASE Exit(a)
  <2>1. inst' = [inst EXCEPT ![a] = "dead"] /\ inst[a] = "live" /\ UNCHANGED stop
    BY <1>1, Zenon DEF Exit, machine
  <2>2. \A b \in Attempts : inst'[b] = "live" => inst[b] = "live"
    BY <1>0, <2>1, Zenon
  <2> QED
    BY <1>0, <2>1, <2>2, SQuiet, Zenon
<1>2. CASE StopLock(a) \/ WatchStep(a)
  <2>1. UNCHANGED <<inst, stop>>
    BY <1>2, Zenon DEF StopLock, WatchStep, WatchReturns, WatchPublish
  <2> QED
    BY <1>0, <2>1, SQuiet, Zenon
<1>3. CASE StopClose(a)
  <2>1. PICK ok \in BOOLEAN : CloseInstance(a, ok)
    BY <1>3, Zenon DEF StopClose
  <2>2. \A b \in Attempts : inst'[b] = "live" => inst[b] = "live"
    <3>1. PICK now \in {inst[a], IF inst[a] = "live" THEN "closed" ELSE inst[a]} :
            inst' = [inst EXCEPT ![a] = now]
      BY <2>1, Zenon DEF CloseInstance
    <3>2. now = "live" => inst[a] = "live"
      BY <3>1
    <3> QED
      BY <1>0, <3>1, <3>2, Zenon
  <2>3. UNCHANGED stop
    BY <1>3, Zenon DEF StopClose
  <2> QED
    BY <1>0, <2>2, <2>3, SQuiet, Zenon
<1>4. CASE StopPublish(a)
  <2>1. /\ Len(stop'[a]) = Len(stop[a]) /\ stop[a][Len(stop[a])] = "pending"
        /\ \A n \in 1..Len(stop[a]) : n # Len(stop[a]) => stop'[a][n] = stop[a][n]
        /\ \A b \in Attempts : b # a => stop'[b] = stop[b]
        /\ UNCHANGED inst
    BY <1>4, Publishes, Zenon DEF StopPublish
  <2>2. \A b \in Attempts : Len(stop'[b]) = Len(stop[b])
    BY <2>1, Zenon
  <2>3. \A b \in Attempts : Len(stop[b]) <= Len(stop'[b]) /\ Len(stop'[b]) \in Nat
    BY <2>2 DEF KInv, Shape
  <2>4. \A b \in Attempts : \A n \in 1..Len(stop[b]) : stop[b][n] = "ok" => stop'[b][n] = "ok"
    BY <2>1
  <2>5. Bounded'
    BY <2>2, Zenon DEF SInv, Bounded
  <2> QED
    BY <1>0, <2>1, <2>3, <2>4, <2>5, SMachine, Zenon
<1> QED
  BY <1>1, <1>2, <1>3, <1>4, Zenon DEF StopStep

(* ShutdownAll finds every start in progress and every machine in the      *)
(* maps, and begins or joins a stop of each machine.                       *)
LEMMA SAll ==
    ASSUME KInv, MInv, SInv, VMAssumption, NEW c \in Callers, ShutdownAll(c)
    PROVE  SInv'
<1> DEFINE machines == {running[id] : id \in Registered}
           found == {starting[id] : id \in Starting}
           begun == {<<a, Len(stop'[a])>> : a \in machines}
<1>0. /\ closing' /\ BeginStops(machines)
      /\ UNCHANGED <<running, starting, phase, ident, cleanupErr, inst>>
      /\ shut' = [shut EXCEPT ![c] = [pc |-> "waiting", stops |-> begun, starts |-> found,
                                      first |-> ~closing]]
  BY Zenon DEF ShutdownAll, starts
<1>1. /\ Bounded'
      /\ \A a \in Attempts : Len(stop[a]) <= Len(stop'[a]) /\ Len(stop'[a]) \in Nat
      /\ \A a \in Attempts : \A n \in 1..Len(stop[a]) : stop'[a][n] = stop[a][n]
      /\ \A a \in Attempts : a \in machines => Len(stop'[a]) \in 1..MaxStops
  <2> HIDE DEF machines
  <2> QED
    BY <1>0, Grows, Zenon
<1>2. machines \subseteq Attempts /\ found \subseteq Attempts
  BY DEF KInv, Shape, Registered, Starting
<1>3. begun \subseteq Attempts \X (1..MaxStops)
  BY <1>1, <1>2
<1>4. Onward
  <2>1. DOMAIN cleanupErr' = Attempts
    BY <1>0, Zenon DEF SInv
  <2> QED
    BY <1>0, <1>1, <2>1, Zenon DEF Onward, StartDone
<1>5. DOMAIN shut = Callers /\ shut'[c].stops = begun /\ shut'[c].starts = found
      /\ shut'[c].pc = "waiting" /\ (shut'[c].first <=> ~closing)
      /\ \A d \in Callers : d # c => shut'[d] = shut[d]
  <2> HIDE DEF begun, found
  <2> QED
    BY <1>0, ZenonT(60) DEF SInv, ShutShape
<1>6. ShutShape'
  <2> HIDE DEF begun, found
  <2> QED
    BY <1>0, <1>2, <1>3 DEF SInv, ShutShape
<1>7. \A s \in begun : s[2] <= Len(stop'[s[1]])
  BY <1>1, <1>2
<1>8. ASSUME ~closing PROVE Found(c)'
  <2>1. ASSUME NEW a \in Attempts, phase'[a] \in Pending \cup {"discarding"}
        PROVE  a \in found
    <3>1. phase[a] \in Pending
      BY <1>0, <1>8, <2>1, Zenon DEF MInv, Local, Begun
    <3>2. starting[ident[a]] = a /\ a # NoOne
      BY <3>1, Zenon DEF MInv, Local, Begun, VMAssumption
    <3>3. phase[a] # "idle"
      BY <3>1 DEF Pending
    <3>4. ident[a] \in Ids
      BY <3>3, Zenon DEF KInv, Named
    <3> QED
      BY <3>2, <3>4, Zenon DEF Starting
  <2>2. ASSUME NEW a \in Attempts, phase'[a] = "registered", inst'[a] = "live"
        PROVE  \E n \in 1..MaxStops : <<a, n>> \in begun
    <3>1. phase[a] = "registered" /\ inst[a] = "live"
      BY <1>0, <2>2, Zenon
    <3>2. running[ident[a]] = a /\ a # NoOne
      BY <3>1, Zenon DEF MInv, Local, Watched, Here, VMAssumption
    <3>3. ident[a] \in Ids
      BY <3>1 DEF KInv, Named
    <3>4. a \in machines
      BY <3>2, <3>3, Zenon DEF Registered
    <3> QED
      BY <1>1, <3>4, Zenon
  <2> HIDE DEF begun, found
  <2> QED
    BY <1>0, <1>5, <2>1, <2>2, Zenon DEF Found
<1>9. WellShut(c)'
  <2> HIDE DEF begun, found
  <2> QED
    BY <1>0, <1>5, <1>7, <1>8 DEF WellShut
<1>10. ASSUME NEW d \in Callers, d # c PROVE WellShut(d)'
  BY <1>4, <1>5, <1>10, ShutStays, Zenon
<1> QED
  BY <1>1, <1>4, <1>6, <1>9, <1>10, Zenon DEF SInv, Onward

(* ShutdownAll returns nil only if every stop it waited for succeeded and  *)
(* every start has ended without an error.                                 *)
LEMMA SReturns ==
    ASSUME KInv, SInv, VMAssumption, NEW c \in Callers, ShutdownReturns(c) \/ ShutdownTimeout(c)
    PROVE  SInv'
<1>0. UNCHANGED <<phase, ident, closing, cleanupErr, inst, stop>> /\ shut[c].pc = "waiting"
  BY Zenon DEF ShutdownReturns, ShutdownTimeout, manager, starts, machine
<1>1. Onward
  <2>1. \A a \in Attempts : Len(stop[a]) <= Len(stop'[a]) /\ Len(stop'[a]) \in Nat
    BY <1>0 DEF KInv, Shape
  <2>2. Bounded' /\ DOMAIN cleanupErr' = Attempts
    BY <1>0, Zenon DEF SInv, Bounded
  <2> QED
    BY <1>0, <2>1, <2>2, Zenon DEF Onward, StartDone
<1>2. PICK p \in {"ok", "error"} : /\ shut' = [shut EXCEPT ![c].pc = p]
                                   /\ p = "ok" => Clean(c)
  <2>1. CASE ShutdownTimeout(c)
    BY <2>1 DEF ShutdownTimeout
  <2>2. CASE ShutdownReturns(c)
    BY <2>2, ZenonT(60) DEF ShutdownReturns, ShutdownReady, Clean
  <2> QED
    BY <2>1, <2>2
<1>3. /\ ShutShape' /\ shut'[c].pc = p /\ shut'[c].stops = shut[c].stops
      /\ shut'[c].starts = shut[c].starts /\ (shut'[c].first <=> shut[c].first)
      /\ \A d \in Callers : d # c => shut'[d] = shut[d]
  BY <1>2 DEF SInv, ShutShape
<1>4. WellShut(c)'
  <2>1. WellShut(c)
    BY Zenon DEF SInv
  <2>2. shut[c].first => Found(c)
    BY <1>0, <2>1, Zenon DEF WellShut
  <2>3. shut'[c].first => Found(c)'
    BY <1>0, <1>3, <2>2, Zenon DEF Found
  <2>4. p = "ok" => Clean(c)'
    BY <1>0, <1>2, <1>3, Zenon DEF Clean, StartDone
  <2>5. closing' /\ \A s \in shut'[c].stops : s[2] <= Len(stop'[s[1]])
    BY <1>0, <1>3, <2>1 DEF WellShut
  <2> QED
    BY <1>3, <2>3, <2>4, <2>5, Zenon DEF WellShut
<1>5. ASSUME NEW d \in Callers, d # c PROVE WellShut(d)'
  BY <1>1, <1>3, <1>5, ShutStays, Zenon
<1> QED
  BY <1>1, <1>3, <1>4, <1>5, ZenonT(60) DEF SInv, Onward

(* Nobody has called ShutdownAll.                                          *)
LEMMA SInit == ASSUME Init, VMAssumption PROVE SInv
<1>1. ShutShape
  BY DEF Init, ShutShape
<1>2. \A a \in Attempts : Len(stop[a]) = 0
  BY DEF Init
<1>3. \A c \in Callers : shut[c].pc = "idle" /\ shut[c].stops = {}
  BY DEF Init
<1>4. \A c \in Callers : WellShut(c)
  BY <1>3 DEF WellShut
<1>5. Bounded
  BY <1>2 DEF Bounded, VMAssumption
<1> QED
  BY <1>1, <1>4, <1>5, Zenon DEF SInv, Init

(* Every step keeps SInv.                                                  *)
LEMMA SNext ==
    ASSUME KInv, MInv, SInv, VMAssumption, [Next]_vars
    PROVE  SInv'
<1>1. CASE UNCHANGED vars
  BY <1>1, SQuiet, Zenon DEF vars, manager, starts, machine
<1>2. ASSUME NEW a \in Attempts, StartStep(a) \/ Exit(a) \/ StopStep(a) \/ WatchStep(a)
      PROVE  SInv'
  BY <1>2, SStart, SStops, Zenon
<1>3. ASSUME NEW id \in Ids, Reap(id)
      PROVE  SInv'
  BY <1>3, SQuiet, Zenon DEF Reap, starts, machine
<1>4. ASSUME NEW id \in Ids, ShutdownInstance(id)
      PROVE  SInv'
  <2>1. BeginStops({running[id]}) /\ UNCHANGED <<shut, closing, phase, cleanupErr, inst>>
    BY <1>4, Zenon DEF ShutdownInstance, manager, starts
  <2> QED
    BY <2>1, Grows, SMachine, Zenon
<1>5. ASSUME NEW c \in Callers, ShutdownAll(c) \/ ShutdownReturns(c) \/ ShutdownTimeout(c)
      PROVE  SInv'
  BY <1>5, SAll, SReturns, Zenon
<1>6. ASSUME NEW o \in Ops, OpStep(o)
      PROVE  SInv'
  <2>1. UNCHANGED <<manager, starts, machine, inst, shut>>
    BY <1>6, Zenon DEF OpStep, OpLook, OpLock, OpValidate, OpDone, SnapshotBegin, SnapshotDone,
       BalloonBegin, BalloonDone
  <2> QED
    BY <2>1, SQuiet, Zenon DEF manager, starts, machine
<1> QED
  BY <1>1, <1>2, <1>3, <1>4, <1>5, <1>6, Zenon DEF Next

(* When the first ShutdownAll reports success no instance runs, whatever   *)
(* was starting, stopping or failing when it came, but the ones whose      *)
(* start could not close them and had ended or left no error.              *)
THEOREM ShutdownCompleteCorrect == Spec => []ShutdownComplete
<1>1. Init => KInv /\ MInv /\ SInv
  BY KInit, MInit, SInit, VMAssumption, Zenon
<1>2. KInv /\ MInv /\ SInv /\ [Next]_vars => (KInv /\ MInv /\ SInv)'
  BY KNext, MNext, SNext, VMAssumption, Zenon
<1>3. ASSUME KInv, MInv, SInv PROVE ShutdownComplete
  <2>1. SUFFICES ASSUME NEW c \in Callers, shut[c].pc = "ok", shut[c].first,
                        NEW a \in Attempts, inst[a] = "live"
                 PROVE  phase[a] = "ended" /\ ~(a \in shut[c].starts /\ cleanupErr[a])
    BY Zenon DEF ShutdownComplete
  <2>2. Found(c) /\ Clean(c) /\ \A s \in shut[c].stops : s[2] <= Len(stop[s[1]])
    BY <1>3, <2>1, Zenon DEF SInv, WellShut
  <2>3. Begun(a) /\ Instance(a) /\ Ceased(a)
    BY <1>3, Zenon DEF MInv, Local
  <2>4. phase[a] \notin Underway
    <3>1. phase[a] \in Underway => StartDone(a)
      BY <2>2, Zenon DEF Found, Clean, Underway
    <3> QED
      BY <3>1 DEF StartDone, Underway, Pending
  <2>5. phase[a] # "registered"
    <3>1. SUFFICES ASSUME phase[a] = "registered" PROVE FALSE
      OBVIOUS
    <3>2. PICK n \in 1..MaxStops : <<a, n>> \in shut[c].stops
      BY <2>1, <2>2, <3>1, Zenon DEF Found
    <3>3. stop[a][n] = "ok" /\ n <= Len(stop[a])
      BY <2>2, <3>2 DEF Clean
    <3>4. n \in 1..Len(stop[a])
      BY <1>3, <3>2, <3>3 DEF KInv, Shape
    <3> QED
      BY <2>1, <2>3, <3>3, <3>4, Zenon DEF Ceased
  <2>6. phase[a] # "idle"
    BY <2>1, <2>3 DEF Instance
  <2>7. phase[a] = "ended"
    BY <2>3, <2>4, <2>5, <2>6 DEF Begun, Underway
  <2> QED
    BY <2>2, <2>7, Zenon DEF Clean
<1> QED
  BY <1>1, <1>2, <1>3, PTL DEF Spec

-----------------------------------------------------------------------------
(* What the steps do to the maps, slots, phases, leases and states.        *)

(* A start or machine that may have an instance: it is in the maps, or it  *)
(* is being discarded.                                                     *)
Live(a) == phase[a] = "discarding" \/ Holder(a)

(* What one step does to the maps: a start that is admitted, a machine     *)
(* that is registered, or nothing new.                                     *)
LEMMA MapSteps ==
    ASSUME KInv, VMAssumption, [Next]_vars
    PROVE  \/ \E a \in Attempts, id \in Ids, network \in Networks : Admit(a, id, network)
           \/ \E a \in Attempts : Register(a)
           \/ \A id \in Ids : /\ running'[id] # NoOne => running'[id] = running[id]
                              /\ starting'[id] # NoOne => starting'[id] = starting[id]
<1> DEFINE Fewer == \A id \in Ids : /\ running'[id] # NoOne => running'[id] = running[id]
                                    /\ starting'[id] # NoOne => starting'[id] = starting[id]
           Admits(a) == \E id \in Ids, network \in Networks : Admit(a, id, network)
<1>1. CASE UNCHANGED <<running, starting>>
  BY <1>1, Zenon
<1>2. ASSUME NEW a \in Attempts, BootFails(a) \/ AbortFinish(a) \/ Discard(a) PROVE Fewer
  <2>1. /\ UNCHANGED running
        /\ starting' = IF starting[ident[a]] = a
                       THEN [starting EXCEPT ![ident[a]] = NoOne] ELSE starting
    BY <1>2, Zenon DEF BootFails, AbortFinish, Discard, FinishStart
  <2> QED
    BY <2>1, Zenon DEF KInv, Shape
<1>3. ASSUME NEW a \in Attempts, Unregister(a), UNCHANGED starting PROVE Fewer
  BY <1>3, Zenon DEF KInv, Shape, Unregister
<1>4. ASSUME NEW a \in Attempts, StartStep(a)
      PROVE  Fewer \/ Register(a) \/ Admits(a)
  <2>1. CASE ReserveHost(a) \/ Boot(a) \/ AbortClose(a) \/ DiscardClose(a)
    BY <1>1, <2>1, Zenon DEF ReserveHost, Boot, AbortClose, DiscardClose, manager
  <2> QED
    BY <1>2, <1>4, <2>1, Zenon DEF StartStep
<1>5. ASSUME NEW a \in Attempts, Exit(a) \/ StopStep(a) \/ WatchStep(a) PROVE Fewer
  <2>1. CASE Exit(a) \/ StopLock(a) \/ StopClose(a) \/ WatchReturns(a)
    BY <1>1, <2>1, Zenon DEF Exit, StopLock, StopClose, WatchReturns, manager
  <2>2. CASE StopPublish(a) \/ WatchPublish(a)
    BY <1>1, <1>3, <2>2, Zenon DEF StopPublish, WatchPublish
  <2> QED
    BY <1>5, <2>1, <2>2, Zenon DEF StopStep, WatchStep
<1>6. ASSUME NEW id \in Ids, ShutdownInstance(id) \/ Reap(id) PROVE Fewer
  BY <1>1, <1>6, Zenon DEF ShutdownInstance, Reap, manager
<1>7. ASSUME NEW c \in Callers, ShutdownAll(c) \/ ShutdownReturns(c) \/ ShutdownTimeout(c) PROVE Fewer
  BY <1>1, <1>7, Zenon DEF ShutdownAll, ShutdownReturns, ShutdownTimeout, manager
<1>8. ASSUME NEW o \in Ops, OpStep(o) PROVE Fewer
  BY <1>1, <1>8, Zenon DEF OpStep, OpLook, OpLock, OpValidate, OpDone, SnapshotBegin, SnapshotDone,
     BalloonBegin, BalloonDone, manager
<1>9. CASE UNCHANGED vars
  BY <1>1, <1>9, Zenon DEF vars, manager
<1>10. ASSUME Next PROVE Fewer \/ \E a \in Attempts : Register(a) \/ Admits(a)
  <2> HIDE DEF Fewer, Admits
  <2>1. CASE \E a \in Attempts : StartStep(a) \/ Exit(a) \/ StopStep(a) \/ WatchStep(a)
    BY <1>4, <1>5, <2>1, Zenon
  <2>2. CASE \E id \in Ids : ShutdownInstance(id) \/ Reap(id)
    BY <1>6, <2>2, Zenon
  <2>3. CASE \E c \in Callers : ShutdownAll(c) \/ ShutdownReturns(c) \/ ShutdownTimeout(c)
    BY <1>7, <2>3, Zenon
  <2> QED
    BY <1>8, <1>10, <2>1, <2>2, <2>3, Zenon DEF Next
<1> QED
  BY <1>9, <1>10, Zenon

(* What one step does to the slots.                                        *)
LEMMA SlotSteps ==
    ASSUME [Next]_vars
    PROVE  \/ UNCHANGED <<place, load>>
           \/ \E a \in Attempts : ReserveHost(a) \/ ReleaseHost(a)
<1> DEFINE Changes == \E a \in Attempts : ReserveHost(a) \/ ReleaseHost(a)
<1>1. ASSUME NEW a \in Attempts, StartStep(a) PROVE UNCHANGED <<place, load>> \/ Changes
  <2>1. CASE \E id \in Ids, network \in Networks : Admit(a, id, network)
    BY <2>1, Zenon DEF Admit, slots
  <2>2. CASE Boot(a) \/ AbortFinish(a) \/ Register(a) \/ Discard(a)
    BY <2>2, Zenon DEF Boot, AbortFinish, Register, Discard, slots
  <2>3. CASE ReserveHost(a) \/ BootFails(a) \/ AbortClose(a) \/ DiscardClose(a)
    BY <2>3, Zenon DEF BootFails, AbortClose, DiscardClose, CloseInstance
  <2> QED
    BY <1>1, <2>1, <2>2, <2>3, Zenon DEF StartStep
<1>2. ASSUME NEW a \in Attempts, Exit(a) \/ StopStep(a) \/ WatchStep(a)
      PROVE  UNCHANGED <<place, load>> \/ Changes
  <2>1. CASE Exit(a) \/ StopLock(a) \/ StopPublish(a) \/ WatchPublish(a)
    BY <2>1, Zenon DEF Exit, StopLock, StopPublish, WatchPublish, slots
  <2>2. CASE StopClose(a) \/ WatchReturns(a)
    BY <2>2, Zenon DEF StopClose, WatchReturns, CloseInstance
  <2> QED
    BY <1>2, <2>1, <2>2, Zenon DEF StopStep, WatchStep
<1>3. ASSUME NEW id \in Ids, ShutdownInstance(id) \/ Reap(id) PROVE UNCHANGED <<place, load>>
  BY <1>3, Zenon DEF ShutdownInstance, Reap, slots
<1>4. ASSUME NEW c \in Callers, ShutdownAll(c) \/ ShutdownReturns(c) \/ ShutdownTimeout(c)
      PROVE  UNCHANGED <<place, load>>
  BY <1>4, Zenon DEF ShutdownAll, ShutdownReturns, ShutdownTimeout, slots
<1>5. ASSUME NEW o \in Ops, OpStep(o) PROVE UNCHANGED <<place, load>>
  BY <1>5, Zenon DEF OpStep, OpLook, OpLock, OpValidate, OpDone, SnapshotBegin, SnapshotDone,
     BalloonBegin, BalloonDone, slots
<1>6. CASE UNCHANGED vars
  BY <1>6, Zenon DEF vars, slots
<1>7. ASSUME Next PROVE UNCHANGED <<place, load>> \/ Changes
  <2> HIDE DEF Changes
  <2>1. CASE \E a \in Attempts : StartStep(a) \/ Exit(a) \/ StopStep(a) \/ WatchStep(a)
    BY <1>1, <1>2, <2>1, Zenon
  <2>2. CASE \E id \in Ids : ShutdownInstance(id) \/ Reap(id)
    BY <1>3, <2>2, Zenon
  <2>3. CASE \E c \in Callers : ShutdownAll(c) \/ ShutdownReturns(c) \/ ShutdownTimeout(c)
    BY <1>4, <2>3, Zenon
  <2> QED
    BY <1>5, <1>7, <2>1, <2>2, <2>3, ZenonT(60) DEF Next
<1> QED
  BY <1>6, <1>7, Zenon

(* A start goes on from phase to phase, and only Admit begins one.         *)
LEMMA PhaseSteps ==
    ASSUME KInv, VMAssumption, [Next]_vars
    PROVE  \/ \E a \in Attempts, id \in Ids, network \in Networks : Admit(a, id, network)
           \/ /\ UNCHANGED <<ident, addr>>
              /\ \A b \in Attempts :
                   /\ phase'[b] = "admitted" => phase[b] = "admitted"
                   /\ phase'[b] \in Pending \cup {"discarding"} => phase[b] \in Pending \cup {"discarding"}
                   /\ phase'[b] = "registered" => phase[b] = "registered" \/ Register(b)
<1> DEFINE Moves(b) ==
             /\ phase'[b] = "admitted" => phase[b] = "admitted"
             /\ phase'[b] \in Pending \cup {"discarding"} => phase[b] \in Pending \cup {"discarding"}
             /\ phase'[b] = "registered" => phase[b] = "registered" \/ Register(b)
           Admits(a) == \E id \in Ids, network \in Networks : Admit(a, id, network)
           Goes == UNCHANGED <<ident, addr>> /\ \A b \in Attempts : Moves(b)
<1>1. CASE UNCHANGED <<phase, ident, addr>>
  BY <1>1, Zenon
<1>2. ASSUME NEW a \in Attempts, StartStep(a) PROVE Admits(a) \/ Goes
  <2>1. ASSUME ~Admits(a)
        PROVE  /\ UNCHANGED <<ident, addr>>
               /\ \E p : /\ phase' = [phase EXCEPT ![a] = p]
                         /\ p \in {"booting", "booted", "aborting", "discarding", "registered", "ended"}
                         /\ phase[a] \in Pending \cup {"discarding"}
                         /\ p = "registered" => Register(a)
    <3>1. CASE ReserveHost(a) \/ Boot(a) \/ AbortClose(a) \/ Discard(a)
      BY <3>1 DEF ReserveHost, Boot, AbortClose, Discard, Pending
    <3>2. CASE BootFails(a) \/ AbortFinish(a) \/ DiscardClose(a)
      BY <3>2 DEF BootFails, AbortFinish, DiscardClose, FinishStart, Pending
    <3>3. CASE Register(a)
      BY <3>3, ZenonT(60) DEF Register, Pending
    <3> HIDE DEF Admits
    <3>4. \/ ReserveHost(a) \/ Boot(a) \/ AbortClose(a) \/ Discard(a)
          \/ BootFails(a) \/ AbortFinish(a) \/ DiscardClose(a) \/ Register(a)
      BY <1>2, <2>1, Zenon DEF StartStep, Admits
    <3> QED
      BY <3>1, <3>2, <3>3, <3>4, Zenon
  <2>2. CASE ~Admits(a)
    <3> HIDE DEF Admits
    <3>1. PICK p : /\ phase' = [phase EXCEPT ![a] = p]
                   /\ p \in {"booting", "booted", "aborting", "discarding", "registered", "ended"}
                   /\ phase[a] \in Pending \cup {"discarding"}
                   /\ p = "registered" => Register(a)
      BY <2>1, <2>2, Zenon
    <3>2. phase'[a] = p /\ \A b \in Attempts : b # a => phase'[b] = phase[b]
      BY <3>1, Zenon DEF KInv, Shape
    <3>3. Moves(a)
      BY <3>1, <3>2
    <3>4. ASSUME NEW b \in Attempts PROVE Moves(b)
      BY <3>2, <3>3, Zenon
    <3> QED
      BY <2>1, <2>2, <3>4, Zenon
  <2> QED
    BY <2>2, Zenon
<1>3. ASSUME NEW a \in Attempts, Exit(a) \/ StopStep(a) \/ WatchStep(a) PROVE Goes
  BY <1>1, <1>3, Zenon DEF Exit, StopStep, StopLock, StopClose, StopPublish, WatchStep,
     WatchReturns, WatchPublish, starts
<1>4. ASSUME NEW id \in Ids, ShutdownInstance(id) \/ Reap(id) PROVE Goes
  BY <1>1, <1>4, Zenon DEF ShutdownInstance, Reap, starts
<1>5. ASSUME NEW c \in Callers, ShutdownAll(c) \/ ShutdownReturns(c) \/ ShutdownTimeout(c) PROVE Goes
  BY <1>1, <1>5, Zenon DEF ShutdownAll, ShutdownReturns, ShutdownTimeout, starts
<1>6. ASSUME NEW o \in Ops, OpStep(o) PROVE Goes
  BY <1>1, <1>6, Zenon DEF OpStep, OpLook, OpLock, OpValidate, OpDone, SnapshotBegin, SnapshotDone,
     BalloonBegin, BalloonDone, starts
<1>7. CASE UNCHANGED vars
  BY <1>1, <1>7, Zenon DEF vars, starts
<1>8. ASSUME Next PROVE Goes \/ \E a \in Attempts : Admits(a)
  <2> HIDE DEF Goes, Admits
  <2>1. CASE \E a \in Attempts : StartStep(a) \/ Exit(a) \/ StopStep(a) \/ WatchStep(a)
    BY <1>2, <1>3, <2>1, Zenon
  <2>2. CASE \E id \in Ids : ShutdownInstance(id) \/ Reap(id)
    BY <1>4, <2>2, Zenon
  <2>3. CASE \E c \in Callers : ShutdownAll(c) \/ ShutdownReturns(c) \/ ShutdownTimeout(c)
    BY <1>5, <2>3, Zenon
  <2> QED
    BY <1>6, <1>8, <2>1, <2>2, <2>3, Zenon DEF Next
<1> QED
  BY <1>7, <1>8, Zenon

(* What has an address after a step had it before, unless it was admitted  *)
(* just now.                                                               *)
LEMMA LiveSteps ==
    ASSUME KInv, MInv, VMAssumption, [Next]_vars
    PROVE  \/ \E a \in Attempts, id \in Ids, network \in Networks : Admit(a, id, network)
           \/ \A b \in Attempts : addr'[b] = addr[b] /\ (Live(b)' => Live(b))
<1>1. SUFFICES ASSUME ~\E a \in Attempts, id \in Ids, network \in Networks : Admit(a, id, network)
               PROVE  \A b \in Attempts : addr'[b] = addr[b] /\ (Live(b)' => Live(b))
  BY Zenon
<1>2. /\ UNCHANGED <<ident, addr>>
      /\ \A b \in Attempts :
           /\ phase'[b] \in Pending \cup {"discarding"} => phase[b] \in Pending \cup {"discarding"}
           /\ phase'[b] = "registered" => phase[b] = "registered" \/ Register(b)
  BY <1>1, PhaseSteps, Zenon
<1>3. ASSUME NEW b \in Attempts, Live(b)' PROVE Live(b)
  <2>1. CASE phase'[b] \in Pending \cup {"discarding"}
    BY <1>2, <2>1, Zenon DEF Live, Holder
  <2>2. CASE phase'[b] = "registered" /\ Here(b)'
    <3>1. CASE Register(b)
      BY <3>1 DEF Register, Live, Holder, Pending
    <3>2. CASE phase[b] = "registered"
      <4>1. ident[b] \in Ids /\ b # NoOne /\ running'[ident[b]] = b
        BY <1>2, <2>2, <3>2 DEF KInv, Named, Here, VMAssumption
      <4>2. CASE \E a \in Attempts : Register(a)
        <5>1. PICK a \in Attempts : Register(a)
          BY <4>2, Zenon
        <5>2. a # b
          BY <3>2, <5>1 DEF Register
        <5>3. running' = [running EXCEPT ![ident[a]] = a]
          BY <5>1, Zenon DEF Register
        <5>4. running[ident[b]] = b
          BY <4>1, <5>2, <5>3, Zenon DEF KInv, Shape
        <5> QED
          BY <3>2, <5>4, Zenon DEF Live, Holder, Here
      <4>3. CASE running'[ident[b]] # NoOne => running'[ident[b]] = running[ident[b]]
        BY <3>2, <4>1, <4>3, Zenon DEF Live, Holder, Here
      <4> QED
        BY <1>1, <4>1, <4>2, <4>3, MapSteps, ZenonT(60)
    <3> QED
      BY <1>2, <2>2, <3>1, <3>2, Zenon
  <2> QED
    BY <1>3, <2>1, <2>2, Zenon DEF Live, Holder
<1> QED
  BY <1>2, <1>3, Zenon

(* What the invariants above leave open of TypeOK.                         *)
StopSteps == {"idle", "lock", "close", "ok", "err"}

(* The steps of watch.                                                     *)
WatchSteps == {"off", "waiting", "returned", "done"}

(* The phases of a start and its machine.                                  *)
Phases ==
    {"idle", "admitted", "booting", "booted", "aborting", "discarding", "registered", "ended"}

(* The states of an instance.                                              *)
Insts == {"none", "live", "dead", "closed"}

(* The states of starts, stops and watches.                                *)
Words ==
    /\ phase \in [Attempts -> Phases] /\ inst \in [Attempts -> Insts]
    /\ ident \in [Attempts -> Ids \cup {NoOne}] /\ cleanupErr \in [Attempts -> BOOLEAN]
    /\ stopping \in [Attempts -> BOOLEAN] /\ stopPc \in [Attempts -> StopSteps]
    /\ watch \in [Attempts -> WatchSteps]

(* The holders of the locks.                                               *)
LockWords ==
    /\ lifecycle \in [Attempts -> Attempts \cup Ops \cup {NoOne}]
    /\ balloon \in [Attempts -> Ops \cup {NoOne}]

(* The program counters of starts, stops and the watch.                    *)
LEMMA WordsNext ==
    ASSUME Words, VMAssumption, [Next]_vars
    PROVE  Words'
<1>0. ASSUME NEW a \in Attempts, NEW ok, CloseInstance(a, ok) PROVE inst' \in [Attempts -> Insts]
  <2>1. PICK now \in {inst[a], IF inst[a] = "live" THEN "closed" ELSE inst[a]} :
          inst' = [inst EXCEPT ![a] = now]
    BY <1>0, Zenon DEF CloseInstance
  <2>2. now \in Insts /\ inst \in [Attempts -> Insts]
    BY <2>1 DEF Words, Insts
  <2> QED
    BY <2>1, <2>2, Zenon
<1>1. ASSUME NEW a \in Attempts, StartStep(a) PROVE Words'
  <2>1. UNCHANGED <<stopping, stopPc>>
    BY <1>1, Zenon DEF StartStep, Admit, ReserveHost, Boot, BootFails, AbortClose, AbortFinish,
       Register, Discard, DiscardClose, machine
  <2>2. ident' = ident \/ \E id \in Ids : ident' = [ident EXCEPT ![a] = id]
    BY <1>1, Zenon DEF StartStep, Admit, ReserveHost, Boot, BootFails, AbortClose, AbortFinish,
       Register, Discard, DiscardClose
  <2>3. watch' = watch \/ watch' = [watch EXCEPT ![a] = "waiting"]
    BY <1>1, Zenon DEF StartStep, Admit, ReserveHost, Boot, BootFails, AbortClose, AbortFinish,
       Register, Discard, DiscardClose, machine
  <2>4. cleanupErr' = cleanupErr \/ \E x \in BOOLEAN : cleanupErr' = [cleanupErr EXCEPT ![a] = x]
    <3>1. CASE AbortClose(a)
      <4>1. PICK ok \in BOOLEAN, shares \in BOOLEAN :
              cleanupErr' = [cleanupErr EXCEPT ![a] = shares /\ ~ok]
        BY <3>1, Zenon DEF AbortClose
      <4>2. (shares /\ ~ok) \in BOOLEAN
        OBVIOUS
      <4> QED
        BY <4>1, <4>2, Zenon
    <3>2. CASE DiscardClose(a)
      <4>1. PICK ok \in BOOLEAN : cleanupErr' = [cleanupErr EXCEPT ![a] = ~ok]
        BY <3>2, Zenon DEF DiscardClose
      <4>2. (~ok) \in BOOLEAN
        OBVIOUS
      <4> QED
        BY <4>1, <4>2, Zenon
    <3> QED
      BY <1>1, <3>1, <3>2, Zenon DEF StartStep, Admit, ReserveHost, Boot, BootFails, AbortFinish,
         Register, Discard
  <2>5. ident' \in [Attempts -> Ids \cup {NoOne}]
    BY <2>2, Zenon DEF Words
  <2>6. watch' \in [Attempts -> WatchSteps]
    BY <2>3 DEF Words, WatchSteps
  <2>7. cleanupErr' \in [Attempts -> BOOLEAN]
    BY <2>4, Zenon DEF Words
  <2>8. phase' \in [Attempts -> Phases]
    <3>1. PICK p \in Phases : phase' = [phase EXCEPT ![a] = p]
      <4>1. CASE \E id \in Ids, network \in Networks : Admit(a, id, network)
        BY <4>1, SMTT(30) DEF Admit, Phases
      <4>2. CASE ReserveHost(a) \/ Boot(a) \/ AbortClose(a) \/ Register(a) \/ Discard(a)
        BY <4>2 DEF ReserveHost, Boot, AbortClose, Register, Discard, Phases
      <4>3. CASE BootFails(a) \/ AbortFinish(a) \/ DiscardClose(a)
        BY <4>3 DEF BootFails, AbortFinish, DiscardClose, FinishStart, Phases
      <4> QED
        BY <1>1, <4>1, <4>2, <4>3, Zenon DEF StartStep
    <3> QED
      BY <3>1, Zenon DEF Words
  <2>9. inst' \in [Attempts -> Insts]
    <3>1. CASE Boot(a)
      BY <3>1 DEF Boot, Words, Insts
    <3>2. CASE AbortClose(a) \/ DiscardClose(a)
      BY <1>0, <3>2, Zenon DEF AbortClose, DiscardClose
    <3> QED
      BY <1>1, <3>1, <3>2, Zenon DEF StartStep, Admit, ReserveHost, BootFails, AbortFinish,
         Register, Discard, Words
  <2> QED
    BY <2>1, <2>5, <2>6, <2>7, <2>8, <2>9, Zenon DEF Words
<1>2. ASSUME NEW a \in Attempts, Exit(a) \/ StopStep(a) \/ WatchStep(a) PROVE Words'
  <2>1. UNCHANGED <<phase, ident, cleanupErr>>
    BY <1>2, Zenon DEF Exit, StopStep, StopLock, StopClose, StopPublish, WatchStep,
       WatchReturns, WatchPublish, starts
  <2>2. stopping' \in [Attempts -> BOOLEAN]
    <3>1. stopping' = stopping \/ stopping' = [stopping EXCEPT ![a] = FALSE]
      BY <1>2, Zenon DEF Exit, StopStep, StopLock, StopClose, StopPublish, WatchStep,
         WatchReturns, WatchPublish, machine
    <3> QED
      BY <3>1, Zenon DEF Words
  <2>3. stopPc' \in [Attempts -> StopSteps]
    <3>1. stopPc' = stopPc \/ \E p \in StopSteps : stopPc' = [stopPc EXCEPT ![a] = p]
      <4>1. CASE StopLock(a) \/ StopPublish(a)
        BY <4>1 DEF StopLock, StopPublish, StopSteps
      <4>2. CASE StopClose(a)
        BY <4>2, ZenonT(60) DEF StopClose, StopSteps
      <4> QED
        BY <1>2, <4>1, <4>2, Zenon DEF Exit, StopStep, WatchStep, WatchReturns, WatchPublish, machine
    <3> QED
      BY <3>1, Zenon DEF Words
  <2>4. watch' \in [Attempts -> WatchSteps]
    <3>1. watch' = watch \/ \E w \in {"returned", "done"} : watch' = [watch EXCEPT ![a] = w]
      BY <1>2, Zenon DEF Exit, StopStep, StopLock, StopClose, StopPublish, WatchStep,
         WatchReturns, WatchPublish, machine
    <3> QED
      BY <3>1 DEF Words, WatchSteps
  <2>5. inst' \in [Attempts -> Insts]
    <3>1. CASE Exit(a)
      BY <3>1 DEF Exit, Words, Insts
    <3>2. CASE StopClose(a)
      BY <1>0, <3>2, Zenon DEF StopClose
    <3> QED
      BY <1>2, <3>1, <3>2, ZenonT(60) DEF StopStep, StopLock, StopPublish, WatchStep, WatchReturns,
         WatchPublish, Words
  <2> QED
    BY <2>1, <2>2, <2>3, <2>4, <2>5, Zenon DEF Words
<1>3. ASSUME NEW S, BeginStops(S), UNCHANGED <<phase, ident, cleanupErr, inst, watch>> PROVE Words'
  <2>1. stopping' \in [Attempts -> BOOLEAN]
    BY <1>3 DEF BeginStops
  <2>2. stopPc' \in [Attempts -> StopSteps]
    BY <1>3 DEF BeginStops, Words, StopSteps
  <2> QED
    BY <1>3, <2>1, <2>2, Zenon DEF Words
<1>4. CASE UNCHANGED <<starts, machine, inst>>
  BY <1>4, Zenon DEF Words, starts, machine
<1>5. ASSUME NEW id \in Ids, ShutdownInstance(id) \/ Reap(id) PROVE Words'
  BY <1>3, <1>4, <1>5, Zenon DEF ShutdownInstance, Reap, starts
<1>6. ASSUME NEW c \in Callers, ShutdownAll(c) PROVE Words'
  BY <1>3, <1>6, Zenon DEF ShutdownAll, starts
<1>7. ASSUME NEW c \in Callers, ShutdownReturns(c) \/ ShutdownTimeout(c) PROVE Words'
  BY <1>4, <1>7, Zenon DEF ShutdownReturns, ShutdownTimeout
<1>8. ASSUME NEW o \in Ops, OpStep(o) PROVE Words'
  BY <1>4, <1>8, Zenon DEF OpStep, OpLook, OpLock, OpValidate, OpDone, SnapshotBegin, SnapshotDone,
     BalloonBegin, BalloonDone
<1>9. CASE UNCHANGED vars
  BY <1>4, <1>9, Zenon DEF vars
<1> QED
  BY <1>1, <1>2, <1>5, <1>6, <1>7, <1>8, <1>9, Zenon DEF Next

(* Who holds the locks of a machine.                                       *)
LEMMA LocksNext ==
    ASSUME LockWords, VMAssumption, [Next]_vars
    PROVE  LockWords'
<1>1. ASSUME NEW a, NEW x \in Attempts \cup Ops \cup {NoOne},
             lifecycle' = [lifecycle EXCEPT ![a] = x], UNCHANGED balloon
      PROVE  LockWords'
  BY <1>1, ZenonT(60) DEF LockWords
<1>2. ASSUME NEW a, NEW x \in Ops \cup {NoOne},
             balloon' = [balloon EXCEPT ![a] = x], UNCHANGED lifecycle
      PROVE  LockWords'
  BY <1>2, Zenon DEF LockWords
<1>3. CASE UNCHANGED <<lifecycle, balloon>>
  BY <1>3, Zenon DEF LockWords
<1>4. ASSUME NEW a \in Attempts, StartStep(a) \/ Exit(a) \/ WatchStep(a) PROVE LockWords'
  BY <1>3, <1>4, Zenon DEF StartStep, Admit, ReserveHost, Boot, BootFails, AbortClose, AbortFinish,
     Register, Discard, DiscardClose, Exit, WatchStep, WatchReturns, WatchPublish, locks
<1>5. ASSUME NEW a \in Attempts, StopStep(a) PROVE LockWords'
  BY <1>1, <1>3, <1>5, Zenon DEF StopStep, StopLock, StopClose, StopPublish, locks
<1>6. ASSUME NEW id \in Ids, ShutdownInstance(id) \/ Reap(id) PROVE LockWords'
  BY <1>3, <1>6, Zenon DEF ShutdownInstance, Reap, locks
<1>7. ASSUME NEW c \in Callers, ShutdownAll(c) \/ ShutdownReturns(c) \/ ShutdownTimeout(c)
      PROVE  LockWords'
  BY <1>3, <1>7, Zenon DEF ShutdownAll, ShutdownReturns, ShutdownTimeout, locks
<1>8. ASSUME NEW o \in Ops, OpStep(o) PROVE LockWords'
  <2>1. CASE (\E id \in Ids : OpLook(o, id)) \/ SnapshotBegin(o)
    BY <1>3, <2>1, Zenon DEF OpLook, SnapshotBegin, locks
  <2>2. CASE OpLock(o) \/ OpValidate(o) \/ OpDone(o) \/ SnapshotDone(o)
    BY <1>1, <1>3, <2>2, Zenon DEF OpLock, OpValidate, OpDone, SnapshotDone
  <2>3. CASE BalloonBegin(o) \/ BalloonDone(o)
    BY <1>2, <1>3, <2>3, Zenon DEF BalloonBegin, BalloonDone
  <2> QED
    BY <1>8, <2>1, <2>2, <2>3, Zenon DEF OpStep
<1>9. CASE UNCHANGED vars
  BY <1>3, <1>9, Zenon DEF vars, locks
<1> QED
  BY <1>4, <1>5, <1>6, <1>7, <1>8, <1>9, Zenon DEF Next
=============================================================================
