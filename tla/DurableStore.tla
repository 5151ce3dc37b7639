---------------------------- MODULE DurableStore ----------------------------
(***************************************************************************)
(* What the persistent image store promises: a durability barrier takes     *)
(* effect at once or not at all, also when a power failure interrupts it,   *)
(* and a barrier is acknowledged only once a power failure cannot undo it.  *)
(***************************************************************************)

CONSTANTS Keys, Values, Absent

VARIABLES
  store,     \* the state that opening the store after a power failure yields
  phase,     \* no attachment, an idle one, or one with a barrier in progress
  request,   \* the delta of the barrier in progress
  promised   \* the states the callers have to expect after a failure

Delta == UNION {[K -> Values] : K \in SUBSET Keys}
After(s, d) == [k \in Keys |-> IF k \in DOMAIN d THEN d[k] ELSE s[k]]
Nothing == [k \in {} |-> Absent]

Init ==
  /\ store = [k \in Keys |-> Absent]
  /\ phase = "closed"
  /\ request = Nothing
  /\ promised = {store}

\* Opening shows the callers which of the promised states survived.
Open ==
  /\ phase = "closed" /\ phase' = "idle"
  /\ promised' \in {promised, {store}}
  /\ UNCHANGED <<store, request>>

\* Creating the store runs a first, empty barrier without an attachment.
Begin ==
  /\ phase' = "busy"
  /\ \/ phase = "idle" /\ request' \in Delta
     \/ phase = "closed" /\ request' = Nothing
  /\ promised' = promised \cup {After(s, request') : s \in promised}
  /\ UNCHANGED store

Commit ==
  /\ phase = "busy"
  /\ store' = After(store, request)
  /\ UNCHANGED <<phase, request, promised>>

Stop ==
  /\ phase = "busy" /\ phase' \in {"idle", "closed"}
  /\ request' = Nothing
  /\ UNCHANGED store

Acknowledge ==
  /\ store = After(store, request)
  /\ promised' = {After(s, request) : s \in promised}
  /\ Stop

\* A barrier that fails may have taken effect, and promises nothing.
Fail == Stop /\ UNCHANGED promised

PowerFailure ==
  /\ phase' = "closed" /\ request' = Nothing
  /\ store' \in {store, After(store, request)}
  /\ UNCHANGED promised

Next == Open \/ Begin \/ Commit \/ Acknowledge \/ Fail \/ PowerFailure

Spec == Init /\ [][Next]_<<store, phase, request, promised>>

\* Whenever the power fails, the callers find a state they expect.
Kept == store \in promised
=============================================================================
