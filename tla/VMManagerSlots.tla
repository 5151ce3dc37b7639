--------------------------- MODULE VMManagerSlots ---------------------------
(***************************************************************************)
(* Proofs about what machines share, for any number of names, starts,      *)
(* hosts and leases: a start that was admitted finds a host with room, an  *)
(* instance holds its slot until its Close fails, and two instances that   *)
(* run have different addresses.  The types of the whole manager are       *)
(* proved here too, because they bound the hosts' counts and the           *)
(* tombstones.                                                             *)
(*                                                                         *)
(* DInv counts.  The slots that starts have or will ask for belong to      *)
(* names in the maps as long as the manager is not closing (SlotsInMaps),  *)
(* so checkCapacityLocked admits no start too many; when every host is     *)
(* full they are MaxVMs (AllFull).  Leases are counted in the same way: if *)
(* the smallest free number were beyond the last, the names would hold     *)
(* LastLease - 1 leases, more than there are machines (LeaseFree).  Names  *)
(* and attempts may be infinitely many: that the maps are finite is part   *)
(* of DInv.                                                                *)
(***************************************************************************)
EXTENDS VMManagerCallers, FiniteSetTheorems

(* No two starts or machines that may have an instance (Live) share an     *)
(* address.                                                                *)
Distinct ==
    \A a, b \in Attempts : a # b /\ Live(a) /\ Live(b) /\ addr[a] # 0 => addr[a] # addr[b]

(* placementVMHost counts the slots of each host, up to MaxVMs of it.      *)
Placed(h) == {a \in Attempts : place[a] = h}
(* The count of a host is the number of its slots.                         *)
Counted ==
    \A h \in 1..Hosts :
        IsFiniteSet(Placed(h)) /\ load[h] = Cardinality(Placed(h)) /\ load[h] <= HostMax

(* The slots that starts and machines have, or will ask for, are as many   *)
(* as the hosts have.                                                      *)
Slots == {a \in Attempts : phase[a] = "admitted" \/ place[a] # 0}
(* The slots fit into the hosts.                                           *)
Fits == IsFiniteSet(Slots) /\ Cardinality(Slots) <= MaxVMs

(* checkCapacityLocked keeps the maps finite.                              *)
FewNames == IsFiniteSet(Registered) /\ IsFiniteSet(Starting)

(* What admission and placement rely on.                                   *)
DInv == FewNames /\ Counted /\ Fits

-----------------------------------------------------------------------------
(* The lease of a start.                                                   *)

(* ensureNetworkLeaseLocked gives a free number as long as there is one.   *)
LEMMA LeaseFound ==
    ASSUME VMAssumption, NEW id \in Ids, leases[id] = 0
    PROVE  /\ NewLease(id) \in 2..(LastLease + 1)
           /\ NewLease(id) \in UsedLeases => \A k \in 2..LastLease : k \in UsedLeases
<1> DEFINE Free == {n \in 2..(LastLease + 1) : n \in UsedLeases => n = LastLease + 1}
           P(n) == /\ n \in UsedLeases => n = LastLease + 1
                   /\ \A k \in 2..(n - 1) : k \in UsedLeases
<1>1. LastLease + 1 \in Free /\ Free \subseteq Nat /\ LastLease \in Nat /\ Free # {}
  BY DEF VMAssumption
<1>2. PICK n \in Free : \A k \in Free : ~(<<k, n>> \in OpToRel(<, Nat))
  <2> HIDE DEF Free
  <2> QED
    BY <1>1, WFMin, NatLessThanWellFounded, Zenon
<1>3. \A k \in Free : ~(k < n)
  BY <1>1, <1>2, ZenonT(60) DEF OpToRel
<1>4. P(n)
  <2>1. ASSUME NEW k \in 2..(n - 1), k \notin UsedLeases PROVE FALSE
    <3>1. k \in 2..(LastLease + 1) /\ k < n
      BY <1>1
    <3> QED
      BY <1>3, <2>1, <3>1
  <2> QED
    BY <2>1
<1>5. NewLease(id) = CHOOSE m \in 2..(LastLease + 1) : P(m)
  BY Zenon DEF NewLease
<1>6. NewLease(id) \in 2..(LastLease + 1) /\ P(NewLease(id))
  <2>1. n \in 2..(LastLease + 1)
    OBVIOUS
  <2> HIDE DEF P
  <2> QED
    BY <1>4, <1>5, <2>1, Zenon
<1>7. ASSUME NewLease(id) \in UsedLeases PROVE \A k \in 2..LastLease : k \in UsedLeases
  <2>1. NewLease(id) = LastLease + 1 /\ \A k \in 2..(NewLease(id) - 1) : k \in UsedLeases
    BY <1>6, <1>7, Zenon
  <2>2. (LastLease + 1) - 1 = LastLease
    BY <1>1
  <2> QED
    BY <2>1, <2>2, Zenon
<1> QED
  BY <1>6, <1>7, Zenon

-----------------------------------------------------------------------------
(* How many names, slots and leases there are.                             *)

(* A map of a finite set of names has no more values than names.           *)
LEMMA Values ==
    ASSUME NEW S, IsFiniteSet(S), NEW f
    PROVE  /\ IsFiniteSet({f[x] : x \in S})
           /\ Cardinality({f[x] : x \in S}) <= Cardinality(S)
<1> DEFINE T == {f[x] : x \in S}
           g == [x \in S |-> f[x]]
<1>1. g \in Surjection(S, T)
  BY DEF Surjection
<1> HIDE DEF g, T
<1>2. IsFiniteSet(T) /\ Cardinality(T) <= Cardinality(S)
  BY <1>1, FS_Surjection, Zenon
<1> QED
  BY <1>2 DEF T

(* What belongs to the names in the maps is less than MaxVMs as long as    *)
(* checkCapacityLocked admits another start.                               *)
LEMMA Capacity ==
    ASSUME FewNames, HasCapacity, VMAssumption, NEW f, NEW g, NEW U,
           U \subseteq {f[id] : id \in Registered} \cup {g[id] : id \in Starting}
    PROVE  IsFiniteSet(U) /\ Cardinality(U) < MaxVMs
<1> DEFINE F == {f[id] : id \in Registered}
           G == {g[id] : id \in Starting}
<1>1. IsFiniteSet(F) /\ Cardinality(F) <= Cardinality(Registered)
  BY Values, Zenon DEF FewNames
<1>2. IsFiniteSet(G) /\ Cardinality(G) <= Cardinality(Starting)
  BY Values, Zenon DEF FewNames
<1> HIDE DEF F, G
<1>3. /\ IsFiniteSet(F \cup G)
      /\ Cardinality(F \cup G) = Cardinality(F) + Cardinality(G) - Cardinality(F \cap G)
  BY <1>1, <1>2, FS_Union, Zenon
<1>4. Cardinality(F \cap G) \in Nat
  BY <1>1, FS_Intersection, FS_CardinalityType, Zenon
<1>5. U \in SUBSET (F \cup G)
  BY DEF F, G
<1>6. IsFiniteSet(U) /\ Cardinality(U) <= Cardinality(F \cup G)
  BY <1>3, <1>5, FS_Subset, Zenon
<1>7. /\ Cardinality(U) \in Nat /\ Cardinality(F) \in Nat /\ Cardinality(G) \in Nat
      /\ Cardinality(F \cup G) \in Nat
      /\ Cardinality(Registered) \in Nat /\ Cardinality(Starting) \in Nat
  BY <1>1, <1>2, <1>3, <1>6, FS_CardinalityType, Zenon DEF FewNames
<1>8. Cardinality(Registered) + Cardinality(Starting) < MaxVMs /\ MaxVMs \in Nat
  BY DEF HasCapacity, MaxVMs, VMAssumption
<1> QED
  BY <1>1, <1>2, <1>3, <1>4, <1>6, <1>7, <1>8

(* The maps stay finite.                                                   *)
LEMMA FewNext ==
    ASSUME KInv, FewNames, VMAssumption, [Next]_vars
    PROVE  FewNames'
<1>1. ASSUME NEW id \in Ids, Registered' \subseteq Registered \cup {id},
             Starting' \subseteq Starting \cup {id}
      PROVE  FewNames'
  <2>1. IsFiniteSet(Registered \cup {id}) /\ IsFiniteSet(Starting \cup {id})
    BY FS_AddElement, Zenon DEF FewNames
  <2>2. Registered' \in SUBSET (Registered \cup {id}) /\ Starting' \in SUBSET (Starting \cup {id})
    BY <1>1, Zenon
  <2>3. IsFiniteSet(Registered') /\ IsFiniteSet(Starting')
    BY <2>1, <2>2, FS_Subset, Zenon
  <2> QED
    BY <2>3, Zenon DEF FewNames, Registered, Starting
<1>2. ASSUME Registered' \subseteq Registered, Starting' \subseteq Starting PROVE FewNames'
  <2>1. Registered' \in SUBSET Registered /\ Starting' \in SUBSET Starting
    BY <1>2, Zenon
  <2>2. IsFiniteSet(Registered') /\ IsFiniteSet(Starting')
    BY <2>1, FS_Subset, Zenon DEF FewNames
  <2> QED
    BY <2>2, Zenon DEF FewNames, Registered, Starting
<1>3. CASE \E a \in Attempts, id \in Ids, network \in Networks : Admit(a, id, network)
  <2>1. PICK a \in Attempts, id \in Ids, network \in Networks : Admit(a, id, network)
    BY <1>3, Zenon
  <2>2. /\ UNCHANGED running /\ \A i \in Ids : i # id => starting'[i] = starting[i]
    BY <2>1, Zenon DEF Admit, KInv, Shape
  <2> QED
    BY <1>1, <2>2, Zenon DEF Registered, Starting
<1>4. CASE \E a \in Attempts : Register(a)
  <2>1. PICK a \in Attempts : Register(a)
    BY <1>4, Zenon
  <2>2. ident[a] \in Ids
    BY <2>1 DEF Register, KInv, Named
  <2>3. \A i \in Ids : i # ident[a] => running'[i] = running[i] /\ starting'[i] = starting[i]
    BY <2>1, Zenon DEF Register, KInv, Shape
  <2> QED
    BY <1>1, <2>2, <2>3, Zenon DEF Registered, Starting
<1>5. CASE \A id \in Ids : /\ running'[id] # NoOne => running'[id] = running[id]
                           /\ starting'[id] # NoOne => starting'[id] = starting[id]
  BY <1>2, <1>5, Zenon DEF Registered, Starting
<1> QED
  BY <1>3, <1>4, <1>5, MapSteps, Zenon

(* reserveHost and releaseHost count the slots they give and take.         *)
LEMMA CountedNext ==
    ASSUME MInv, Counted, VMAssumption, [Next]_vars
    PROVE  Counted'
<1>0. /\ place \in [Attempts -> 0..Hosts] /\ load \in [1..Hosts -> Nat]
      /\ Hosts \in Nat /\ HostMax \in Nat
  BY DEF MInv, Shape3, VMAssumption
<1>1. CASE UNCHANGED <<place, load>>
  BY <1>1, Zenon DEF Counted, Placed
<1>2. ASSUME NEW a \in Attempts, ReserveHost(a) PROVE Counted'
  <2>1. PICK h \in 1..Hosts : /\ load[h] < HostMax /\ load' = [load EXCEPT ![h] = @ + 1]
                              /\ place' = [place EXCEPT ![a] = h]
    BY <1>2, Zenon DEF ReserveHost
  <2>2. place[a] = 0
    BY <1>2 DEF ReserveHost, MInv, Local, Slotted
  <2>3. /\ load'[h] = load[h] + 1 /\ \A g \in 1..Hosts : g # h => load'[g] = load[g]
        /\ place'[a] = h /\ \A b \in Attempts : b # a => place'[b] = place[b]
    BY <1>0, <2>1, Zenon
  <2>4. Placed(h)' = Placed(h) \cup {a} /\ a \notin Placed(h)
    BY <2>1, <2>2, <2>3 DEF Placed
  <2>5. \A g \in 1..Hosts : g # h => Placed(g)' = Placed(g)
    BY <2>2, <2>3 DEF Placed
  <2>6. IsFiniteSet(Placed(h)) /\ load[h] = Cardinality(Placed(h))
    BY Zenon DEF Counted
  <2>7. /\ IsFiniteSet(Placed(h) \cup {a})
        /\ Cardinality(Placed(h) \cup {a}) = Cardinality(Placed(h)) + 1
    BY <2>4, <2>6, FS_AddElement, ZenonT(60)
  <2>8. load'[h] <= HostMax
    BY <1>0, <2>1, <2>3
  <2> QED
    BY <2>3, <2>4, <2>5, <2>6, <2>7, <2>8, ZenonT(60) DEF Counted
<1>3. ASSUME NEW a \in Attempts, ReleaseHost(a) PROVE Counted'
  <2>1. place' = [place EXCEPT ![a] = 0]
    BY <1>3, Zenon DEF ReleaseHost
  <2>2. place'[a] = 0 /\ \A b \in Attempts : b # a => place'[b] = place[b]
    BY <1>0, <2>1, Zenon
  <2>3. CASE place[a] = 0
    <3>1. load' = load
      BY <1>3, <2>3, Zenon DEF ReleaseHost
    <3>2. \A b \in Attempts : place'[b] = place[b]
      BY <2>2, <2>3, Zenon
    <3> QED
      BY <3>1, <3>2, Zenon DEF Counted, Placed
  <2>4. CASE place[a] # 0
    <3>0. PICK h \in 1..Hosts : h = place[a]
      BY <1>0, <2>4
    <3>1. a \in Placed(h)
      BY <3>0, Zenon DEF Placed
    <3>2. IsFiniteSet(Placed(h)) /\ load[h] = Cardinality(Placed(h)) /\ load[h] <= HostMax
      BY <3>1, Zenon DEF Counted
    <3>3. /\ IsFiniteSet(Placed(h) \ {a})
          /\ Cardinality(Placed(h) \ {a}) = Cardinality(Placed(h)) - 1
          /\ load[h] # 0
      BY <3>1, <3>2, FS_RemoveElement, FS_EmptySet
    <3>4. load' = [load EXCEPT ![h] = @ - 1]
      BY <1>3, <2>4, <3>0, <3>3, Zenon DEF ReleaseHost
    <3>5. load'[h] = load[h] - 1 /\ \A g \in 1..Hosts : g # h => load'[g] = load[g]
      BY <1>0, <3>4, Zenon
    <3>6. Placed(h)' = Placed(h) \ {a}
      BY <2>2, <3>1 DEF Placed
    <3>7. \A g \in 1..Hosts : g # h => Placed(g)' = Placed(g)
      BY <2>2, <3>0 DEF Placed
    <3>8. load'[h] <= HostMax
      BY <1>0, <3>1, <3>2, <3>5
    <3> QED
      BY <3>2, <3>3, <3>5, <3>6, <3>7, <3>8, Zenon DEF Counted
  <2> QED
    BY <2>3, <2>4
<1> QED
  BY <1>1, <1>2, <1>3, SlotSteps, Zenon

(* What has a slot or will ask for one is in the maps while the manager is *)
(* not closing.                                                            *)
LEMMA SlotsInMaps ==
    ASSUME KInv, MInv, VMAssumption, ~closing
    PROVE  Slots \subseteq {running[id] : id \in Registered} \cup {starting[id] : id \in Starting}
<1>1. SUFFICES ASSUME NEW a \in Attempts, phase[a] = "admitted" \/ place[a] # 0
               PROVE  \/ a \in {running[id] : id \in Registered}
                      \/ a \in {starting[id] : id \in Starting}
  BY Zenon DEF Slots
<1>2. Local(a) /\ a # NoOne
  BY Zenon DEF MInv, VMAssumption
<1>3. phase[a] \in Pending \/ (phase[a] = "registered" /\ Here(a))
  BY <1>1, <1>2 DEF Local, Slotted, Begun, Watched, Pending
<1>4. ident[a] \in Ids
  BY <1>3 DEF KInv, Named, Pending
<1>5. CASE phase[a] \in Pending
  <2>1. starting[ident[a]] = a
    BY <1>2, <1>5, Zenon DEF Local, Begun
  <2> QED
    BY <1>2, <1>4, <2>1, Zenon DEF Starting
<1>6. CASE Here(a)
  BY <1>2, <1>4, <1>6, Zenon DEF Here, Registered
<1> QED
  BY <1>3, <1>5, <1>6, Zenon

(* checkCapacityLocked admits no more starts than there are slots.         *)
LEMMA FitsNext ==
    ASSUME KInv, MInv, FewNames, Fits, VMAssumption, [Next]_vars
    PROVE  Fits'
<1>0. MaxVMs \in Nat /\ MaxVMs' = MaxVMs
  BY DEF MaxVMs, VMAssumption
<1>1. ASSUME NEW a \in Attempts, NEW id \in Ids, NEW network \in Networks, Admit(a, id, network)
      PROVE  Fits'
  <2>1. Slots \subseteq {running[i] : i \in Registered} \cup {starting[i] : i \in Starting}
    BY <1>1, SlotsInMaps, Zenon DEF Admit
  <2>0. HasCapacity
    BY <1>1, Zenon DEF Admit
  <2>2. IsFiniteSet(Slots) /\ Cardinality(Slots) < MaxVMs
    BY <2>0, <2>1, Capacity
  <2>3. Slots' \subseteq Slots \cup {a}
    <3>1. UNCHANGED place /\ \A b \in Attempts : b # a => phase'[b] = phase[b]
      BY <1>1, Zenon DEF Admit, slots, KInv, Shape
    <3> QED
      BY <3>1, Zenon DEF Slots
  <2>4. IsFiniteSet(Slots \cup {a}) /\ Cardinality(Slots \cup {a}) <= Cardinality(Slots) + 1
    <3>1. /\ IsFiniteSet(Slots \cup {a})
          /\ Cardinality(Slots \cup {a}) = IF a \in Slots THEN Cardinality(Slots)
                                           ELSE Cardinality(Slots) + 1
      BY <2>2, FS_AddElement, Zenon
    <3>2. Cardinality(Slots) \in Nat
      BY <2>2, FS_CardinalityType, Zenon
    <3> QED
      BY <3>1, <3>2
  <2>5. IsFiniteSet(Slots') /\ Cardinality(Slots') <= Cardinality(Slots \cup {a})
    BY <2>3, <2>4, FS_Subset
  <2>6. /\ Cardinality(Slots) \in Nat /\ Cardinality(Slots \cup {a}) \in Nat
        /\ Cardinality(Slots') \in Nat
    BY <2>2, <2>4, <2>5, FS_CardinalityType, Zenon
  <2>7. Cardinality(Slots') <= MaxVMs
    BY <1>0, <2>2, <2>4, <2>5, <2>6
  <2> QED
    BY <1>0, <2>5, <2>7, Zenon DEF Fits
<1>2. ASSUME Slots' \subseteq Slots PROVE Fits'
  <2>1. IsFiniteSet(Slots) /\ Cardinality(Slots) <= MaxVMs /\ Slots' \in SUBSET Slots
    BY <1>2, Zenon DEF Fits
  <2>2. IsFiniteSet(Slots') /\ Cardinality(Slots') <= Cardinality(Slots)
    BY <2>1, FS_Subset, Zenon
  <2>3. Cardinality(Slots) \in Nat /\ Cardinality(Slots') \in Nat
    BY <2>1, <2>2, FS_CardinalityType, Zenon
  <2>4. Cardinality(Slots') <= MaxVMs
    BY <1>0, <2>1, <2>2, <2>3
  <2> QED
    BY <1>0, <2>2, <2>4, Zenon DEF Fits
<1>3. ASSUME \A b \in Attempts : phase'[b] = "admitted" => phase[b] = "admitted"
      PROVE  Slots' \subseteq Slots
  <2>1. ASSUME NEW b \in Attempts, place'[b] # 0 PROVE b \in Slots
    <3>1. CASE UNCHANGED place
      BY <2>1, <3>1, Zenon DEF Slots
    <3>2. ASSUME NEW a \in Attempts, ReserveHost(a) PROVE b \in Slots
      <4>1. phase[a] = "admitted" /\ (b # a => place'[b] = place[b])
        BY <3>2, Zenon DEF ReserveHost, MInv, Shape3
      <4> QED
        BY <2>1, <4>1, Zenon DEF Slots
    <3>3. ASSUME NEW a \in Attempts, ReleaseHost(a) PROVE b \in Slots
      <4>1. place'[a] = 0 /\ (b # a => place'[b] = place[b])
        BY <3>3, Releases, Zenon DEF MInv
      <4> QED
        BY <2>1, <4>1, Zenon DEF Slots
    <3> QED
      BY <3>1, <3>2, <3>3, SlotSteps, Zenon
  <2> QED
    BY <1>3, <2>1, Zenon DEF Slots
<1> QED
  BY <1>1, <1>2, <1>3, PhaseSteps, Zenon

(* When every host is full there are as many slots in use as the hosts     *)
(* have together: the least number of hosts for which this fails is none.  *)
LEMMA AllFull ==
    ASSUME MInv, Counted, VMAssumption, \A h \in 1..Hosts : load[h] = HostMax
    PROVE  LET used == {a \in Attempts : place[a] # 0}
           IN  IsFiniteSet(used) /\ Cardinality(used) = MaxVMs
<1> DEFINE Upto(k) == {a \in Attempts : place[a] \in 1..k}
           Full(k) == IsFiniteSet(Upto(k)) /\ Cardinality(Upto(k)) = k * HostMax
           Bad == {k \in 0..Hosts : ~Full(k)}
<1>0. Hosts \in Nat /\ HostMax \in Nat /\ place \in [Attempts -> 0..Hosts]
  BY DEF VMAssumption, MInv, Shape3
<1>1. Full(0)
  <2>1. Upto(0) = {}
    BY <1>0
  <2>2. 0 * HostMax = 0
    BY <1>0
  <2> QED
    BY <2>1, <2>2, FS_EmptySet, Zenon
<1>2. ASSUME NEW k \in 1..Hosts, Full(k - 1) PROVE Full(k)
  <2>1. /\ Upto(k) = Upto(k - 1) \cup Placed(k)
        /\ Upto(k - 1) \cap Placed(k) = {}
    BY <1>0 DEF Placed
  <2>2. IsFiniteSet(Placed(k)) /\ Cardinality(Placed(k)) = HostMax
    BY Zenon DEF Counted
  <2> HIDE DEF Upto
  <2>3. /\ IsFiniteSet(Upto(k - 1) \cup Placed(k))
        /\ Cardinality(Upto(k - 1) \cup Placed(k)) =
             Cardinality(Upto(k - 1)) + Cardinality(Placed(k)) - Cardinality(Upto(k - 1) \cap Placed(k))
    BY <1>2, <2>2, FS_Union, Zenon
  <2>4. Cardinality({}) = 0
    BY FS_EmptySet, Zenon
  <2>5. Cardinality(Upto(k)) = (k - 1) * HostMax + HostMax - 0
    BY <1>2, <2>1, <2>2, <2>3, <2>4, Zenon
  <2>6. (k - 1) * HostMax + HostMax - 0 = k * HostMax
    BY <1>0
  <2> QED
    BY <2>1, <2>3, <2>5, <2>6, Zenon
<1>3. Bad = {}
  <2>1. SUFFICES ASSUME Bad # {} PROVE FALSE
    OBVIOUS
  <2>2. Bad \subseteq Nat
    BY <1>0
  <2> HIDE DEF Full
  <2>3. PICK k \in Bad : \A j \in Bad : ~(<<j, k>> \in OpToRel(<, Nat))
    <3> HIDE DEF Bad
    <3> QED
      BY <2>1, <2>2, WFMin, NatLessThanWellFounded, Zenon
  <2>4. \A j \in Bad : ~(j < k)
    BY <2>2, <2>3, ZenonT(60) DEF OpToRel
  <2>5. k \in 1..Hosts /\ k - 1 \in 0..Hosts /\ k - 1 < k
    BY <1>0, <1>1
  <2>6. Full(k - 1)
    BY <2>4, <2>5, Zenon
  <2> QED
    BY <1>2, <2>5, <2>6, Zenon
<1>4. Hosts \in 0..Hosts
  BY <1>0
<1>5. Full(Hosts)
  <2> HIDE DEF Full
  <2> QED
    BY <1>3, <1>4, Zenon
<1>6. Upto(Hosts) = {a \in Attempts : place[a] # 0}
  BY <1>0
<1> QED
  BY <1>5, <1>6, Zenon DEF MaxVMs

(* The counts hold at the start.                                           *)
LEMMA DInit == ASSUME Init, VMAssumption PROVE DInv
<1>1. Registered = {} /\ Starting = {} /\ Slots = {} /\ \A h \in 1..Hosts : Placed(h) = {}
  <2>1. Registered = {} /\ Starting = {}
    BY ZenonT(60) DEF Init, Registered, Starting
  <2>2. \A a \in Attempts : phase[a] = "idle" /\ place[a] = 0
    BY Zenon DEF Init
  <2>3. Slots = {}
    BY <2>2 DEF Slots
  <2>4. \A h \in 1..Hosts : Placed(h) = {}
    BY <2>2 DEF Placed
  <2> QED
    BY <2>1, <2>3, <2>4, Zenon
<1>2. \A h \in 1..Hosts : load[h] = 0 /\ load[h] <= HostMax
  BY DEF Init, VMAssumption
<1>3. IsFiniteSet({}) /\ Cardinality({}) = 0
  BY FS_EmptySet, Zenon
<1>4. 0 <= MaxVMs
  BY DEF MaxVMs, VMAssumption
<1> QED
  BY <1>1, <1>2, <1>3, <1>4, Zenon DEF DInv, FewNames, Counted, Fits

(* A start that checkCapacityLocked admitted finds a host with room in     *)
(* reserveHost, although the two count under different locks.              *)
THEOREM AdmittedFitsCorrect == Spec => []AdmittedFits
<1>1. Init => KInv /\ MInv /\ DInv
  BY KInit, MInit, DInit, VMAssumption, Zenon
<1>2. KInv /\ MInv /\ DInv /\ [Next]_vars => (KInv /\ MInv /\ DInv)'
  BY KNext, MNext, FewNext, CountedNext, FitsNext, VMAssumption, Zenon DEF DInv
<1>3. ASSUME KInv, MInv, DInv PROVE AdmittedFits
  <2>1. SUFFICES ASSUME NEW a \in Attempts, phase[a] = "admitted",
                        \A h \in 1..Hosts : ~(load[h] < HostMax)
                 PROVE  FALSE
    BY Zenon DEF AdmittedFits
  <2> DEFINE used == {b \in Attempts : place[b] # 0}
  <2>2. \A h \in 1..Hosts : load[h] = HostMax
    BY <1>3, <2>1, VMAssumption DEF DInv, Counted, MInv, Shape3, VMAssumption
  <2>3. IsFiniteSet(used) /\ Cardinality(used) = MaxVMs
    BY <1>3, <2>2, AllFull, VMAssumption, Zenon DEF DInv
  <2>4. a \notin used
    BY <1>3, <2>1 DEF MInv, Local, Slotted
  <2>5. used \cup {a} \in SUBSET Slots
    BY <2>1 DEF Slots
  <2> HIDE DEF used
  <2>6. Cardinality(used \cup {a}) = MaxVMs + 1
    BY <2>3, <2>4, FS_AddElement, Zenon
  <2>7. IsFiniteSet(Slots) /\ Cardinality(Slots) <= MaxVMs
    BY <1>3, Zenon DEF DInv, Fits
  <2>8. Cardinality(used \cup {a}) <= Cardinality(Slots)
    BY <2>5, <2>7, FS_Subset, Zenon
  <2>9. Cardinality(Slots) \in Nat /\ MaxVMs \in Nat
    BY <2>7, FS_CardinalityType, VMAssumption DEF MaxVMs, VMAssumption
  <2> QED
    BY <2>6, <2>7, <2>8, <2>9
<1> QED
  BY <1>1, <1>2, <1>3, PTL DEF Spec

-----------------------------------------------------------------------------
(* Every instance that boots or runs holds its slot until its Close fails. *)

(* What SlotsCounted says of one start and its instance.                   *)
Holds(a) ==
    (phase[a] = "booting" \/ inst[a] = "live") /\ ~CloseFailed(a) => place[a] # 0

(* A failed Close is remembered while the phase and the stops of a machine *)
(* are as they were, or have only grown.                                   *)
LEMMA FailedStays ==
    ASSUME KInv, NEW b \in Attempts, CloseFailed(b),
           phase'[b] = phase[b], stopPc'[b] = stopPc[b] \/ stopPc[b] # "err",
           Len(stop[b]) <= Len(stop'[b]), Len(stop'[b]) \in Nat,
           \A n \in 1..Len(stop[b]) : stop[b][n] = "err" => stop'[b][n] = "err"
    PROVE  CloseFailed(b)'
<1>1. CASE phase[b] \in {"aborting", "ended"}
  BY <1>1, Zenon DEF CloseFailed
<1>2. CASE stopPc[b] = "err"
  BY <1>2, Zenon DEF CloseFailed
<1>3. ASSUME NEW n \in 1..Len(stop[b]), stop[b][n] = "err" PROVE CloseFailed(b)'
  <2>1. Len(stop[b]) \in Nat
    BY DEF KInv, Shape
  <2>2. n \in 1..Len(stop'[b]) /\ stop'[b][n] = "err"
    BY <1>3, <2>1
  <2> QED
    BY <2>2, Zenon DEF CloseFailed
<1> QED
  BY <1>1, <1>2, <1>3, Zenon DEF CloseFailed

(* A start or machine that a step does not touch holds what it held.       *)
LEMMA HoldsStill ==
    ASSUME NEW b \in Attempts, Holds(b),
           phase'[b] = phase[b], inst'[b] = inst[b] \/ inst'[b] # "live",
           place'[b] = place[b], stop'[b] = stop[b], stopPc'[b] = stopPc[b]
    PROVE  Holds(b)'
<1>1. CloseFailed(b)' <=> CloseFailed(b)
  BY Zenon DEF CloseFailed
<1>2. place'[b] # 0 <=> place[b] # 0
  BY Zenon
<1>3. (phase'[b] = "booting" \/ inst'[b] = "live") => (phase[b] = "booting" \/ inst[b] = "live")
  BY Zenon
<1> QED
  BY <1>1, <1>2, <1>3, Zenon DEF Holds

(* A start reserves its slot before it boots, and gives it back when it    *)
(* fails or closes what it booted.                                         *)
LEMMA HoldsStart ==
    ASSUME KInv, MInv, VMAssumption, \A b \in Attempts : Holds(b),
           NEW a \in Attempts, StartStep(a)
    PROVE  \A b \in Attempts : Holds(b)'
<1>0. /\ Local(a) /\ Shape3 /\ DOMAIN phase = Attempts /\ DOMAIN inst = Attempts
      /\ place \in [Attempts -> 0..Hosts] /\ DOMAIN stop = Attempts
  BY Zenon DEF MInv, KInv, Shape, Shape3
<1>1. CASE \E id \in Ids, network \in Networks : Admit(a, id, network)
  <2>1. /\ phase[a] = "idle" /\ phase' = [phase EXCEPT ![a] = "admitted"]
        /\ UNCHANGED <<inst, place, stop, stopPc>>
    BY <1>1, Zenon DEF Admit, machine, slots
  <2>2. phase'[a] = "admitted" /\ \A b \in Attempts : b # a => phase'[b] = phase[b]
    BY <1>0, <2>1, Zenon
  <2>3. inst'[a] # "live"
    BY <1>0, <2>1 DEF Local, Instance
  <2>4. Holds(a)'
    BY <2>2, <2>3 DEF Holds
  <2> QED
    BY <2>1, <2>2, <2>4, HoldsStill, Zenon
<1>2. CASE ReserveHost(a)
  <2>1. PICK h \in 1..Hosts : place' = [place EXCEPT ![a] = h]
    BY <1>2, Zenon DEF ReserveHost
  <2>2. phase' = [phase EXCEPT ![a] = "booting"] /\ UNCHANGED <<inst, stop, stopPc>>
    BY <1>2, Zenon DEF ReserveHost, machine
  <2>3. /\ place'[a] = h
        /\ \A b \in Attempts : b # a => phase'[b] = phase[b] /\ place'[b] = place[b]
    BY <1>0, <2>1, <2>2, ZenonT(60)
  <2>4. Holds(a)'
    BY <2>3 DEF Holds
  <2> QED
    BY <2>2, <2>3, <2>4, HoldsStill, Zenon
<1>3. CASE Boot(a)
  <2>1. /\ phase[a] = "booting" /\ phase' = [phase EXCEPT ![a] = "booted"]
        /\ inst' = [inst EXCEPT ![a] = "live"] /\ UNCHANGED <<place, stop, stopPc>>
    BY <1>3, Zenon DEF Boot, machine, slots
  <2>2. \A b \in Attempts : b # a => phase'[b] = phase[b] /\ inst'[b] = inst[b]
    BY <1>0, <2>1, Zenon
  <2>3. CloseFailed(a) => CloseFailed(a)'
    BY <1>0, <2>1 DEF CloseFailed
  <2>4. Holds(a)'
    BY <2>1, <2>3, Zenon DEF Holds
  <2> QED
    BY <2>1, <2>2, <2>4, HoldsStill, Zenon
<1>4. CASE BootFails(a) \/ AbortClose(a) \/ AbortFinish(a) \/ DiscardClose(a)
  <2>1. /\ phase' = [phase EXCEPT ![a] = "aborting"] \/ phase' = [phase EXCEPT ![a] = "ended"]
        /\ UNCHANGED <<stop, stopPc>>
    BY <1>4, Zenon DEF BootFails, AbortClose, AbortFinish, DiscardClose, FinishStart, machine
  <2>2. \A b \in Attempts : b # a => inst'[b] = inst[b] /\ place'[b] = place[b]
    <3>1. CASE BootFails(a)
      BY <1>0, <3>1, Releases, Zenon DEF BootFails
    <3>2. CASE AbortFinish(a)
      BY <3>2, Zenon DEF AbortFinish, slots
    <3>3. CASE AbortClose(a)
      BY <1>0, <3>3, Closes, Zenon DEF AbortClose
    <3>4. CASE DiscardClose(a)
      BY <1>0, <3>4, Closes, Zenon DEF DiscardClose
    <3> QED
      BY <1>4, <3>1, <3>2, <3>3, <3>4, Zenon
  <2>3. /\ phase'[a] \in {"aborting", "ended"}
        /\ \A b \in Attempts : b # a => phase'[b] = phase[b]
    BY <1>0, <2>1, Zenon
  <2>4. Holds(a)'
    BY <2>3 DEF Holds, CloseFailed
  <2> QED
    BY <2>1, <2>2, <2>3, <2>4, HoldsStill, Zenon
<1>5. CASE Register(a) \/ Discard(a)
  <2>1. /\ phase[a] = "booted"
        /\ phase' = [phase EXCEPT ![a] = "registered"] \/ phase' = [phase EXCEPT ![a] = "discarding"]
        /\ UNCHANGED <<inst, place, stop, stopPc>>
    BY <1>5, Zenon DEF Register, Discard, machine, slots
  <2>2. /\ phase'[a] \in {"registered", "discarding"}
        /\ \A b \in Attempts : b # a => phase'[b] = phase[b]
    BY <1>0, <2>1, Zenon
  <2>3. CloseFailed(a) => CloseFailed(a)'
    BY <2>1, <2>2 DEF CloseFailed
  <2>4. Holds(a)'
    BY <2>1, <2>2, <2>3 DEF Holds
  <2> QED
    BY <2>1, <2>2, <2>4, HoldsStill, Zenon
<1> QED
  BY <1>1, <1>2, <1>3, <1>4, <1>5, Zenon DEF StartStep

(* A stop gives the slot back with the outcome of Close, and keeps the     *)
(* outcome; the watch gives it back when the instance has ended.           *)
LEMMA HoldsStops ==
    ASSUME KInv, MInv, VMAssumption, \A b \in Attempts : Holds(b),
           NEW a \in Attempts, Exit(a) \/ StopStep(a) \/ WatchStep(a)
    PROVE  \A b \in Attempts : Holds(b)'
<1>0. /\ Local(a) /\ Shape3 /\ DOMAIN inst = Attempts /\ DOMAIN stopPc = Attempts
      /\ place \in [Attempts -> 0..Hosts] /\ stop \in [Attempts -> Seq(Outcomes)]
  BY Zenon DEF MInv, KInv, Shape, Shape3
<1>1. CASE Exit(a)
  <2>1. inst' = [inst EXCEPT ![a] = "dead"] /\ UNCHANGED <<phase, place, stop, stopPc>>
    BY <1>1, Zenon DEF Exit, starts, machine, slots
  <2>2. \A b \in Attempts : inst'[b] = inst[b] \/ inst'[b] # "live"
    BY <1>0, <2>1
  <2> QED
    BY <2>1, <2>2, HoldsStill, Zenon
<1>2. CASE StopLock(a)
  <2>1. /\ stopPc[a] = "lock" /\ stopPc' = [stopPc EXCEPT ![a] = "close"]
        /\ UNCHANGED <<phase, inst, place, stop>>
    BY <1>2, Zenon DEF StopLock, starts, slots
  <2>2. stopPc'[a] = "close" /\ \A b \in Attempts : b # a => stopPc'[b] = stopPc[b]
    BY <1>0, <2>1, Zenon
  <2>3. CloseFailed(a) => CloseFailed(a)'
    BY <2>1 DEF CloseFailed
  <2>4. Holds(a)'
    BY <2>1, <2>3, Zenon DEF Holds
  <2> QED
    BY <2>1, <2>2, <2>4, HoldsStill, Zenon
<1>3. CASE StopClose(a)
  <2>1. PICK ok \in BOOLEAN : /\ CloseInstance(a, ok)
                              /\ stopPc' = [stopPc EXCEPT ![a] = IF ok THEN "ok" ELSE "err"]
    BY <1>3, Zenon DEF StopClose
  <2>2. UNCHANGED <<phase, stop>>
    BY <1>3, Zenon DEF StopClose, starts
  <2>3. /\ ok => inst'[a] # "live"
        /\ \A b \in Attempts : b # a => inst'[b] = inst[b] /\ place'[b] = place[b]
    BY <1>0, <2>1, Closes, Zenon
  <2>4. /\ stopPc'[a] = IF ok THEN "ok" ELSE "err"
        /\ \A b \in Attempts : b # a => stopPc'[b] = stopPc[b]
    BY <1>0, <2>1, ZenonT(60)
  <2>5. phase'[a] # "booting"
    <3>1. LastStop(a) = "pending"
      BY <1>3 DEF StopClose, KInv, InProgress
    <3>2. phase[a] = "registered"
      BY <3>1 DEF LastStop, KInv, OnlyRegistered
    <3> QED
      BY <2>2, <3>2
  <2>6. Holds(a)'
    <3>1. CASE ok
      BY <2>3, <2>5, <3>1, Zenon DEF Holds
    <3>2. CASE ~ok
      <4>1. stopPc'[a] = "err"
        BY <2>4, <3>2
      <4> QED
        BY <4>1, Zenon DEF Holds, CloseFailed
    <3> QED
      BY <3>1, <3>2
  <2> QED
    BY <2>2, <2>3, <2>4, <2>6, HoldsStill, Zenon
<1>4. CASE StopPublish(a)
  <2>1. /\ stopPc' = [stopPc EXCEPT ![a] = "idle"] /\ stopPc[a] \in {"ok", "err"}
        /\ UNCHANGED <<phase, inst, place>>
    BY <1>4, Zenon DEF StopPublish, starts, slots
  <2>2. \A b \in Attempts : b # a => stopPc'[b] = stopPc[b]
    BY <1>0, <2>1, Zenon
  <2>3. /\ stop[a][Len(stop[a])] = "pending" /\ Len(stop'[a]) = Len(stop[a])
        /\ stop'[a][Len(stop[a])] = stopPc[a] /\ stop[a] # << >>
        /\ \A n \in 1..Len(stop[a]) : n # Len(stop[a]) => stop'[a][n] = stop[a][n]
        /\ \A b \in Attempts : b # a => stop'[b] = stop[b]
    BY <1>4, Publishes, Zenon
  <2>4. CloseFailed(a) => CloseFailed(a)'
    <3>1. CASE phase[a] \in {"aborting", "ended"}
      BY <2>1, <3>1, Zenon DEF CloseFailed
    <3>2. CASE stopPc[a] = "err"
      <4>1. Len(stop[a]) \in 1..Len(stop'[a])
        BY <1>0, <2>3
      <4> QED
        BY <2>3, <3>2, <4>1, ZenonT(60) DEF CloseFailed
    <3>3. ASSUME NEW n \in 1..Len(stop[a]), stop[a][n] = "err" PROVE CloseFailed(a)'
      <4>1. n # Len(stop[a]) /\ n \in 1..Len(stop'[a])
        BY <2>3, <3>3
      <4> QED
        BY <2>3, <3>3, <4>1, Zenon DEF CloseFailed
    <3> QED
      BY <3>1, <3>2, <3>3, Zenon DEF CloseFailed
  <2>5. Holds(a)'
    BY <2>1, <2>4, Zenon DEF Holds
  <2> QED
    BY <2>1, <2>2, <2>3, <2>5, HoldsStill, Zenon
<1>5. CASE WatchReturns(a)
  <2>1. /\ inst[a] # "live" /\ watch[a] = "waiting" /\ ReleaseHost(a)
        /\ UNCHANGED <<phase, inst, stop, stopPc>>
    BY <1>5, Zenon DEF WatchReturns, starts
  <2>2. \A b \in Attempts : b # a => place'[b] = place[b]
    BY <1>0, <2>1, Releases, Zenon
  <2>3. phase[a] = "registered"
    BY <1>0, <2>1 DEF Local, Watched
  <2>4. Holds(a)'
    BY <2>1, <2>3 DEF Holds
  <2> QED
    BY <2>1, <2>2, <2>4, HoldsStill, Zenon
<1>6. CASE WatchPublish(a)
  <2>1. UNCHANGED <<phase, inst, place, stop, stopPc>>
    BY <1>6, Zenon DEF WatchPublish, starts, slots
  <2> QED
    BY <2>1, HoldsStill, Zenon
<1> QED
  BY <1>1, <1>2, <1>3, <1>4, <1>5, <1>6, Zenon DEF StopStep, WatchStep

(* beginMachineStopLocked adds a stop and forgets none.                    *)
LEMMA HoldsBegin ==
    ASSUME KInv, SInv, VMAssumption, \A b \in Attempts : Holds(b), NEW S, BeginStops(S),
           UNCHANGED <<phase, inst, place>>
    PROVE  \A b \in Attempts : Holds(b)'
<1>1. SUFFICES ASSUME NEW b \in Attempts PROVE Holds(b)'
  OBVIOUS
<1>2. /\ Len(stop[b]) <= Len(stop'[b]) /\ Len(stop'[b]) \in Nat
      /\ \A n \in 1..Len(stop[b]) : stop'[b][n] = stop[b][n]
  BY Grows, Zenon
<1>3. stopPc'[b] = stopPc[b] \/ stopPc[b] # "err"
  <2>1. \/ stopPc'[b] = stopPc[b]
        \/ LastStop(b) \in {"none", "err"}
    BY Begins, Zenon DEF KInv
  <2>2. stopPc[b] = "err" => LastStop(b) = "pending"
    BY DEF KInv, InProgress
  <2> QED
    BY <2>1, <2>2
<1>4. CloseFailed(b) => CloseFailed(b)'
  BY <1>2, <1>3, FailedStays, Zenon
<1>5. Holds(b)
  BY Zenon
<1> QED
  BY <1>4, <1>5, Zenon DEF Holds

(* Every step leaves the slots with those that boot or run.                *)
LEMMA HoldsNext ==
    ASSUME KInv, MInv, SInv, VMAssumption, \A b \in Attempts : Holds(b), [Next]_vars
    PROVE  \A b \in Attempts : Holds(b)'
<1>1. CASE UNCHANGED <<phase, inst, place, stop, stopPc>>
  BY <1>1, HoldsStill, Zenon
<1>2. ASSUME NEW a \in Attempts, StartStep(a) \/ Exit(a) \/ StopStep(a) \/ WatchStep(a)
      PROVE  \A b \in Attempts : Holds(b)'
  BY <1>2, HoldsStart, HoldsStops, Zenon
<1>3. ASSUME NEW id \in Ids, ShutdownInstance(id) PROVE \A b \in Attempts : Holds(b)'
  <2>1. BeginStops({running[id]}) /\ UNCHANGED <<phase, inst, place>>
    BY <1>3, Zenon DEF ShutdownInstance, starts, slots
  <2> QED
    BY <2>1, HoldsBegin, Zenon
<1>4. ASSUME NEW c \in Callers, ShutdownAll(c) PROVE \A b \in Attempts : Holds(b)'
  <2>1. BeginStops({running[id] : id \in Registered}) /\ UNCHANGED <<phase, inst, place>>
    BY <1>4, Zenon DEF ShutdownAll, starts, slots
  <2> QED
    BY <2>1, HoldsBegin, Zenon
<1>5. ASSUME NEW id \in Ids, Reap(id) PROVE UNCHANGED <<phase, inst, place, stop, stopPc>>
  BY <1>5, ZenonT(60) DEF Reap, starts, machine, slots
<1>6. ASSUME NEW c \in Callers, ShutdownReturns(c) \/ ShutdownTimeout(c)
      PROVE  UNCHANGED <<phase, inst, place, stop, stopPc>>
  BY <1>6, Zenon DEF ShutdownReturns, ShutdownTimeout, starts, machine, slots
<1>7. ASSUME NEW o \in Ops, OpStep(o) PROVE UNCHANGED <<phase, inst, place, stop, stopPc>>
  <2>1. UNCHANGED <<starts, machine, slots, inst>>
    BY <1>7, Zenon DEF OpStep, OpLook, OpLock, OpValidate, OpDone, SnapshotBegin, SnapshotDone,
       BalloonBegin, BalloonDone
  <2> QED
    BY <2>1, Zenon DEF starts, machine, slots
<1>8. CASE UNCHANGED vars
  BY <1>1, <1>8, Zenon DEF vars, starts, machine, slots
<1> QED
  BY <1>1, <1>2, <1>3, <1>4, <1>5, <1>6, <1>7, <1>8, Zenon DEF Next

(* placementVMHost counts every instance that boots or runs and whose      *)
(* Close has not failed, although Wait and Close race to give a slot back, *)
(* and no host counts more than its MaxVMs.                                *)
THEOREM SlotsCountedCorrect == Spec => []SlotsCounted
<1> DEFINE AllHold == \A b \in Attempts : Holds(b)
<1>1. Init => KInv /\ MInv /\ SInv /\ DInv /\ AllHold
  <2>1. ASSUME Init, NEW b \in Attempts PROVE Holds(b)
    <3>1. phase[b] = "idle" /\ inst[b] = "none"
      BY <2>1, Zenon DEF Init
    <3> QED
      BY <3>1 DEF Holds
  <2> QED
    BY <2>1, KInit, MInit, SInit, DInit, VMAssumption, Zenon
<1>2. KInv /\ MInv /\ SInv /\ DInv /\ AllHold /\ [Next]_vars
        => (KInv /\ MInv /\ SInv /\ DInv /\ AllHold)'
  BY KNext, MNext, SNext, FewNext, CountedNext, FitsNext, HoldsNext, VMAssumption, Zenon DEF DInv
<1>3. ASSUME DInv, AllHold PROVE SlotsCounted
  <2>1. ASSUME NEW h \in 1..Hosts
        PROVE  Cardinality({a \in Attempts : place[a] = h}) <= load[h] /\ load[h] <= HostMax
    <3>1. /\ IsFiniteSet(Placed(h)) /\ load[h] = Cardinality(Placed(h)) /\ load[h] <= HostMax
      BY <1>3, Zenon DEF DInv, Counted
    <3>2. Cardinality(Placed(h)) \in Nat
      BY <3>1, FS_CardinalityType, Zenon
    <3>3. Cardinality(Placed(h)) <= load[h]
      BY <3>1, <3>2
    <3> QED
      BY <3>1, <3>3, Zenon DEF Placed
  <2> QED
    BY <1>3, <2>1, Zenon DEF SlotsCounted, Holds
<1> HIDE DEF AllHold
<1> QED
  BY <1>1, <1>2, <1>3, PTL DEF Spec

-----------------------------------------------------------------------------
(* Addresses.                                                              *)

(* As long as the hosts take fewer machines than there are leases, an      *)
(* admitted start gets a lease that nobody has.                            *)
LEMMA LeaseFree ==
    ASSUME KInv, MInv, FewNames, HasCapacity, VMAssumption, MaxVMs < LastLease,
           NEW id \in Ids, leases[id] = 0
    PROVE  NewLease(id) \notin UsedLeases /\ NewLease(id) # 0
<1> DEFINE held == 2..LastLease
<1>0. LastLease \in Nat /\ MaxVMs \in Nat /\ LastLease >= 2
  BY DEF VMAssumption, MaxVMs
<1>1. NewLease(id) \in 2..(LastLease + 1)
  BY LeaseFound, Zenon
<1>2. ASSUME NewLease(id) \in UsedLeases PROVE FALSE
  <2>1. \A k \in held : k \in UsedLeases
    BY <1>2, LeaseFound, Zenon
  <2>2. held \subseteq {leases[i] : i \in Registered} \cup {leases[i] : i \in Starting}
    <3>1. SUFFICES ASSUME NEW k \in held
                   PROVE  \/ k \in {leases[i] : i \in Registered}
                          \/ k \in {leases[i] : i \in Starting}
      BY Zenon
    <3>2. k # 1 /\ k # 0
      BY <1>0
    <3>3. PICK i \in Ids : leases[i] = k
      BY <2>1, <3>2, Zenon DEF UsedLeases
    <3>4. i \in Registered \/ i \in Starting
      BY <3>2, <3>3, Zenon DEF MInv, NamesLeased, Registered, Starting
    <3> QED
      BY <3>3, <3>4, Zenon
  <2>3. Cardinality(held) = LastLease - 1
    BY <1>0, FS_Interval
  <2> HIDE DEF held
  <2>4. Cardinality(held) < MaxVMs
    BY <2>2, Capacity, ZenonT(60)
  <2> QED
    BY <1>0, <2>3, <2>4
<1> QED
  BY <1>0, <1>1, <1>2

(* ensureNetworkLeaseLocked gives every start an address of its own.       *)
LEMMA DistinctNext ==
    ASSUME KInv, MInv, FewNames, Distinct, VMAssumption, MaxVMs < LastLease, [Next]_vars
    PROVE  Distinct'
<1>1. CASE \A b \in Attempts : addr'[b] = addr[b] /\ (Live(b)' => Live(b))
  BY <1>1, Zenon DEF Distinct
<1>2. ASSUME NEW a \in Attempts, NEW id \in Ids, NEW network \in Networks, Admit(a, id, network)
      PROVE  Distinct'
  <2>1. /\ ~closing /\ HasCapacity /\ running[id] = NoOne /\ starting[id] = NoOne
        /\ phase[a] = "idle" /\ UNCHANGED running
        /\ phase' = [phase EXCEPT ![a] = "admitted"] /\ ident' = [ident EXCEPT ![a] = id]
        /\ addr' = IF network THEN [addr EXCEPT ![a] = NewLease(id)] ELSE addr
    BY <1>2, Zenon DEF Admit
  <2>2. leases[id] = 0
    BY <2>1, ZenonT(60) DEF MInv, NamesLeased
  <2>3. NewLease(id) \notin UsedLeases /\ NewLease(id) # 0
    BY <2>1, <2>2, LeaseFree
  <2>4. addr[a] = 0 /\ DOMAIN addr = Attempts
    BY <2>1, Zenon DEF MInv, Local, Leased, Shape3
  <2>5. /\ addr'[a] \in {0, NewLease(id)}
        /\ \A b \in Attempts : b # a => addr'[b] = addr[b]
    BY <2>1, <2>4
  <2>6. \A b \in Attempts : b # a => phase'[b] = phase[b] /\ ident'[b] = ident[b]
    BY <2>1, Zenon DEF KInv, Shape
  <2>7. ASSUME NEW b \in Attempts, b # a, Live(b)'
        PROVE  Live(b) /\ Holder(b) /\ ident[b] \in Ids
    <3>1. Live(b)
      BY <2>1, <2>6, <2>7, Zenon DEF Live, Holder, Here
    <3>2. Holder(b)
      BY <2>1, <3>1, Zenon DEF Live, MInv, Local, Begun
    <3> QED
      BY <3>1, <3>2 DEF Holder, Pending, KInv, Named
  <2>8. ASSUME NEW b \in Attempts, b # a, Live(b)', addr'[b] # 0 PROVE addr'[b] # NewLease(id)
    <3>1. addr[b] = addr'[b] /\ Holder(b) /\ ident[b] \in Ids
      BY <2>5, <2>7, <2>8, Zenon
    <3>2. leases[ident[b]] = addr[b]
      BY <2>8, <3>1, Zenon DEF MInv, Local, Leased
    <3>3. addr[b] \in UsedLeases
      BY <3>1, <3>2, Zenon DEF UsedLeases
    <3> QED
      BY <2>3, <3>1, <3>3, Zenon
  <2>9. SUFFICES ASSUME NEW b \in Attempts, NEW c \in Attempts, b # c, Live(b)', Live(c)',
                        addr'[b] # 0, addr'[b] = addr'[c]
                 PROVE  FALSE
    BY Zenon DEF Distinct
  <2>10. CASE b = a
    BY <2>5, <2>8, <2>9, <2>10
  <2>11. CASE c = a
    BY <2>5, <2>8, <2>9, <2>11
  <2>12. CASE b # a /\ c # a
    <3>1. Live(b) /\ Live(c) /\ addr[b] # 0 /\ addr[b] = addr[c]
      BY <2>5, <2>7, <2>9, <2>12, Zenon
    <3> QED
      BY <2>9, <3>1, Zenon DEF Distinct
  <2> QED
    BY <2>10, <2>11, <2>12
<1> QED
  BY <1>1, <1>2, LiveSteps, Zenon

(* Two instances that run at the same time have different addresses,       *)
(* whatever starts, stops, crashes or is retried between them, as long as  *)
(* the hosts take fewer machines than there are leases.                    *)
THEOREM AddressesDistinctCorrect ==
    ASSUME MaxVMs < LastLease
    PROVE  Spec => []AddressesDistinct
<1>1. Init => KInv /\ MInv /\ DInv /\ Distinct
  <2>1. ASSUME Init PROVE \A a \in Attempts : addr[a] = 0
    BY <2>1 DEF Init
  <2>2. Init => Distinct
    BY <2>1, Zenon DEF Distinct
  <2> QED
    BY <2>2, KInit, MInit, DInit, VMAssumption, Zenon
<1>2. KInv /\ MInv /\ DInv /\ Distinct /\ [Next]_vars => (KInv /\ MInv /\ DInv /\ Distinct)'
  BY KNext, MNext, FewNext, CountedNext, FitsNext, DistinctNext, VMAssumption, Zenon DEF DInv
<1>3. ASSUME KInv, MInv, Distinct PROVE AddressesDistinct
  <2>1. ASSUME NEW a \in Attempts, inst[a] = "live", phase[a] # "ended" PROVE Live(a)
    <3>1. Begun(a) /\ Instance(a) /\ Watched(a)
      BY <1>3, Zenon DEF MInv, Local
    <3> QED
      BY <2>1, <3>1 DEF Begun, Instance, Watched, Live, Holder, Pending
  <2> QED
    BY <1>3, <2>1, ZenonT(60) DEF Distinct, AddressesDistinct
<1> QED
  BY <1>1, <1>2, <1>3, PTL DEF Spec

-----------------------------------------------------------------------------
(* Types.                                                                  *)

(* The leases and addresses.                                               *)
Numbers ==
    /\ leases \in [Ids -> 0..(LastLease + 1)] /\ addr \in [Attempts -> 0..(LastLease + 1)]
(* The names whose exit is kept.                                           *)
Tombstones == {id \in Ids : exited[id] # Nobody}
(* recordExitLocked keeps at most MaxTombstones exits.                     *)
FewExits ==
    /\ exited \in [Ids -> Exits \cup {Nobody}]
    /\ IsFiniteSet(Tombstones) /\ Cardinality(Tombstones) <= MaxTombstones

(* The types that the other invariants do not give.                        *)
TInv == Words /\ LockWords /\ Numbers /\ FewExits

(* Leases and addresses are host numbers.                                  *)
LEMMA NumbersNext ==
    ASSUME KInv, MInv, Numbers, VMAssumption, [Next]_vars
    PROVE  Numbers'
<1>0. 0 \in 0..(LastLease + 1)
  BY DEF VMAssumption
<1>1. CASE UNCHANGED <<leases, addr>>
  BY <1>1, Zenon DEF Numbers
<1>2. ASSUME NEW id, leases' = [leases EXCEPT ![id] = 0], UNCHANGED addr PROVE Numbers'
  BY <1>0, <1>2, Zenon DEF Numbers
<1>3. ASSUME NEW a \in Attempts, NEW id \in Ids, NEW network \in Networks, Admit(a, id, network)
      PROVE  Numbers'
  <2>1. /\ running[id] = NoOne /\ starting[id] = NoOne
        /\ leases' = IF network THEN [leases EXCEPT ![id] = NewLease(id)] ELSE leases
        /\ addr' = IF network THEN [addr EXCEPT ![a] = NewLease(id)] ELSE addr
    BY <1>3, Zenon DEF Admit
  <2>2. leases[id] = 0
    BY <2>1, Zenon DEF MInv, NamesLeased
  <2>3. NewLease(id) \in 2..(LastLease + 1) /\ LastLease \in Nat
    BY <2>2, LeaseFound, Zenon DEF VMAssumption
  <2>4. NewLease(id) \in 0..(LastLease + 1)
    BY <2>3
  <2> QED
    BY <1>1, <2>1, <2>4, Zenon DEF Numbers
<1>4. ASSUME NEW a \in Attempts, StartStep(a) PROVE Numbers'
  <2>1. CASE ReserveHost(a) \/ Boot(a) \/ AbortClose(a) \/ Register(a) \/ DiscardClose(a)
    BY <1>1, <2>1, Zenon DEF ReserveHost, Boot, AbortClose, Register, DiscardClose, manager
  <2>2. CASE BootFails(a) \/ AbortFinish(a) \/ Discard(a)
    BY <1>2, <2>2, Zenon DEF BootFails, AbortFinish, Discard, FinishStart
  <2> QED
    BY <1>3, <1>4, <2>1, <2>2, Zenon DEF StartStep
<1>5. ASSUME NEW a \in Attempts, Exit(a) \/ StopStep(a) \/ WatchStep(a) PROVE Numbers'
  BY <1>1, <1>2, <1>5, Zenon DEF Exit, StopStep, StopLock, StopClose, StopPublish, WatchStep,
     WatchReturns, WatchPublish, Unregister, manager, starts
<1>6. ASSUME NEW id \in Ids, ShutdownInstance(id) \/ Reap(id) PROVE Numbers'
  BY <1>1, <1>6, Zenon DEF ShutdownInstance, Reap, manager, starts
<1>7. ASSUME NEW c \in Callers, ShutdownAll(c) \/ ShutdownReturns(c) \/ ShutdownTimeout(c)
      PROVE  Numbers'
  BY <1>1, <1>7, Zenon DEF ShutdownAll, ShutdownReturns, ShutdownTimeout, manager, starts
<1>8. ASSUME NEW o \in Ops, OpStep(o) PROVE Numbers'
  BY <1>1, <1>8, Zenon DEF OpStep, OpLook, OpLock, OpValidate, OpDone, SnapshotBegin, SnapshotDone,
     BalloonBegin, BalloonDone, manager, starts
<1>9. CASE UNCHANGED vars
  BY <1>1, <1>9, Zenon DEF vars, manager, starts
<1> QED
  BY <1>4, <1>5, <1>6, <1>7, <1>8, <1>9, Zenon DEF Next

(* recordExitLocked drops a tombstone when there are too many.             *)
LEMMA ExitRecorded ==
    ASSUME FewExits, VMAssumption, NEW a \in Attempts, NEW status \in {"stopped", "crashed"},
           RecordExit(a, status)
    PROVE  FewExits'
<1> DEFINE new == [who |-> a, status |-> status]
           all == [exited EXCEPT ![ident[a]] = new]
           left == {id \in Ids : all[id] # Nobody}
<1>0. MaxTombstones \in Nat /\ exited \in [Ids -> Exits \cup {Nobody}]
  BY DEF VMAssumption, FewExits
<1>1. new \in Exits
  BY DEF Exits
<1>2. all \in [Ids -> Exits \cup {Nobody}]
  <2> HIDE DEF new
  <2> QED
    BY <1>0, <1>1, Zenon
<1>3. left \subseteq Tombstones \cup {ident[a]}
  <2> HIDE DEF new
  <2> QED
    BY <1>0, Zenon DEF Tombstones
<1>4. \/ Cardinality(left) <= MaxTombstones /\ exited' = all
      \/ \E id \in Ids : all[id] # Nobody /\ exited' = [all EXCEPT ![id] = Nobody]
  BY Zenon DEF RecordExit
<1> HIDE DEF all
<1>5. PICK i : i = ident[a]
  OBVIOUS
<1>6. /\ IsFiniteSet(Tombstones \cup {i})
      /\ Cardinality(Tombstones \cup {i}) = IF i \in Tombstones THEN Cardinality(Tombstones)
                                            ELSE Cardinality(Tombstones) + 1
  BY FS_AddElement, Zenon DEF FewExits
<1>7. left \in SUBSET (Tombstones \cup {i})
  BY <1>3, <1>5, Zenon
<1>8. IsFiniteSet(left) /\ Cardinality(left) <= Cardinality(Tombstones \cup {i})
  <2> HIDE DEF left
  <2> QED
    BY <1>6, <1>7, FS_Subset, Zenon
<1>9. Cardinality(left) \in Nat /\ Cardinality(left) <= MaxTombstones + 1
  <2>1. Cardinality(left) \in Nat /\ Cardinality(Tombstones) \in Nat
    BY <1>8, FS_CardinalityType, Zenon DEF FewExits
  <2> HIDE DEF left
  <2> QED
    BY <1>0, <1>6, <1>8, <2>1 DEF FewExits
<1>10. CASE Cardinality(left) <= MaxTombstones /\ exited' = all
  <2>1. Tombstones' = left
    BY <1>10, Zenon DEF Tombstones
  <2> HIDE DEF left
  <2> QED
    BY <1>2, <1>8, <1>10, <2>1, Zenon DEF FewExits
<1>11. ASSUME NEW id \in Ids, all[id] # Nobody, exited' = [all EXCEPT ![id] = Nobody]
       PROVE  FewExits'
  <2>1. exited' \in [Ids -> Exits \cup {Nobody}]
    BY <1>2, <1>11, Zenon
  <2>2. Tombstones' = left \ {id} /\ id \in left
    BY <1>2, <1>11, Zenon DEF Tombstones
  <2> HIDE DEF left
  <2>3. IsFiniteSet(left \ {id}) /\ Cardinality(left \ {id}) = Cardinality(left) - 1
    BY <1>8, <2>2, FS_RemoveElement, Zenon
  <2>4. Cardinality(left) - 1 <= MaxTombstones
    BY <1>0, <1>9
  <2> QED
    BY <2>1, <2>2, <2>3, <2>4, Zenon DEF FewExits
<1> HIDE DEF left
<1> QED
  BY <1>4, <1>10, <1>11, Zenon

(* No more than MaxTombstones exits are kept.                              *)
LEMMA ExitsNext ==
    ASSUME FewExits, VMAssumption, [Next]_vars
    PROVE  FewExits'
<1>1. CASE UNCHANGED exited
  BY <1>1, Zenon DEF FewExits, Tombstones
<1>2. ASSUME NEW id \in Ids, exited' = [exited EXCEPT ![id] = Nobody] PROVE FewExits'
  <2>1. exited' \in [Ids -> Exits \cup {Nobody}]
    BY <1>2, Zenon DEF FewExits
  <2>2. Tombstones' \in SUBSET Tombstones
    BY <1>2, Zenon DEF FewExits, Tombstones
  <2>3. IsFiniteSet(Tombstones') /\ Cardinality(Tombstones') <= Cardinality(Tombstones)
    BY <2>2, FS_Subset, Zenon DEF FewExits
  <2>4. Cardinality(Tombstones') \in Nat /\ Cardinality(Tombstones) \in Nat
    BY <2>3, FS_CardinalityType, Zenon DEF FewExits
  <2>5. Cardinality(Tombstones') <= MaxTombstones
    BY <2>3, <2>4 DEF FewExits, VMAssumption
  <2> QED
    BY <2>1, <2>3, <2>5, Zenon DEF FewExits
<1>3. ASSUME NEW a \in Attempts, StartStep(a) PROVE FewExits'
  <2>1. CASE \E id \in Ids, network \in Networks : Admit(a, id, network)
    BY <1>2, <2>1, Zenon DEF Admit
  <2> QED
    BY <1>1, <1>3, <2>1, Zenon DEF StartStep, ReserveHost, Boot, BootFails, AbortClose, AbortFinish,
       Register, Discard, DiscardClose, manager
<1>4. ASSUME NEW a \in Attempts, Exit(a) \/ StopStep(a) \/ WatchStep(a) PROVE FewExits'
  <2>1. CASE StopPublish(a) \/ WatchPublish(a)
    BY <1>1, <2>1, ExitRecorded, Zenon DEF StopPublish, WatchPublish
  <2> QED
    BY <1>1, <1>4, <2>1, Zenon DEF Exit, StopStep, StopLock, StopClose, WatchStep, WatchReturns, manager
<1>5. ASSUME NEW id \in Ids, ShutdownInstance(id) \/ Reap(id) PROVE FewExits'
  BY <1>1, <1>2, <1>5, Zenon DEF ShutdownInstance, Reap, manager
<1>6. ASSUME NEW c \in Callers, ShutdownAll(c) \/ ShutdownReturns(c) \/ ShutdownTimeout(c)
      PROVE  FewExits'
  BY <1>1, <1>6, Zenon DEF ShutdownAll, ShutdownReturns, ShutdownTimeout, manager
<1>7. ASSUME NEW o \in Ops, OpStep(o) PROVE FewExits'
  BY <1>1, <1>7, Zenon DEF OpStep, OpLook, OpLock, OpValidate, OpDone, SnapshotBegin, SnapshotDone,
     BalloonBegin, BalloonDone, manager
<1>8. CASE UNCHANGED vars
  BY <1>1, <1>8, Zenon DEF vars, manager
<1> QED
  BY <1>3, <1>4, <1>5, <1>6, <1>7, <1>8, Zenon DEF Next

(* The types at the start.                                                 *)
LEMMA TInit == ASSUME Init, VMAssumption PROVE TInv
<1>1. Words
  BY DEF Init, Words, StopSteps, WatchSteps, Phases, Insts
<1>2. LockWords
  BY Zenon DEF Init, LockWords
<1>3. Numbers
  BY DEF Init, Numbers, VMAssumption
<1>4. FewExits
  <2>1. exited \in [Ids -> Exits \cup {Nobody}] /\ Tombstones = {}
    BY Zenon DEF Init, Tombstones
  <2>2. Cardinality({}) <= MaxTombstones /\ IsFiniteSet({})
    BY FS_EmptySet DEF VMAssumption
  <2> QED
    BY <2>1, <2>2, Zenon DEF FewExits
<1> QED
  BY <1>1, <1>2, <1>3, <1>4, Zenon DEF TInv

(* The manager's maps and the states of starts, machines, operations and   *)
(* callers have their types, no host counts beyond its MaxVMs, and no more *)
(* than MaxTombstones exits are kept.                                      *)
THEOREM TypeCorrect == Spec => []TypeOK
<1> DEFINE All == KInv /\ LInv /\ MInv /\ SInv /\ DInv /\ TInv
<1>1. Init => All
  BY KInit, LInit, MInit, SInit, DInit, TInit, VMAssumption, Zenon
<1>2. All /\ [Next]_vars => All'
  <2>1. SUFFICES ASSUME All, [Next]_vars PROVE All'
    OBVIOUS
  <2>2. KInv' /\ LInv' /\ MInv' /\ SInv'
    BY <2>1, KNext, LNext, MNext, SNext, VMAssumption, Zenon
  <2>3. DInv'
    BY <2>1, FewNext, CountedNext, FitsNext, VMAssumption, Zenon DEF DInv
  <2>4. TInv'
    BY <2>1, WordsNext, LocksNext, NumbersNext, ExitsNext, VMAssumption, Zenon DEF TInv
  <2> QED
    BY <2>2, <2>3, <2>4, Zenon
<1>3. ASSUME All PROVE TypeOK
  <2>1. /\ running \in [Ids -> Attempts \cup {NoOne}]
        /\ starting \in [Ids -> Attempts \cup {NoOne}]
        /\ stop \in [Attempts -> Seq({"pending", "ok", "err"})]
    BY <1>3, Zenon DEF KInv, Shape, Outcomes
  <2>2. /\ leases \in [Ids -> 0..(LastLease + 1)] /\ addr \in [Attempts -> 0..(LastLease + 1)]
        /\ exited \in [Ids -> Exits \cup {Nobody}]
        /\ Cardinality({id \in Ids : exited[id] # Nobody}) <= MaxTombstones
        /\ ident \in [Attempts -> Ids \cup {NoOne}]
        /\ cleanupErr \in [Attempts -> BOOLEAN]
        /\ stopping \in [Attempts -> BOOLEAN]
        /\ stopPc \in [Attempts -> {"idle", "lock", "close", "ok", "err"}]
        /\ watch \in [Attempts -> {"off", "waiting", "returned", "done"}]
        /\ lifecycle \in [Attempts -> Attempts \cup Ops \cup {NoOne}]
        /\ balloon \in [Attempts -> Ops \cup {NoOne}]
    BY <1>3, Zenon DEF TInv, Words, LockWords, Numbers, FewExits, Tombstones, StopSteps, WatchSteps
  <2>3. phase \in [Attempts -> {"idle", "admitted", "booting", "booted", "aborting",
                                "discarding", "registered", "ended"}]
    BY <1>3, Zenon DEF TInv, Words, Phases
  <2>4. inst \in [Attempts -> {"none", "live", "dead", "closed"}]
    BY <1>3, Zenon DEF TInv, Words, Insts
  <2>5. place \in [Attempts -> 0..Hosts] /\ closing \in BOOLEAN
    BY <1>3, ZenonT(60) DEF MInv, Shape3
  <2>6. load \in [1..Hosts -> 0..HostMax]
    BY <1>3 DEF MInv, Shape3, DInv, Counted
  <2>7. /\ snapshot \in [Attempts -> Ops \cup {NoOne}]
        /\ ops \in [Ops -> [pc : {"idle", "looked", "locked", "valid", "snapshot",
                                  "canceled", "balloonLooked", "balloon"},
                            on : Attempts \cup {NoOne}]]
    BY <1>3, Zenon DEF LInv, Shape2, Steps
  <2>8. shut \in [Callers -> [pc : {"idle", "waiting", "ok", "error"},
                              stops : SUBSET (Attempts \X (1..MaxStops)),
                              starts : SUBSET Attempts,
                              first : BOOLEAN]]
    BY <1>3, Zenon DEF SInv, ShutShape
  <2> QED
    BY <2>1, <2>2, <2>3, <2>4, <2>5, <2>6, <2>7, <2>8, Zenon DEF TypeOK
<1> QED
  BY <1>1, <1>2, <1>3, PTL DEF Spec

=============================================================================
