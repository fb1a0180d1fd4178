--------------------------- MODULE HashMapProofs ----------------------------
(***************************************************************************)
(* Proofs about HashMap, for any keys, any hash function, any capacities   *)
(* and any calls: what is stored is found, the size is exact, there is     *)
(* always a free slot, and a map is a KeySet, until a node is taken out of *)
(* a table in which a chain has wrapped round the end (torn).  The         *)
(* programs of Hw03 and Hw11 never do that.                                *)
(*                                                                         *)
(* Chained is what makes a probe find its key: from the position a key     *)
(* hashes to up to its node no slot is free.  It holds of the table but    *)
(* for the time of a removal, when there is a hole that the scan has yet   *)
(* to carry to its end (Holed), and of the new array of a resize.          *)
(***************************************************************************)
EXTENDS HashMap, FiniteSetTheorems, TLAPS

IsTable(s, c) == s \in [Index(c) -> Keys \cup {NoKey}]

IsSize(c) == c \in Nat /\ c > 0

IsHash == hash \in [Keys -> Nat]

Used(s, c) == {i \in Index(c) : s[i] # NoKey}

(* The keys in a table.                                                    *)
Held(s, c) == {s[i] : i \in Index(c)} \ {NoKey}

(* A probe for the key of a node stops at that node.                       *)
Chained(s, c) == \A i \in Index(c) : s[i] # NoKey => i \in Stops(s, c, s[i])

(* No key has two nodes.                                                   *)
Once(s, c) == \A i, j \in Index(c) : s[i] # NoKey /\ s[i] = s[j] => i = j

-----------------------------------------------------------------------------
(* A set of numbers that is not empty has a least one.                     *)
LEMMA LeastOf ==
    ASSUME NEW T, T \subseteq Nat, T # {}
    PROVE  \E x \in T : \A y \in T : x <= y
<1>1. PICK x \in T : \A y \in T : ~ (<<y, x>> \in OpToRel(<, Nat))
  BY NatLessThanWellFounded, WFMin
<1>2. \A y \in T : <<y, x>> \in OpToRel(<, Nat) <=> y < x
  BY DEF OpToRel
<1>3. \A y \in T : ~ (y < x)
  BY <1>1, <1>2, Zenon
<1> QED
  BY <1>3

(* A key hashes to a slot of the table.                                    *)
LEMMA HomeIn ==
    ASSUME IsHash, NEW c, IsSize(c), NEW k \in Keys
    PROVE  Home(k, c) \in Index(c)
<1>1. hash[k] \in Nat
  BY DEF IsHash
<1>2. \A a \in Nat : a % c \in Nat /\ a % c < c
  BY DEF IsSize
<1> QED
  BY <1>1, <1>2 DEF Home, Index, IsSize

(* Of two slots, a probe comes to one before the other.                    *)
LEMMA SpanOrders ==
    ASSUME NEW c, IsSize(c), NEW h \in Index(c), NEW i \in Index(c),
           NEW j \in Index(c), i # j
    PROVE  i \in Span(h, j, c) <=> j \notin Span(h, i, c)
  BY DEF Span, Index, IsSize

(* A probe comes to the slots before i, and not to i itself.               *)
LEMMA SpanIn ==
    ASSUME NEW c, IsSize(c), NEW h \in Index(c), NEW i \in Index(c)
    PROVE  Span(h, i, c) \subseteq Index(c) \ {i}
  BY DEF Span, Index, IsSize

(* A probe stops in one place.                                             *)
LEMMA StopsOnce ==
    ASSUME IsHash, NEW c, IsSize(c), NEW s, NEW k \in Keys,
           NEW i \in Stops(s, c, k), NEW j \in Stops(s, c, k)
    PROVE  i = j
<1> SUFFICES ASSUME i # j PROVE FALSE
  OBVIOUS
<1>1. i \in Index(c) /\ j \in Index(c) /\ s[i] \in {NoKey, k} /\ s[j] \in {NoKey, k}
  BY DEF Stops
<1>2. i \notin Span(Home(k, c), j, c) /\ j \notin Span(Home(k, c), i, c)
  BY <1>1 DEF Stops
<1> QED
  BY <1>1, <1>2, HomeIn, SpanOrders

(* How many slots a probe that starts at h visits before it comes to i.    *)
Distance(h, i, c) == IF h <= i THEN i - h ELSE i - h + c

(* A probe stops, if a slot is free.                                       *)
LEMMA StopsSomewhere ==
    ASSUME IsHash, NEW c, IsSize(c), NEW s, NEW k \in Keys,
           NEW f \in Index(c), s[f] = NoKey
    PROVE  \E i \in Index(c) : i \in Stops(s, c, k)
<1> DEFINE h == Home(k, c)
           here == {i \in Index(c) : s[i] \in {NoKey, k}}
           T == {Distance(h, i, c) : i \in here}
<1>1. h \in Index(c)
  BY HomeIn
<1> HIDE DEF h
<1>2. \A i \in Index(c) : Distance(h, i, c) \in Nat
  BY <1>1 DEF Distance, Index, IsSize
<1>3. PICK d \in T : \A e \in T : d <= e
  <2>1. T \subseteq Nat /\ T # {}
    BY <1>2
  <2> HIDE DEF T
  <2> QED
    BY <2>1, LeastOf
<1>4. PICK i \in here : d = Distance(h, i, c)
  BY <1>3
<1>5. \A j \in Span(h, i, c) : j \in Index(c) /\ Distance(h, j, c) < Distance(h, i, c)
  BY <1>1, <1>4 DEF Span, Distance, Index, IsSize
<1>6. \A j \in Span(h, i, c) : j \notin here
  BY <1>2, <1>3, <1>4, <1>5
<1> QED
  BY <1>4, <1>5, <1>6 DEF Stops, h

(* add_node changes one slot.                                              *)
LEMMA AddNodeIs ==
    ASSUME IsHash, NEW c, IsSize(c), NEW s, IsTable(s, c), NEW k \in Keys,
           NEW i \in Stops(s, c, k)
    PROVE  AddNode(s, c, k) = [s EXCEPT ![i] = k]
<1>1. \A j : j \in Stops(s, c, k) <=> j = i
  BY StopsOnce
<1> QED
  BY <1>1 DEF AddNode, IsTable

(* A table in which every probe finds its node has no key twice.           *)
LEMMA ChainedOnce ==
    ASSUME IsHash, NEW c, IsSize(c), NEW s, IsTable(s, c), Chained(s, c)
    PROVE  Once(s, c)
<1> SUFFICES ASSUME NEW i \in Index(c), NEW j \in Index(c),
                    s[i] # NoKey, s[i] = s[j]
             PROVE  i = j
  BY DEF Once
<1>1. s[i] \in Keys
  BY DEF IsTable
<1>2. i \in Stops(s, c, s[i]) /\ j \in Stops(s, c, s[i])
  BY DEF Chained
<1> QED
  BY <1>1, <1>2, StopsOnce

(* add_node puts a key that is not there into a free slot and every probe  *)
(* still finds its node.                                                   *)
LEMMA AddKeeps ==
    ASSUME IsHash, NEW c, IsSize(c), NEW s, IsTable(s, c), Chained(s, c),
           NEW k \in Keys, k \notin Held(s, c),
           NEW i \in Stops(s, c, k)
    PROVE  /\ AddNode(s, c, k) = [s EXCEPT ![i] = k]
           /\ i \in Index(c) /\ s[i] = NoKey
           /\ IsTable(AddNode(s, c, k), c)
           /\ Chained(AddNode(s, c, k), c)
           /\ Held(AddNode(s, c, k), c) = Held(s, c) \cup {k}
<1> DEFINE t == [s EXCEPT ![i] = k]
<1>1. AddNode(s, c, k) = t /\ t = [s EXCEPT ![i] = k]
  BY AddNodeIs
<1>2. /\ i \in Index(c) /\ s[i] \in {NoKey, k}
      /\ \A j \in Span(Home(k, c), i, c) : s[j] \notin {NoKey, k}
  BY DEF Stops
<1>3. k # NoKey
  BY KeysAssumption
<1>4. s[i] = NoKey
  BY <1>2, <1>3 DEF Held
<1>5. IsTable(t, c) /\ t[i] = k /\ \A j \in Index(c) \ {i} : t[j] = s[j]
  BY <1>2 DEF IsTable
<1> HIDE DEF t
<1>6. Held(t, c) = Held(s, c) \cup {k}
  BY <1>2, <1>3, <1>4, <1>5 DEF Held
<1>7. ASSUME NEW j \in Index(c), t[j] # NoKey
      PROVE  j \in Stops(t, c, t[j])
  <2>1. CASE j = i
    <3>1. Home(k, c) \in Index(c)
      BY HomeIn
    <3>2. Span(Home(k, c), i, c) \subseteq Index(c) \ {i}
      BY <1>2, <3>1, SpanIn
    <3>3. \A x \in Span(Home(k, c), i, c) : t[x] = s[x]
      BY <3>2, <1>5
    <3> QED
      BY <2>1, <1>2, <1>5, <3>3 DEF Stops
  <2>2. CASE j # i
    <3>1. t[j] = s[j] /\ s[j] \in Keys
      BY <1>5, <1>7, <2>2 DEF IsTable
    <3>2. \A x \in Span(Home(s[j], c), j, c) : s[x] \notin {NoKey, s[j]}
      BY <1>7, <3>1 DEF Chained, Stops
    <3>3. Span(Home(s[j], c), j, c) \subseteq Index(c)
      BY <3>1, HomeIn, SpanIn
    <3>4. \A x \in Span(Home(s[j], c), j, c) : t[x] = s[x]
      BY <1>4, <1>5, <3>2, <3>3
    <3> QED
      BY <3>1, <3>2, <3>4 DEF Stops
  <2> QED
    BY <2>1, <2>2
<1>8. Chained(t, c)
  BY <1>7 DEF Chained
<1> QED
  BY <1>1, <1>2, <1>4, <1>5, <1>6, <1>8, Zenon

(* Where no key has two nodes there are as many keys as nodes.             *)
LEMMA UsedCount ==
    ASSUME NEW c, IsSize(c), NEW s, IsTable(s, c), Once(s, c)
    PROVE  /\ IsFiniteSet(Used(s, c)) /\ IsFiniteSet(Held(s, c))
           /\ Cardinality(Used(s, c)) \in Nat
           /\ Cardinality(Held(s, c)) = Cardinality(Used(s, c))
<1>1. IsFiniteSet(Index(c))
  BY FS_Interval DEF Index, IsSize
<1>2. IsFiniteSet(Used(s, c))
  BY <1>1, FS_Subset DEF Used
<1> DEFINE f == [i \in Used(s, c) |-> s[i]]
<1>3. Held(s, c) = {s[i] : i \in Used(s, c)}
  BY DEF Held, Used
<1>4. f \in Bijection(Used(s, c), Held(s, c))
  BY <1>3 DEF Bijection, Injection, Surjection, IsInjective, Once, Used
<1> HIDE DEF f
<1>5. ExistsBijection(Used(s, c), Held(s, c))
  BY <1>4 DEF ExistsBijection
<1>6. IsFiniteSet(Held(s, c)) /\ Cardinality(Held(s, c)) = Cardinality(Used(s, c))
  BY <1>2, <1>5, FS_Bijection
<1> QED
  BY <1>2, <1>6, FS_CardinalityType

(* A table with fewer nodes than slots has a free one.                     *)
LEMMA FreeSlot ==
    ASSUME NEW c, IsSize(c), NEW s, Cardinality(Used(s, c)) < c
    PROVE  \E i \in Index(c) : s[i] = NoKey
<1> SUFFICES ASSUME \A i \in Index(c) : s[i] # NoKey PROVE FALSE
  OBVIOUS
<1>1. Used(s, c) = 0..(c - 1)
  BY DEF Used, Index
<1>2. Cardinality(0..(c - 1)) = c
  BY FS_Interval DEF IsSize
<1> QED
  BY <1>1, <1>2 DEF IsSize

-----------------------------------------------------------------------------
Types ==
    /\ IsHash
    /\ IsSize(cap) /\ size \in Nat
    /\ IsTable(slots, cap)
    /\ pc \in {"idle", "place", "grow", "shift", "freed"}
    /\ IF pc \in {"idle", "freed"} THEN key = NoKey ELSE key \in Keys
    /\ pc = "grow" => idx \in Nat /\ idx <= cap
    /\ pc = "shift" => idx \in Index(cap)

(* The size is exact and a slot is free, also after one more node.         *)
Counted ==
    /\ Once(slots, cap)
    /\ size = Cardinality(Used(slots, cap))
    /\ size < cap
    /\ pc = "place" => size + 1 < cap

(* Every node is at or behind its position, no slot between the two is     *)
(* free but the hole q, and a node the hole is in the way of is at n or    *)
(* behind it.                                                              *)
OneGap(s, c, n) ==
    /\ \A i \in Used(s, c) : Home(s[i], c) <= i
    /\ \E q \in Index(c) :
          \A i \in Used(s, c) : \A j \in Index(c) :
             Home(s[i], c) <= j /\ j < i /\ s[j] = NoKey => j = q /\ n <= i

(* The scan has all such nodes ahead of it.                                *)
Holed == Home(key, cap) <= idx /\ OneGap(slots, cap, idx)

Chains ==
    Chained(slots, cap) \/ (pc = "shift" /\ Holed)

(* The new array of a resize holds the keys of the slots done so far.      *)
Growing ==
    pc = "grow" =>
        /\ IsTable(fresh, 2 * cap)
        /\ Chained(fresh, 2 * cap)
        /\ Held(fresh, 2 * cap)
              = {slots[j] : j \in {x \in Index(cap) : x < idx}} \ {NoKey}

IInv == Types /\ Counted /\ Chains /\ Growing

-----------------------------------------------------------------------------
(* An empty array.                                                         *)
LEMMA NoSlotsAre ==
    ASSUME NEW c, IsSize(c)
    PROVE  /\ IsTable(NoSlots(c), c) /\ Chained(NoSlots(c), c)
           /\ Once(NoSlots(c), c)
           /\ Used(NoSlots(c), c) = {} /\ Held(NoSlots(c), c) = {}
<1>1. \A i \in Index(c) : NoSlots(c)[i] = NoKey
  BY DEF NoSlots
<1>2. IsTable(NoSlots(c), c)
  BY DEF IsTable, NoSlots
<1> QED
  BY <1>1, <1>2 DEF Chained, Once, Used, Held

(* The hash function of a map stays the same, so a table may be looked at  *)
(* with that of the state before.                                          *)
LEMMA SameHash ==
    ASSUME hash' = hash
    PROVE  /\ Chained(slots, cap)' <=> Chained(slots', cap')
           /\ Chained(fresh, 2 * cap)' <=> Chained(fresh', 2 * cap')
           /\ IsHash' <=> IsHash
           /\ \A k : Home(k, cap)' = Home(k, cap')
<1>1. Chained(slots, cap)' <=> Chained(slots', cap')
  BY DEF Chained, Stops, Home
<1>2. Chained(fresh, 2 * cap)' <=> Chained(fresh', 2 * cap')
  BY DEF Chained, Stops, Home
<1>3. IsHash' <=> IsHash
  BY DEF IsHash
<1>4. \A k : Home(k, cap)' = Home(k, cap')
  BY DEF Home
<1> QED
  BY <1>1, <1>2, <1>3, <1>4

(* The invariant holds of a new map.                                       *)
LEMMA InitIsGood ==
    ASSUME Init
    PROVE  IInv
<1> USE DEF Init
<1>1. IsSize(cap)
  BY CapAssumption DEF IsSize
<1>2. IsHash
  BY HashAssumption DEF IsHash
<1>3. /\ IsTable(slots, cap) /\ Chained(slots, cap)
      /\ Once(slots, cap) /\ Used(slots, cap) = {}
  BY <1>1, NoSlotsAre
<1>4. Cardinality(Used(slots, cap)) = 0
  BY <1>3, FS_EmptySet
<1>5. Types
  BY <1>1, <1>2, <1>3 DEF Types
<1>6. Counted
  BY <1>1, <1>3, <1>4 DEF Counted, IsSize
<1> QED
  BY <1>3, <1>5, <1>6 DEF IInv, Chains, Growing

(* A call that ends and leaves the table as it is.                         *)
LEMMA ReturnIsGood ==
    ASSUME IInv, Return, Chained(slots, cap),
           UNCHANGED <<hash, slots, cap, size>>
    PROVE  IInv'
<1> USE DEF Return
<1>1. Types'
  BY DEF IInv, Types, IsHash, IsSize, IsTable
<1>2. Counted'
  BY DEF IInv, Counted, Once, Used
<1>3. Chains' /\ Growing'
  BY SameHash DEF Chains, Growing
<1> QED
  BY <1>1, <1>2, <1>3 DEF IInv

(* A resize that begins.                                                   *)
LEMMA AllocateIsGood ==
    ASSUME IInv, Allocate, pc # "shift", key' \in Keys,
           UNCHANGED <<hash, slots, cap, size>>
    PROVE  IInv'
<1> USE DEF Allocate
<1>1. Types'
  BY DEF IInv, Types, IsHash, IsSize, IsTable
<1>2. Counted'
  BY DEF IInv, Counted, Once, Used
<1>3. Chains'
  BY SameHash DEF IInv, Chains
<1>4. Growing'
  <2>1. IsSize(2 * cap)
    BY DEF IInv, Types, IsSize
  <2>2. /\ IsTable(fresh', 2 * cap) /\ Chained(fresh', 2 * cap)
        /\ Held(fresh', 2 * cap) = {}
    BY <2>1, NoSlotsAre
  <2>3. {x \in Index(cap) : x < idx'} = {}
    BY DEF IInv, Types, IsSize, Index
  <2>4. /\ IsTable(fresh, 2 * cap)' /\ Chained(fresh, 2 * cap)'
        /\ Held(fresh, 2 * cap)' = {}
    BY <2>2, SameHash DEF IsTable, Held
  <2> QED
    BY <2>3, <2>4 DEF Growing
<1> QED
  BY <1>1, <1>2, <1>3, <1>4 DEF IInv

(* HashMap_add begins.                                                     *)
LEMMA AddIsGood ==
    ASSUME IInv, NEW k \in Keys, Add(k)
    PROVE  IInv'
<1> USE DEF Add
<1>1. Chained(slots, cap)
  BY DEF IInv, Chains
<1>2. CASE Roomy /\ pc' = "place" /\ key' = k /\ UNCHANGED <<idx, fresh>>
  <2>1. size + 1 < cap
    BY <1>2 DEF IInv, Types, IsSize, Roomy
  <2>2. Types'
    BY <1>2 DEF IInv, Types, IsHash, IsSize, IsTable
  <2>3. Counted'
    BY <1>2, <2>1 DEF IInv, Counted, Once, Used
  <2>4. Chains' /\ Growing'
    BY <1>1, <1>2, SameHash DEF Chains, Growing
  <2> QED
    BY <2>2, <2>3, <2>4 DEF IInv
<1>3. CASE Allocate /\ key' = k
  BY <1>3, AllocateIsGood
<1>4. CASE OutOfMemory
  BY <1>1, <1>4, ReturnIsGood DEF OutOfMemory
<1> QED
  BY <1>2, <1>3, <1>4

(* A node goes over to the new array, where there is room for it and where *)
(* its key is not yet.                                                     *)
LEMMA MoveIsGood ==
    ASSUME IInv, Move
    PROVE  IInv'
<1> USE DEF Move
<1>1. /\ IsHash /\ IsSize(cap) /\ IsTable(slots, cap) /\ size < cap
      /\ idx \in Nat /\ idx \in Index(cap) /\ idx' \in Nat /\ idx' <= cap
  BY DEF IInv, Types, Counted, IsSize, Index
<1>2. IsSize(2 * cap) /\ cap < 2 * cap
  BY <1>1 DEF IsSize
<1>3. /\ IsTable(fresh, 2 * cap) /\ Chained(fresh, 2 * cap)
      /\ Held(fresh, 2 * cap)
           = {slots[j] : j \in {x \in Index(cap) : x < idx}} \ {NoKey}
  BY DEF IInv, Growing
<1>4. Types'
  BY <1>1 DEF IInv, Types, IsHash, IsSize, IsTable
<1>5. Counted'
  BY DEF IInv, Counted, Once, Used
<1>6. Chains'
  BY SameHash DEF IInv, Chains
<1> DEFINE Done == {x \in Index(cap) : x < idx}
           k == slots[idx]
<1>7. {x \in Index(cap) : x < idx'} = Done \cup {idx}
  BY <1>1 DEF Index, IsSize
<1>8. /\ IsTable(fresh', 2 * cap) /\ Chained(fresh', 2 * cap)
      /\ Held(fresh', 2 * cap) = {slots[j] : j \in Done \cup {idx}} \ {NoKey}
  <2>1. CASE k = NoKey
    <3>1. fresh' = fresh
      BY <2>1
    <3>2. {slots[j] : j \in Done \cup {idx}} \ {NoKey}
            = {slots[j] : j \in Done} \ {NoKey}
      BY <2>1
    <3> QED
      BY <1>3, <3>1, <3>2
  <2>2. CASE k # NoKey
    <3>1. k \in Keys
      BY <1>1, <2>2 DEF IsTable
    <3>2. k \notin Held(fresh, 2 * cap)
      <4>1. Once(slots, cap)
        BY DEF IInv, Counted
      <4>2. \A j \in Done : slots[j] # k
        BY <1>1, <2>2, <4>1 DEF Once, Index, IsSize
      <4> QED
        BY <1>3, <4>2
    <3>3. Cardinality(Used(fresh, 2 * cap)) < 2 * cap
      <4>1. IsFiniteSet(Held(slots, cap)) /\ Cardinality(Held(slots, cap)) = size
        BY <1>1, UsedCount DEF IInv, Counted
      <4>2. Held(fresh, 2 * cap) \subseteq Held(slots, cap)
        BY <1>3 DEF Held
      <4>3. Cardinality(Held(fresh, 2 * cap)) <= size
        BY <4>1, <4>2, FS_Subset
      <4>4. Cardinality(Used(fresh, 2 * cap)) <= size
        BY <1>1, <1>2, <1>3, <4>3, ChainedOnce, UsedCount
      <4>5. Cardinality(Used(fresh, 2 * cap)) \in Nat
        BY <1>1, <1>2, <1>3, ChainedOnce, UsedCount
      <4> QED
        BY <1>1, <1>2, <4>4, <4>5 DEF IInv, Types, IsSize
    <3>4. PICK i \in Index(2 * cap) : i \in Stops(fresh, 2 * cap, k)
      BY <1>1, <1>2, <3>1, <3>3, FreeSlot, StopsSomewhere
    <3>5. fresh' = AddNode(fresh, 2 * cap, k)
      BY <2>2
    <3>6. /\ IsTable(fresh', 2 * cap) /\ Chained(fresh', 2 * cap)
          /\ Held(fresh', 2 * cap) = Held(fresh, 2 * cap) \cup {k}
      BY <1>1, <1>2, <1>3, <3>1, <3>2, <3>4, <3>5, AddKeeps
    <3>7. {slots[j] : j \in Done \cup {idx}} \ {NoKey}
            = ({slots[j] : j \in Done} \ {NoKey}) \cup {k}
      BY <2>2
    <3> QED
      BY <1>3, <3>6, <3>7
  <2> QED
    BY <2>1, <2>2
<1>9. /\ IsTable(fresh, 2 * cap)' /\ Chained(fresh, 2 * cap)'
      /\ Held(fresh, 2 * cap)'
           = {slots[j] : j \in {x \in Index(cap) : x < idx}}' \ {NoKey}
  BY <1>7, <1>8, SameHash DEF IsTable, Held
<1>10. Growing'
  BY <1>9 DEF Growing
<1> QED
  BY <1>4, <1>5, <1>6, <1>10 DEF IInv

(* The new array holds every node of the old one when it takes its place.  *)
LEMMA SwapIsGood ==
    ASSUME IInv, Swap
    PROVE  IInv' /\ Held(slots, cap)' = Held(slots, cap)
<1> USE DEF Swap
<1>1. /\ IsHash /\ IsSize(cap) /\ size \in Nat /\ IsTable(slots, cap)
      /\ size < cap /\ key \in Keys
  BY DEF IInv, Types, Counted
<1>2. IsSize(2 * cap) /\ size + 1 < 2 * cap
  BY <1>1 DEF IsSize
<1>3. Held(fresh, 2 * cap) = Held(slots, cap)
  <2>1. {x \in Index(cap) : x < idx} = Index(cap)
    BY <1>1 DEF Index, IsSize
  <2> QED
    BY <2>1 DEF IInv, Growing, Held
<1>4. /\ IsTable(fresh, 2 * cap) /\ Chained(fresh, 2 * cap)
      /\ Once(fresh, 2 * cap)
  BY <1>1, <1>2, ChainedOnce DEF IInv, Growing
<1>5. Cardinality(Used(fresh, 2 * cap)) = size
  <2>1. Once(slots, cap) /\ size = Cardinality(Used(slots, cap))
    BY DEF IInv, Counted
  <2> QED
    BY <1>1, <1>2, <1>3, <1>4, <2>1, UsedCount
<1>6. Types'
  BY <1>1, <1>2, <1>4 DEF Types, IsHash, IsSize, IsTable
<1>7. Counted'
  <2>1. Once(slots, cap)' /\ Used(slots, cap)' = Used(fresh, 2 * cap)
    BY <1>4 DEF Once, Used
  <2> QED
    BY <1>1, <1>2, <1>5, <2>1 DEF Counted, IsSize
<1>8. Chains' /\ Growing'
  BY <1>4, SameHash DEF Chains, Growing
<1>9. Held(slots, cap)' = Held(slots, cap)
  BY <1>3 DEF Held
<1> QED
  BY <1>6, <1>7, <1>8, <1>9 DEF IInv

(* A new node is stored where its probe ends.                              *)
LEMMA StoreIsGood ==
    ASSUME IInv, pc = "place", NEW i \in Stops(slots, cap, key),
           slots[i] = NoKey, slots' = AddNode(slots, cap, key),
           size' = size + 1, Return, UNCHANGED <<hash, cap>>
    PROVE  IInv' /\ Held(slots, cap)' = Held(slots, cap) \cup {key}
<1>1. /\ IsHash /\ IsSize(cap) /\ size \in Nat /\ IsTable(slots, cap)
      /\ Once(slots, cap) /\ size = Cardinality(Used(slots, cap))
      /\ size + 1 < cap /\ key \in Keys /\ Chained(slots, cap)
  BY DEF IInv, Types, Counted, Chains
<1>2. key \notin Held(slots, cap)
  <2>1. ASSUME NEW j \in Index(cap), slots[j] = key PROVE FALSE
    <3>1. key # NoKey
      BY <1>1, KeysAssumption
    <3>2. j \in Stops(slots, cap, key)
      BY <1>1, <2>1, <3>1 DEF Chained
    <3> QED
      BY <1>1, <2>1, <3>1, <3>2, StopsOnce
  <2> QED
    BY <2>1 DEF Held
<1>3. /\ slots' = [slots EXCEPT ![i] = key] /\ i \in Index(cap)
      /\ IsTable(slots', cap) /\ Chained(slots', cap)
      /\ Held(slots', cap) = Held(slots, cap) \cup {key}
  BY <1>1, <1>2, AddKeeps
<1>4. Once(slots', cap)
  BY <1>1, <1>3, ChainedOnce
<1>5. Cardinality(Used(slots', cap)) = size + 1
  <2>1. key # NoKey
    BY <1>1, KeysAssumption
  <2>2. Used(slots', cap) = Used(slots, cap) \cup {i} /\ i \notin Used(slots, cap)
    BY <1>1, <1>3, <2>1 DEF Used, IsTable
  <2>3. IsFiniteSet(Used(slots, cap))
    BY <1>1, UsedCount
  <2> QED
    BY <1>1, <2>2, <2>3, FS_AddElement
<1>6. Types'
  BY <1>1, <1>3 DEF Types, IsHash, IsSize, IsTable, Return
<1>7. Counted'
  <2>1. Once(slots, cap)' /\ Used(slots, cap)' = Used(slots', cap)
    BY <1>4 DEF Once, Used
  <2> QED
    BY <1>1, <1>5, <2>1 DEF Counted, Return
<1>8. Chains' /\ Growing'
  BY <1>3, SameHash DEF Chains, Growing, Return
<1>9. Held(slots, cap)' = Held(slots, cap) \cup {key}
  BY <1>3 DEF Held
<1> QED
  BY <1>6, <1>7, <1>8, <1>9 DEF IInv

(* HashMap_add ends at a free slot.                                        *)
LEMMA PlaceIsGood ==
    ASSUME IInv, Place
    PROVE  IInv'
<1>1. Chained(slots, cap)
  BY DEF IInv, Chains, Place
<1>2. CASE OutOfMemory
  BY <1>1, <1>2, ReturnIsGood DEF OutOfMemory, Place
<1>3. CASE slots' = AddNode(slots, cap, key) /\ size' = size + 1 /\ Return
  BY <1>3, StoreIsGood DEF Place
<1> QED
  BY <1>2, <1>3 DEF Place

(* HashMap_add takes a key that is there for a full table.                 *)
LEMMA RetryIsGood ==
    ASSUME IInv, Retry
    PROVE  IInv'
<1>1. Chained(slots, cap) /\ pc = "place" /\ key \in Keys
  BY DEF IInv, Types, Chains, Retry
<1>2. CASE OutOfMemory
  BY <1>1, <1>2, ReturnIsGood DEF OutOfMemory, Retry
<1>3. CASE Allocate /\ UNCHANGED <<slots, size, key>>
  BY <1>1, <1>3, AllocateIsGood DEF Retry
<1> QED
  BY <1>2, <1>3 DEF Retry

(* HashMap_clear_and_free counts down to zero.                             *)
LEMMA ClearIsGood ==
    ASSUME IInv, Clear
    PROVE  IInv' /\ Held(slots, cap)' = {}
<1> USE DEF Clear
<1>1. /\ IsHash /\ IsSize(cap) /\ size \in Nat
      /\ size = Cardinality(Used(slots, cap)) /\ key = NoKey
  BY DEF IInv, Types, Counted
<1>2. /\ IsTable(slots', cap) /\ Chained(slots', cap) /\ Once(slots', cap)
      /\ Used(slots', cap) = {} /\ Held(slots', cap) = {}
  BY <1>1, NoSlotsAre
<1>3. size' = 0
  BY <1>1 DEF Used
<1>4. Types'
  BY <1>1, <1>2, <1>3 DEF Types, IsHash, IsSize, IsTable
<1>5. Counted'
  <2>1. Once(slots, cap)' /\ Used(slots, cap)' = {}
    BY <1>2 DEF Once, Used
  <2> QED
    BY <1>1, <1>3, <2>1, FS_EmptySet DEF Counted, IsSize
<1>6. Chains' /\ Growing'
  BY <1>2, SameHash DEF Chains, Growing
<1>7. Held(slots, cap)' = {}
  BY <1>2 DEF Held
<1> QED
  BY <1>4, <1>5, <1>6, <1>7 DEF IInv

-----------------------------------------------------------------------------
(* HashMap_get finds the nodes of a table in which every chain is whole.   *)
LEMMA FoundIsHeld ==
    ASSUME Types, Chained(slots, cap)
    PROVE  Found = Held(slots, cap)
<1>1. \A i \in Index(cap) : slots[i] \in Keys \cup {NoKey}
  BY DEF Types, IsTable
<1>2. Held(slots, cap) \subseteq Found
  BY <1>1 DEF Held, Found, Chained
<1>3. Found \subseteq Held(slots, cap)
  BY KeysAssumption DEF Held, Found, Stops
<1> QED
  BY <1>2, <1>3

(* The first scan of HashMap_remove leaves one hole, or none.              *)
LEMMA RemoveIsGood ==
    ASSUME IInv, NEW k \in Keys, Remove(k), ~ (k \in Found /\ Wrapped)
    PROVE  IInv' /\ Held(slots, cap)' = Held(slots, cap) \ {k}
<1> USE DEF Remove
<1>1. /\ IsHash /\ IsSize(cap) /\ size \in Nat /\ IsTable(slots, cap)
      /\ Once(slots, cap) /\ size = Cardinality(Used(slots, cap))
      /\ size < cap /\ Chained(slots, cap)
  BY DEF IInv, Types, Counted, Chains
<1>2. Types /\ Found = Held(slots, cap)
  BY <1>1, FoundIsHeld DEF IInv
<1>3. Home(k, cap) \in Index(cap)
  BY <1>1, HomeIn
<1>4. CASE k \notin Found
  <2>1. slots' = slots /\ size' = size
    BY <1>4
  <2>2. Types'
    BY <1>1, <1>3, <2>1 DEF Types, IsHash, IsSize, IsTable
  <2>3. Counted'
    BY <1>1, <2>1 DEF Counted, Once, Used
  <2>4. Chains' /\ Growing'
    BY <1>1, <2>1, SameHash DEF Chains, Growing
  <2>5. Held(slots, cap)' = Held(slots, cap) \ {k}
    BY <1>2, <1>4, <2>1 DEF Held
  <2> QED
    BY <2>2, <2>3, <2>4, <2>5 DEF IInv
<1>5. CASE k \in Found
  <2>1. PICK i \in Stops(slots, cap, k) : slots' = [slots EXCEPT ![i] = NoKey]
    BY <1>5
  <2>2. PICK f \in Index(cap) : slots[f] = k /\ f \in Stops(slots, cap, k)
    BY <1>5 DEF Found, Stops
  <2>3. i = f
    BY <1>1, <2>2, StopsOnce
  <2>4. i \in Index(cap) /\ slots[i] = k /\ k # NoKey /\ size' = size - 1
    BY <1>5, <2>2, <2>3, KeysAssumption
  <2>5. /\ slots'[i] = NoKey /\ \A j \in Index(cap) \ {i} : slots'[j] = slots[j]
        /\ IsTable(slots', cap)
    BY <1>1, <2>1, <2>4 DEF IsTable
  <2>6. Used(slots', cap) = Used(slots, cap) \ {i} /\ i \in Used(slots, cap)
    BY <2>4, <2>5 DEF Used
  <2>7. IsFiniteSet(Used(slots, cap))
    BY <1>1, UsedCount
  <2>8. Cardinality(Used(slots', cap)) = size - 1
    BY <1>1, <2>6, <2>7, FS_RemoveElement
  <2>9. Cardinality(Used(slots', cap)) \in Nat
    BY <2>6, <2>7, FS_RemoveElement, FS_CardinalityType
  <2>10. Once(slots', cap)
    BY <1>1, <2>5 DEF Once
  <2>11. Types'
    BY <1>1, <1>3, <2>4, <2>5, <2>8, <2>9 DEF Types, IsHash, IsSize, IsTable
  <2>12. Counted'
    <3>1. Once(slots, cap)' /\ Used(slots, cap)' = Used(slots', cap)
      BY <2>10 DEF Once, Used
    <3> QED
      BY <1>1, <2>4, <2>8, <3>1 DEF Counted, IsSize
  <2>13. Holed'
    <3>1. \A j \in Used(slots, cap) :
             Home(slots[j], cap) \in Index(cap) /\ Home(slots[j], cap) <= j
      <4>1. \A j \in Used(slots, cap) : j \in Index(cap) /\ slots[j] \in Keys
        BY <1>1 DEF Used, IsTable
      <4>2. \A j \in Used(slots, cap) : Home(slots[j], cap) \in Index(cap)
        BY <1>1, <4>1, HomeIn
      <4>3. \A j \in Used(slots, cap) : ~ (Home(slots[j], cap) > j)
        BY <1>5 DEF Wrapped, Used
      <4> QED
        BY <1>1, <4>1, <4>2, <4>3 DEF Index, IsSize
    <3>2. Home(k, cap) <= i
      <4>1. i \in Used(slots, cap)
        BY <2>6
      <4> QED
        BY <2>4, <3>1, <4>1
    <3>3. ASSUME NEW x \in Used(slots', cap), NEW j \in Index(cap),
                 Home(slots'[x], cap) <= j, j < x, slots'[j] = NoKey
          PROVE  j = i /\ i < x
      <4>1. x \in Used(slots, cap) /\ slots'[x] = slots[x] /\ x \in Index(cap)
        BY <2>5, <2>6, <3>3 DEF Used
      <4>2. j \in Span(Home(slots[x], cap), x, cap)
        BY <1>1, <3>1, <3>3, <4>1 DEF Span, Index, IsSize
      <4>3. slots[j] # NoKey
        BY <1>1, <4>1, <4>2 DEF Used, Chained, Stops
      <4> QED
        BY <2>5, <3>3, <4>3
    <3>4. \A x \in Used(slots', cap) :
             x \in Used(slots, cap) /\ slots'[x] = slots[x]
      BY <2>5, <2>6 DEF Used
    <3>5. \A x \in Used(slots', cap) : \A j \in Index(cap) :
             Home(slots'[x], cap) <= j /\ j < x /\ slots'[j] = NoKey
                => j = i /\ idx' <= x
      <4>1. \A x \in Used(slots', cap) : x \in Index(cap)
        BY DEF Used
      <4> QED
        BY <1>1, <1>3, <2>4, <3>2, <3>3, <4>1 DEF Index, IsSize
    <3>6. Used(slots, cap)' = Used(slots', cap)
      BY DEF Used
    <3>7. \A x : Home(x, cap)' = Home(x, cap)
      BY SameHash
    <3>8. Home(key', cap) <= idx'
      BY <1>1, <1>3 DEF Index, IsSize
    <3>9. \A x \in Used(slots', cap) : Home(slots'[x], cap) <= x
      BY <3>1, <3>4
    <3> QED
      BY <2>4, <3>5, <3>6, <3>7, <3>8, <3>9 DEF Holed, OneGap, Index
  <2>14. Chains' /\ Growing'
    BY <2>13 DEF Chains, Growing
  <2>15. Held(slots', cap) = Held(slots, cap) \ {k}
    <3>1. \A j \in Index(cap) : slots[j] = k => j = i
      BY <1>1, <2>4 DEF Once
    <3> QED
      BY <2>4, <2>5, <3>1 DEF Held
  <2>16. Held(slots, cap)' = Held(slots', cap)
    BY DEF Held
  <2> QED
    BY <2>11, <2>12, <2>14, <2>15, <2>16 DEF IInv
<1> QED
  BY <1>4, <1>5

(* A node with no free slot in front of it comes back to its place.        *)
LEMMA ResettleStays ==
    ASSUME IsHash, IsSize(cap), IsTable(slots, cap), Once(slots, cap),
           idx \in Index(cap), slots[idx] # NoKey,
           \A j \in Span(Home(slots[idx], cap), idx, cap) : slots[j] # NoKey
    PROVE  Resettle(slots[idx]) = slots
<1> DEFINE n == slots[idx]
           holed == [slots EXCEPT ![idx] = NoKey]
<1>1. n \in Keys
  BY DEF IsTable
<1>2. /\ holed[idx] = NoKey /\ IsTable(holed, cap)
      /\ \A j \in Index(cap) \ {idx} : holed[j] = slots[j]
      /\ [holed EXCEPT ![idx] = n] = slots
  BY DEF IsTable
<1>3. Resettle(n) = IF \E i \in Stops(holed, cap, n) : holed[i] = NoKey
                    THEN AddNode(holed, cap, n)
                    ELSE slots
  BY DEF Resettle
<1> HIDE DEF holed
<1>4. Span(Home(n, cap), idx, cap) \subseteq Index(cap) \ {idx}
  BY <1>1, HomeIn, SpanIn
<1>5. \A j \in Span(Home(n, cap), idx, cap) : holed[j] \notin {NoKey, n}
  BY <1>2, <1>4 DEF Once
<1>6. idx \in Stops(holed, cap, n)
  BY <1>2, <1>5 DEF Stops
<1>7. AddNode(holed, cap, n) = [holed EXCEPT ![idx] = n]
  <2> HIDE DEF n
  <2> QED
    BY <1>1, <1>2, <1>6, AddNodeIs
<1> QED
  BY <1>2, <1>3, <1>6, <1>7

(* A node with one free slot in front of it moves there.                   *)
LEMMA ResettleMoves ==
    ASSUME IsHash, IsSize(cap), IsTable(slots, cap), Once(slots, cap),
           idx \in Index(cap), slots[idx] # NoKey,
           NEW q \in Index(cap), slots[q] = NoKey,
           Home(slots[idx], cap) <= q, q < idx,
           \A j \in Index(cap) :
              Home(slots[idx], cap) <= j /\ j < idx /\ slots[j] = NoKey => j = q
    PROVE  Resettle(slots[idx])
             = [slots EXCEPT ![idx] = NoKey, ![q] = slots[idx]]
<1> DEFINE n == slots[idx]
           holed == [slots EXCEPT ![idx] = NoKey]
<1>1. n \in Keys
  BY DEF IsTable
<1>2. /\ holed[q] = NoKey /\ IsTable(holed, cap)
      /\ \A j \in Index(cap) \ {idx} : holed[j] = slots[j]
      /\ [holed EXCEPT ![q] = n] = [slots EXCEPT ![idx] = NoKey, ![q] = n]
  BY DEF IsTable
<1>3. Resettle(n) = IF \E i \in Stops(holed, cap, n) : holed[i] = NoKey
                    THEN AddNode(holed, cap, n)
                    ELSE slots
  BY DEF Resettle
<1> HIDE DEF holed
<1>4. Home(n, cap) \in Index(cap)
  BY <1>1, HomeIn
<1>5. \A j \in Span(Home(n, cap), q, cap) :
         j \in Index(cap) /\ Home(n, cap) <= j /\ j < q /\ j < idx /\ j # idx
  BY <1>4 DEF Span, Index, IsSize
<1>6. \A j \in Span(Home(n, cap), q, cap) : slots[j] # NoKey /\ slots[j] # n
  <2>1. \A j \in Index(cap) : j < q => j # q
    BY DEF Index, IsSize
  <2> QED
    BY <1>5, <2>1 DEF Once
<1>7. \A j \in Span(Home(n, cap), q, cap) : holed[j] \notin {NoKey, n}
  BY <1>2, <1>5, <1>6
<1>8. q \in Stops(holed, cap, n)
  BY <1>2, <1>7 DEF Stops
<1>9. AddNode(holed, cap, n) = [holed EXCEPT ![q] = n]
  BY <1>1, <1>2, <1>8, AddNodeIs
<1> QED
  BY <1>2, <1>3, <1>8, <1>9

(* When the scan is at the end no chain is broken any more.                *)
LEMMA GapGone ==
    ASSUME IsHash, NEW c, IsSize(c), NEW s, IsTable(s, c), Once(s, c),
           OneGap(s, c, c)
    PROVE  Chained(s, c)
<1> SUFFICES ASSUME NEW i \in Index(c), s[i] # NoKey PROVE i \in Stops(s, c, s[i])
  BY DEF Chained
<1>1. i \in Used(s, c) /\ s[i] \in Keys
  BY DEF Used, IsTable
<1>2. Home(s[i], c) \in Index(c) /\ Home(s[i], c) <= i
  BY <1>1, HomeIn DEF OneGap
<1>3. \A j \in Span(Home(s[i], c), i, c) :
         j \in Index(c) /\ Home(s[i], c) <= j /\ j < i /\ j # i
  BY <1>2 DEF Span, Index, IsSize
<1>4. ~ (c <= i)
  BY DEF Index, IsSize
<1>5. \A j \in Span(Home(s[i], c), i, c) : s[j] # NoKey
  BY <1>1, <1>3, <1>4 DEF OneGap
<1>6. \A j \in Span(Home(s[i], c), i, c) : s[j] # s[i]
  BY <1>3 DEF Once
<1> QED
  BY <1>5, <1>6 DEF Stops

(* A turn of the scan leaves a whole table as it is.                       *)
LEMMA ShiftRests ==
    ASSUME IInv, Shift, Chained(slots, cap)
    PROVE  slots' = slots
<1>1. /\ IsHash /\ IsSize(cap) /\ IsTable(slots, cap) /\ Once(slots, cap)
      /\ idx \in Index(cap)
  BY DEF IInv, Types, Counted, Shift
<1>2. slots[idx] # NoKey =>
         \A j \in Span(Home(slots[idx], cap), idx, cap) : slots[j] # NoKey
  BY <1>1 DEF Chained, Stops
<1>3. slots[idx] # NoKey => Resettle(slots[idx]) = slots
  BY <1>1, <1>2, ResettleStays
<1> QED
  BY <1>3 DEF Shift

(* A turn of the scan moves at most one node, which fills the hole and     *)
(* leaves one where it was.                                                *)
LEMMA ShiftCarries ==
    ASSUME IInv, Shift, Holed
    PROVE  /\ IsTable(slots', cap) /\ Once(slots', cap)
           /\ Held(slots', cap) = Held(slots, cap)
           /\ OneGap(slots', cap, idx + 1)
<1>1. /\ IsHash /\ IsSize(cap) /\ IsTable(slots, cap) /\ Once(slots, cap)
      /\ idx \in Index(cap)
  BY DEF IInv, Types, Counted, Shift
<1>2. \A i \in Used(slots, cap) :
         i \in Index(cap) /\ slots[i] \in Keys /\ slots[i] # NoKey
  BY <1>1 DEF Used, IsTable
<1>3. \A i \in Used(slots, cap) :
         Home(slots[i], cap) \in Index(cap) /\ Home(slots[i], cap) <= i
  BY <1>1, <1>2, HomeIn DEF Holed, OneGap
<1>4. PICK q \in Index(cap) :
         \A i \in Used(slots, cap) : \A j \in Index(cap) :
            Home(slots[i], cap) <= j /\ j < i /\ slots[j] = NoKey
               => j = q /\ idx <= i
  BY DEF Holed, OneGap
<1> DEFINE n == slots[idx]
<1>5. CASE n # NoKey /\ Home(n, cap) <= q /\ q < idx /\ slots[q] = NoKey
  <2>1. idx \in Used(slots, cap)
    BY <1>1, <1>5 DEF Used
  <2>2. Resettle(n) = [slots EXCEPT ![idx] = NoKey, ![q] = n]
    BY <1>1, <1>4, <1>5, <2>1, ResettleMoves
  <2>3. Home(n, cap) < idx
    BY <1>1, <1>3, <1>5, <2>1 DEF Index, IsSize
  <2>4. slots' = [slots EXCEPT ![idx] = NoKey, ![q] = n]
    BY <1>5, <2>2, <2>3 DEF Shift
  <2>5. q # idx
    BY <1>5
  <2>6. /\ IsTable(slots', cap)
        /\ slots'[idx] = NoKey /\ slots'[q] = n
        /\ \A j \in Index(cap) : j # idx /\ j # q => slots'[j] = slots[j]
    BY <1>1, <2>4, <2>5 DEF IsTable
  <2>7. Once(slots', cap)
    BY <1>1, <1>5, <2>6 DEF Once
  <2>8. Held(slots', cap) = Held(slots, cap)
    BY <1>1, <1>5, <2>5, <2>6 DEF Held
  <2>9. \A i \in Used(slots', cap) :
           \/ i = q
           \/ i # q /\ i \in Used(slots, cap) /\ slots'[i] = slots[i]
    BY <2>6 DEF Used
  <2>10. \A i \in Used(slots', cap) : Home(slots'[i], cap) <= i
    BY <1>3, <1>5, <2>6, <2>9
  <2>11. ASSUME NEW i \in Used(slots', cap), NEW j \in Index(cap),
                Home(slots'[i], cap) <= j, j < i, slots'[j] = NoKey
         PROVE  j = idx /\ idx + 1 <= i
    <3>1. i \in Index(cap) /\ j # q
      BY <1>5, <2>6, <2>11 DEF Used
    <3>2. j = idx
      <4>1. CASE i = q
        <5>1. Home(n, cap) <= j /\ j < idx
          BY <1>1, <1>5, <2>6, <2>11, <4>1 DEF Index, IsSize
        <5>2. j # idx
          BY <5>1, <1>1 DEF Index, IsSize
        <5> QED
          BY <1>4, <2>1, <2>6, <2>11, <3>1, <5>1, <5>2
      <4>2. CASE i # q
        BY <1>4, <2>6, <2>9, <2>11, <3>1, <4>2
      <4> QED
        BY <4>1, <4>2
    <3> QED
      BY <1>1, <2>11, <3>1, <3>2 DEF Index, IsSize
  <2>12. OneGap(slots', cap, idx + 1)
    BY <1>1, <2>10, <2>11 DEF OneGap
  <2> QED
    BY <2>6, <2>7, <2>8, <2>12
<1>6. CASE ~ (n # NoKey /\ Home(n, cap) <= q /\ q < idx /\ slots[q] = NoKey)
  <2>1. ASSUME idx \in Used(slots, cap), NEW j \in Index(cap),
               Home(n, cap) <= j, j < idx
        PROVE  slots[j] # NoKey
    BY <1>2, <1>4, <1>6, <2>1
  <2>2. ASSUME n # NoKey PROVE Resettle(n) = slots
    <3>1. idx \in Used(slots, cap)
      BY <1>1, <2>2 DEF Used
    <3>2. \A j \in Span(Home(n, cap), idx, cap) :
             j \in Index(cap) /\ Home(n, cap) <= j /\ j < idx
      BY <1>1, <1>3, <3>1 DEF Span, Index, IsSize
    <3>3. \A j \in Span(Home(n, cap), idx, cap) : slots[j] # NoKey
      BY <2>1, <3>1, <3>2
    <3> QED
      BY <1>1, <2>2, <3>3, ResettleStays
  <2>3. slots' = slots
    BY <2>2 DEF Shift
  <2>4. ASSUME NEW i \in Used(slots, cap), NEW j \in Index(cap),
               Home(slots[i], cap) <= j, j < i, slots[j] = NoKey
        PROVE  j = q /\ idx + 1 <= i
    <3>1. j = q /\ idx <= i
      BY <1>4, <2>4
    <3>2. i # idx
      BY <2>1, <2>4
    <3> QED
      BY <1>1, <1>2, <3>1, <3>2 DEF Index, IsSize
  <2>5. OneGap(slots, cap, idx + 1)
    BY <1>3, <2>4 DEF OneGap
  <2> QED
    BY <1>1, <2>3, <2>5
<1> QED
  BY <1>5, <1>6

(* The second scan of HashMap_remove keeps every node and ends with a      *)
(* table in which every chain is whole.                                    *)
LEMMA ShiftIsGood ==
    ASSUME IInv, Shift
    PROVE  IInv' /\ Held(slots, cap)' = Held(slots, cap)
<1>1. /\ IsHash /\ IsSize(cap) /\ size \in Nat /\ IsTable(slots, cap)
      /\ Once(slots, cap) /\ size = Cardinality(Used(slots, cap))
      /\ size < cap /\ idx \in Index(cap) /\ key \in Keys /\ pc = "shift"
      /\ UNCHANGED <<hash, cap, size>>
  BY DEF IInv, Types, Counted, Shift
<1> DEFINE next == IF idx + 1 = cap THEN 0 ELSE idx + 1
<1>2. next \in Index(cap)
  BY <1>1 DEF Index, IsSize
<1>3. \/ next = Home(key, cap) /\ Return
      \/ next # Home(key, cap) /\ idx' = next /\ UNCHANGED <<pc, key, fresh>>
  BY DEF Shift
<1>4. /\ IsTable(slots', cap) /\ Once(slots', cap)
      /\ Held(slots', cap) = Held(slots, cap)
      /\ Chained(slots', cap) \/ (Holed /\ OneGap(slots', cap, idx + 1))
  <2>1. CASE Chained(slots, cap)
    BY <1>1, <2>1, ShiftRests
  <2>2. CASE Holed
    BY <2>2, ShiftCarries
  <2> QED
    BY <2>1, <2>2 DEF IInv, Chains
<1>5. Cardinality(Used(slots', cap)) = size
  BY <1>1, <1>4, UsedCount
<1>6. \/ Chained(slots', cap)
      \/ /\ idx + 1 # cap /\ idx' = idx + 1 /\ UNCHANGED <<pc, key>>
         /\ Home(key, cap) <= idx' /\ OneGap(slots', cap, idx')
  <2>1. CASE Chained(slots', cap)
    BY <2>1
  <2>2. CASE Holed /\ OneGap(slots', cap, idx + 1) /\ idx + 1 = cap
    BY <1>1, <1>4, <2>2, GapGone
  <2>3. CASE Holed /\ OneGap(slots', cap, idx + 1) /\ idx + 1 # cap
    <3>1. Home(key, cap) \in Index(cap) /\ Home(key, cap) <= idx
      BY <1>1, <2>3, HomeIn DEF Holed
    <3>2. next = idx + 1 /\ Home(key, cap) <= idx + 1 /\ next # Home(key, cap)
      BY <1>1, <2>3, <3>1 DEF Index, IsSize
    <3> QED
      BY <1>3, <2>3, <3>2
  <2> QED
    BY <1>4, <2>1, <2>2, <2>3
<1>7. Types'
  <2>1. IsTable(slots, cap)' /\ IsHash' /\ IsSize(cap)' /\ size' \in Nat
    BY <1>1, <1>4 DEF IsTable, IsHash, IsSize
  <2>2. \/ pc' = "idle" /\ key' = NoKey
        \/ pc' = "shift" /\ key' \in Keys /\ idx' \in Index(cap)'
    BY <1>1, <1>2, <1>3 DEF Return, Index
  <2> QED
    BY <2>1, <2>2 DEF Types
<1>8. Counted'
  <2>1. Once(slots, cap)' /\ Used(slots, cap)' = Used(slots', cap)
    BY <1>1, <1>4 DEF Once, Used
  <2>2. pc' # "place"
    BY <1>1, <1>3 DEF Return
  <2> QED
    BY <1>1, <1>5, <2>1, <2>2 DEF Counted
<1>9. Chains'
  <2>1. CASE Chained(slots', cap)
    BY <1>1, <2>1, SameHash DEF Chains
  <2>2. CASE /\ idx + 1 # cap /\ idx' = idx + 1 /\ UNCHANGED <<pc, key>>
             /\ Home(key, cap) <= idx' /\ OneGap(slots', cap, idx')
    <3>1. OneGap(slots, cap, idx)'
      BY <1>1, <2>2 DEF OneGap, Used, Home
    <3>2. Home(key, cap)' <= idx'
      BY <1>1, <2>2 DEF Home
    <3> QED
      BY <1>1, <2>2, <3>1, <3>2 DEF Chains, Holed
  <2> QED
    BY <1>6, <2>1, <2>2
<1>10. Growing'
  BY <1>1, <1>3 DEF Growing, Return
<1>11. Held(slots, cap)' = Held(slots, cap)
  BY <1>1, <1>4 DEF Held
<1> QED
  BY <1>7, <1>8, <1>9, <1>10, <1>11 DEF IInv

-----------------------------------------------------------------------------
(* Nothing happens to a map between the calls.                             *)
LEMMA IdleIsGood ==
    ASSUME IInv, UNCHANGED vars
    PROVE  IInv' /\ Held(slots, cap)' = Held(slots, cap)
<1> USE DEF vars, callVars
<1>1. Types'
  BY DEF IInv, Types, IsHash, IsSize, IsTable
<1>2. Counted'
  BY DEF IInv, Counted, Once, Used
<1>3. Chains'
  <2>1. OneGap(slots, cap, idx) => OneGap(slots, cap, idx)'
    BY DEF OneGap, Used, Home
  <2>2. Home(key, cap)' = Home(key, cap)
    BY DEF Home
  <2> QED
    BY <2>1, <2>2, SameHash DEF IInv, Chains, Holed
<1>4. Growing'
  BY SameHash DEF IInv, Growing, IsTable, Held
<1>5. Held(slots, cap)' = Held(slots, cap)
  BY DEF Held
<1> QED
  BY <1>1, <1>2, <1>3, <1>4, <1>5 DEF IInv

(* Every turn of every call keeps the invariant, unless it tears the       *)
(* table.                                                                  *)
LEMMA StepIsGood ==
    IInv /\ [AnyCall]_vars /\ ~torn' => IInv'
<1> SUFFICES ASSUME IInv, [AnyCall]_vars, ~torn' PROVE IInv'
  OBVIOUS
<1>1. ASSUME NEW k \in Keys, Add(k) PROVE IInv'
  BY <1>1, AddIsGood
<1>2. CASE Move
  BY <1>2, MoveIsGood
<1>3. CASE Swap
  BY <1>3, SwapIsGood
<1>4. CASE Place
  BY <1>4, PlaceIsGood
<1>5. CASE Retry
  BY <1>5, RetryIsGood
<1>6. ASSUME NEW k \in Keys, Remove(k) PROVE IInv'
  <2>1. ~ (k \in Found /\ Wrapped)
    BY <1>6 DEF Remove
  <2> QED
    BY <1>6, <2>1, RemoveIsGood
<1>7. CASE Shift
  BY <1>7, ShiftIsGood
<1>8. CASE Clear
  BY <1>8, ClearIsGood
<1>9. CASE Gone \/ UNCHANGED vars
  BY <1>9, IdleIsGood DEF Gone
<1> QED
  BY <1>1, <1>2, <1>3, <1>4, <1>5, <1>6, <1>7, <1>8, <1>9
     DEF AnyCall, Next, AddMissing, Resume

(* A torn table stays torn.                                                *)
LEMMA TornStays == torn /\ [AnyCall]_vars => torn'
<1> SUFFICES ASSUME torn, [AnyCall]_vars PROVE torn'
  OBVIOUS
<1>1. ASSUME NEW k \in Keys, Add(k) \/ Remove(k) PROVE torn'
  BY <1>1 DEF Add, Remove
<1>2. CASE Move \/ Swap \/ Place \/ Retry
  BY <1>2 DEF Move, Swap, Place, Retry
<1>3. CASE Shift \/ Clear
  BY <1>3 DEF Shift, Clear
<1>4. CASE Gone \/ UNCHANGED vars
  BY <1>4 DEF Gone, vars
<1> QED
  BY <1>1, <1>2, <1>3, <1>4 DEF AnyCall, Next, AddMissing, Resume

(* The table is in order in every state, whatever calls are made, until a  *)
(* node is taken out of a table with a wrapped chain.                      *)
THEOREM MapInvariance == AnyCallSpec => [](~torn => IInv)
<1>1. Init => (~torn => IInv)
  BY InitIsGood
<1>2. (~torn => IInv) /\ [AnyCall]_vars => (~torn => IInv)'
  BY StepIsGood, TornStays
<1> QED
  BY <1>1, <1>2, PTL DEF AnyCallSpec

(* The programs of Hw03 and Hw11 make some of these calls.                 *)
THEOREM ProgramsMakeCalls == Spec => AnyCallSpec
<1>1. [Next]_vars => [AnyCall]_vars
  BY DEF AnyCall
<1> QED
  BY <1>1, PTL DEF Spec, AnyCallSpec

(* They never remove a key, and so never tear the table: what HashMap_get  *)
(* finds and whether a slot is free is in order in every state of theirs.  *)
THEOREM ProgramsKeepOrder == Spec => [](~torn /\ IInv)
<1>1. Init => ~torn
  BY DEF Init
<1>2. ~torn /\ [Next]_vars => ~torn'
  <2> SUFFICES ASSUME ~torn, [Next]_vars PROVE ~torn'
    OBVIOUS
  <2>1. ASSUME NEW k \in Keys, AddMissing(k) PROVE ~torn'
    BY <2>1 DEF AddMissing, Add
  <2>2. CASE Resume
    BY <2>2 DEF Resume, Move, Swap, Place, Retry
  <2>3. CASE Clear
    BY <2>3 DEF Clear
  <2>4. CASE Gone \/ UNCHANGED vars
    BY <2>4 DEF Gone, vars
  <2> QED
    BY <2>1, <2>2, <2>3, <2>4 DEF Next
<1>3. Spec => []~torn
  BY <1>1, <1>2, PTL DEF Spec
<1> QED
  BY <1>3, ProgramsMakeCalls, MapInvariance, PTL

(* HashMap_get finds every key that HashMap_iterate shows, with any hash   *)
(* function, after any additions and resizes and any removals that did not *)
(* take a node out of a table with a wrapped chain.                        *)
THEOREM NoKeyIsLost == AnyCallSpec => []StoredIsFound
<1>1. (~torn => IInv) => StoredIsFound
  BY FoundIsHeld DEF IInv, Chains, StoredIsFound, Stored, Held
<1> QED
  BY <1>1, MapInvariance, PTL

(* map->size counts the nodes and the keys, and there is a free slot for a *)
(* probe to end at, until the table is torn.                               *)
THEOREM RoomIsLeft == AnyCallSpec => []RoomIsCounted
<1>1. (~torn => IInv) => RoomIsCounted
  <2> SUFFICES ASSUME ~torn, IInv PROVE RoomIsCounted
    BY DEF RoomIsCounted
  <2>1. /\ IsSize(cap) /\ IsTable(slots, cap) /\ Once(slots, cap)
        /\ size = Cardinality(Used(slots, cap)) /\ size < cap
    BY DEF IInv, Types, Counted
  <2>2. Cardinality(Held(slots, cap)) = size
    BY <2>1, UsedCount
  <2>3. \E i \in Index(cap) : slots[i] = NoKey
    BY <2>1, FreeSlot
  <2> QED
    BY <2>1, <2>2, <2>3 DEF RoomIsCounted, Used, Held, Stored
<1> QED
  BY <1>1, MapInvariance, PTL

-----------------------------------------------------------------------------
(* What KeySet sees of a map: its members and the call in progress.        *)
Members == IF pc = "shift" THEN Stored ELSE Found

Call ==
    CASE pc = "idle" -> "none"
      [] pc \in {"place", "grow"} -> "add"
      [] pc = "shift" -> "remove"
      [] pc = "freed" -> "freed"

AllSeen == Members = Held(slots, cap)

(* The members are the keys in the table, also in the middle of a call.    *)
LEMMA MembersAreHeld == IInv => AllSeen
  BY FoundIsHeld DEF IInv, Chains, Members, Stored, Held, AllSeen

(* The same of the next state.                                             *)
LEMMA MembersAreHeldNext == IInv' => AllSeen'
  BY MembersAreHeld, PTL

(* The call in progress, as KeySet names it.                               *)
LEMMA CallIs ==
    /\ pc = "idle" => Call = "none"
    /\ pc \in {"place", "grow"} => Call = "add"
    /\ pc = "shift" => Call = "remove"
    /\ pc = "freed" => Call = "freed"
  BY DEF Call

(* The same of the next state.                                             *)
LEMMA CallIsNext ==
    /\ pc' = "idle" => Call' = "none"
    /\ pc' \in {"place", "grow"} => Call' = "add"
    /\ pc' = "shift" => Call' = "remove"
    /\ pc' = "freed" => Call' = "freed"
  BY DEF Call

(* A new map is the empty set.                                             *)
LEMMA RefinesInit == Init => KS!Init
<1> SUFFICES ASSUME Init PROVE KS!Init
  OBVIOUS
<1>1. Held(slots, cap) = {}
  BY CapAssumption, NoSlotsAre DEF Init, IsSize
<1>2. Members = {}
  BY <1>1, InitIsGood, MembersAreHeld DEF AllSeen
<1>3. Call = "none" /\ key = NoKey
  BY CallIs DEF Init
<1> QED
  BY <1>2, <1>3 DEF KS!Init, Members, Call

(* Each turn of a call is one step of KeySet or is not seen by it, unless  *)
(* it tears the table.                                                     *)
LEMMA RefinesStep ==
    IInv /\ [AnyCall]_vars /\ ~torn' => [KS!Next]_(KS!ksVars)
<1> SUFFICES ASSUME IInv, [AnyCall]_vars, ~torn' PROVE [KS!Next]_(KS!ksVars)
  OBVIOUS
<1> DEFINE T == Held(slots, cap)
<1>1. Members = T /\ Members' = T'
  BY StepIsGood, MembersAreHeld, MembersAreHeldNext DEF AllSeen
<1>2. UNCHANGED <<hash, slots, cap>> => T' = T
  BY DEF Held
<1>3. pc \in {"idle", "freed"} => key = NoKey
  BY DEF IInv, Types
<1> HIDE DEF T
<1> SUFFICES \/ \E k \in Keys : \/ /\ Call = "none" /\ Call' = "add"
                                   /\ key' = k /\ T' = T
                                \/ /\ Call = "none" /\ Call' = "remove"
                                   /\ key' = k /\ T' = T \ {k}
             \/ /\ Call = "add" /\ T' \in {T, T \cup {key}}
                /\ Call' = "none" /\ key' = NoKey
             \/ /\ Call = "remove" /\ T' = T /\ Call' = "none" /\ key' = NoKey
             \/ /\ Call = "none" /\ Call' = "freed" /\ key' = NoKey /\ T' = {}
             \/ T' = T /\ Call' = Call /\ key' = key
  BY <1>1 DEF KS!Next, KS!ksVars, KS!BeginAdd, KS!BeginRemove, KS!EndAdd,
              KS!EndRemove, KS!Free, KS!Begin, KS!Return, Members, Call
<1> USE CallIs, CallIsNext
<1>4. ASSUME NEW k \in Keys, Add(k)
      PROVE  \/ Call = "none" /\ Call' = "add" /\ key' = k /\ T' = T
             \/ T' = T /\ Call' = Call /\ key' = key
  BY <1>2, <1>3, <1>4 DEF Add, Allocate, OutOfMemory, Return
<1>5. Move => T' = T /\ Call' = Call /\ key' = key
  BY <1>2 DEF Move
<1>6. Swap => T' = T /\ Call' = Call /\ key' = key
  <2>1. Swap => T' = T
    BY SwapIsGood DEF T
  <2> QED
    BY <2>1 DEF Swap
<1>7. CASE Place
  <2>1. pc = "place" /\ hash' = hash /\ cap' = cap
    BY <1>7 DEF Place
  <2>2. CASE OutOfMemory
    BY <1>2, <2>1, <2>2 DEF OutOfMemory, Return
  <2>3. CASE slots' = AddNode(slots, cap, key) /\ size' = size + 1 /\ Return
    <3>1. T' = T \cup {key}
      BY <1>7, <2>3, StoreIsGood DEF T, Place
    <3> QED
      BY <2>1, <2>3, <3>1 DEF Return
  <2> QED
    BY <1>7, <2>2, <2>3 DEF Place
<1>8. CASE Retry
  <2>1. pc = "place" /\ hash' = hash /\ cap' = cap
    BY <1>8 DEF Retry
  <2>2. CASE OutOfMemory
    BY <1>2, <2>1, <2>2 DEF OutOfMemory, Return
  <2>3. CASE Allocate /\ UNCHANGED <<slots, size, key>>
    BY <1>2, <2>1, <2>3 DEF Allocate
  <2> QED
    BY <1>8, <2>2, <2>3 DEF Retry
<1>9. ASSUME NEW k \in Keys, Remove(k)
      PROVE  Call = "none" /\ Call' = "remove" /\ key' = k /\ T' = T \ {k}
  <2>1. ~ (k \in Found /\ Wrapped)
    BY <1>9 DEF Remove
  <2>2. T' = T \ {k}
    BY <1>9, <2>1, RemoveIsGood DEF T
  <2> QED
    BY <1>9, <2>2 DEF Remove
<1>10. CASE Shift
  <2>1. T' = T /\ pc = "shift"
    BY <1>10, ShiftIsGood DEF T, Shift
  <2>2. \/ pc' = "idle" /\ key' = NoKey
        \/ pc' = pc /\ key' = key
    BY <1>10 DEF Shift, Return
  <2> QED
    BY <2>1, <2>2
<1>11. Clear => Call = "none" /\ Call' = "freed" /\ key' = NoKey /\ T' = {}
  <2>1. Clear => T' = {}
    BY ClearIsGood DEF T
  <2> QED
    BY <1>3, <2>1 DEF Clear
<1>12. Gone \/ UNCHANGED vars => T' = T /\ Call' = Call /\ key' = key
  BY <1>2 DEF Gone, vars, callVars, Call
<1> QED
  BY <1>4, <1>5, <1>6, <1>7, <1>8, <1>9, <1>10, <1>11, <1>12
     DEF AnyCall, Next, AddMissing, Resume

(* What a caller sees of a map is a set until the table is torn: only the  *)
(* call for a key changes whether it is there, and only when it begins or  *)
(* ends.                                                                   *)
THEOREM MapIsKeySet == AnyCallSpec => KeySetSpec
<1>1. Init => KS!Init
  BY RefinesInit
<1>2. (~torn => IInv) /\ [AnyCall]_vars
         => [torn' \/ KS!Next]_(KS!ksVars)
  BY RefinesStep, TornStays
<1> QED
  BY <1>1, <1>2, MapInvariance, PTL DEF AnyCallSpec, KeySetSpec

(* What the programs of Hw03 and Hw11 see of their maps is a set, with no  *)
(* exception.                                                              *)
THEOREM ProgramsSeeASet == Spec => KS!Spec
<1>1. Init => KS!Init
  BY RefinesInit
<1>2. ~torn /\ IInv /\ ~torn' /\ [Next]_vars => [KS!Next]_(KS!ksVars)
  BY RefinesStep DEF AnyCall
<1> QED
  BY <1>1, <1>2, ProgramsKeepOrder, PTL DEF Spec, KS!Spec

=============================================================================
