------------------------------ MODULE HashMap -------------------------------
(***************************************************************************)
(* The open-addressing hash map of Hw03/hash_map.c (Hw11/hash_map.c is the *)
(* same code).  A node stands for its key: the table moves node pointers   *)
(* and never looks at the value behind one.                                *)
(*                                                                         *)
(* One caller at a time uses a map, so a call is cut only into the turns   *)
(* of its loops: the re-insertion of each old slot in resize_map and the   *)
(* second scan of HashMap_remove.                                          *)
(***************************************************************************)
EXTENDS Naturals, FiniteSets

CONSTANTS
    Keys,
    NoKey,        \* an empty slot, NULL in the array
    HashValues,   \* what hash_func may return
    InitialCap,   \* SIZE_HASH_MAP
    MaxCap        \* bound: calloc cannot give a larger array

ASSUME KeysAssumption == NoKey \notin Keys

ASSUME HashAssumption == HashValues \subseteq Nat /\ HashValues # {}

ASSUME CapAssumption ==
    InitialCap \in Nat \ {0} /\ MaxCap \in Nat /\ InitialCap <= MaxCap

VARIABLES
    hash,     \* hash_func: any function, fixed when the map is created
    slots,    \* map->head
    cap,      \* map->capacity
    size,     \* map->size
    pc,       \* the call in progress: "idle", "place", "grow", "shift", "freed"
    key,      \* the key the call in progress is about
    idx,      \* the loop index of resize_map and of HashMap_remove
    fresh,    \* new_array in resize_map
    torn      \* history: a node was taken out of a table with a wrapped chain

callVars == <<pc, key, idx, fresh>>
vars == <<hash, slots, cap, size, callVars, torn>>

Index(c) == 0..(c - 1)

NoSlots(c) == [i \in Index(c) |-> NoKey]

(* The position a key hashes to.                                           *)
Home(k, c) == hash[k] % c

(* The indices a probe that starts at h visits before it comes to i.       *)
Span(h, i, c) ==
    IF h <= i THEN h..(i - 1) ELSE (h..(c - 1)) \cup (0..(i - 1))

(* Where the probe for k stops: at a free slot or at k itself.  At most    *)
(* one index; none if the array is full and k is not in it.                *)
Stops(s, c, k) ==
    {i \in Index(c) :
        /\ s[i] \in {NoKey, k}
        /\ \A j \in Span(Home(k, c), i, c) : s[j] \notin {NoKey, k}}

(* add_node: the node goes where its probe stops.  If that is a node with  *)
(* the same key, or the probe finds no place to stop, nothing changes and  *)
(* the result is 1.                                                        *)
AddNode(s, c, k) ==
    [i \in Index(c) |-> IF i \in Stops(s, c, k) THEN k ELSE s[i]]

(* What HashMap_get finds.                                                 *)
Found == {k \in Keys : \E i \in Stops(slots, cap, k) : slots[i] = k}

(* What HashMap_iterate and HashMap_print show, slot by slot.              *)
Stored == {slots[i] : i \in Index(cap)} \ {NoKey}

Init ==
    /\ hash \in [Keys -> HashValues]
    /\ slots = NoSlots(InitialCap)
    /\ cap = InitialCap
    /\ size = 0
    /\ pc = "idle"
    /\ key = NoKey
    /\ idx = 0
    /\ fresh = <<>>
    /\ torn = FALSE

(* The call is over and its variables are gone.                            *)
Return ==
    /\ pc' = "idle"
    /\ key' = NoKey
    /\ idx' = 0
    /\ fresh' = <<>>

-----------------------------------------------------------------------------
(* Seeded faults, not part of the map: the actions below with a slip.      *)

(* The table may fill up to its last slot.                                 *)
RoomyToTheBrim == cap >= size + 1

(* The loop of resize_map stops one slot early.                            *)
SwapEarly ==
    /\ pc = "grow"
    /\ idx = cap - 1
    /\ slots' = fresh
    /\ cap' = 2 * cap
    /\ pc' = "place"
    /\ idx' = 0
    /\ fresh' = <<>>
    /\ UNCHANGED <<hash, size, key, torn>>

(* The second scan of HashMap_remove moves nothing.                        *)
ShiftNothing ==
    /\ pc = "shift"
    /\ LET next == IF idx + 1 = cap THEN 0 ELSE idx + 1
       IN  IF next = Home(key, cap)
           THEN Return
           ELSE idx' = next /\ UNCHANGED <<pc, key, fresh>>
    /\ UNCHANGED <<hash, slots, cap, size, torn>>

-----------------------------------------------------------------------------
(* Room for one more at RESIZE_RATIO, 1.3.                                 *)
Roomy == 10 * cap >= 13 * (size + 1)

(* resize_map allocates the new array.                                     *)
Allocate ==
    /\ 2 * cap <= MaxCap
    /\ pc' = "grow"
    /\ idx' = 0
    /\ fresh' = NoSlots(2 * cap)

(* calloc or malloc returns NULL: HashMap_add returns -1.                  *)
OutOfMemory == Return /\ UNCHANGED <<slots, size>>

(* HashMap_add: resize first if the table is too full.                     *)
Add(k) ==
    /\ pc = "idle"
    /\ \/ /\ Roomy
          /\ pc' = "place"
          /\ key' = k
          /\ UNCHANGED <<idx, fresh>>
       \/ ~Roomy /\ Allocate /\ key' = k
       \/ ~Roomy /\ OutOfMemory
    /\ UNCHANGED <<hash, slots, cap, size, torn>>

(* One turn of the loop of resize_map.  It tests add_node only for a       *)
(* negative result: a node that was not stored would be left behind.       *)
Move ==
    /\ pc = "grow"
    /\ idx < cap
    /\ idx' = idx + 1
    /\ fresh' = IF slots[idx] = NoKey
                THEN fresh
                ELSE AddNode(fresh, 2 * cap, slots[idx])
    /\ UNCHANGED <<hash, slots, cap, size, pc, key, torn>>

(* The new array replaces the old one and HashMap_add goes on.             *)
Swap ==
    /\ pc = "grow"
    /\ idx = cap
    /\ slots' = fresh
    /\ cap' = 2 * cap
    /\ pc' = "place"
    /\ idx' = 0
    /\ fresh' = <<>>
    /\ UNCHANGED <<hash, size, key, torn>>

(* add_node finds a free slot: malloc gives a node, which is stored, or    *)
(* fails.                                                                  *)
Place ==
    /\ pc = "place"
    /\ \E i \in Stops(slots, cap, key) : slots[i] = NoKey
    /\ \/ /\ slots' = AddNode(slots, cap, key)
          /\ size' = size + 1
          /\ Return
       \/ OutOfMemory
    /\ UNCHANGED <<hash, cap, torn>>

(* add_node returns 1, which is RESULT_ADD_NODE_ALREDY_EXIST when it met   *)
(* the key and RESULT_ADD_NODE_RESIZE when it met no free slot.  The two   *)
(* constants are equal and HashMap_add resizes, whichever it was: a key    *)
(* that is there makes the table grow until calloc fails.                  *)
Retry ==
    /\ pc = "place"
    /\ \A i \in Stops(slots, cap, key) : slots[i] = key
    /\ \/ Allocate /\ UNCHANGED <<slots, size, key>>
       \/ OutOfMemory
    /\ UNCHANGED <<hash, cap, torn>>

(* A chain has gone round the end of the array.                            *)
Wrapped == \E i \in Index(cap) : slots[i] # NoKey /\ Home(slots[i], cap) > i

(* HashMap_remove, first scan: unlink the node if the probe meets it.      *)
Remove(k) ==
    /\ pc = "idle"
    /\ key' = k
    /\ IF k \in Found
       THEN /\ size' = size - 1
            /\ \E i \in Stops(slots, cap, k) :
                  slots' = [slots EXCEPT ![i] = NoKey]
       ELSE UNCHANGED <<slots, size>>
    /\ idx' = Home(k, cap)
    /\ pc' = "shift"
    /\ torn' = (torn \/ (k \in Found /\ Wrapped))
    /\ UNCHANGED <<hash, cap, fresh>>

(* The node at idx is taken out and added again, which puts it into the    *)
(* first free slot from its own position on.                               *)
Resettle(n) ==
    LET holed == [slots EXCEPT ![idx] = NoKey]
    IN  IF \E i \in Stops(holed, cap, n) : holed[i] = NoKey
        THEN AddNode(holed, cap, n)
        ELSE slots

(* One turn of the second scan, which goes once round the whole table.     *)
Shift ==
    /\ pc = "shift"
    /\ slots' = IF slots[idx] # NoKey /\ Home(slots[idx], cap) < idx
                THEN Resettle(slots[idx])
                ELSE slots
    /\ LET next == IF idx + 1 = cap THEN 0 ELSE idx + 1
       IN  IF next = Home(key, cap)
           THEN Return
           ELSE idx' = next /\ UNCHANGED <<pc, key, fresh>>
    /\ UNCHANGED <<hash, cap, size, torn>>

(* HashMap_clear_and_free: every node goes, size is counted down.          *)
Clear ==
    /\ pc = "idle"
    /\ pc' = "freed"
    /\ slots' = NoSlots(cap)
    /\ size' = size - Cardinality({i \in Index(cap) : slots[i] # NoKey})
    /\ UNCHANGED <<hash, cap, key, idx, fresh, torn>>

-----------------------------------------------------------------------------
(* Both programs look a word up and add it only if it is not there.        *)
AddMissing(k) == k \notin Found /\ Add(k)

Resume == Move \/ Swap \/ Place \/ Retry

(* Freed: the map is gone and so is its caller.                            *)
Gone == pc = "freed" /\ UNCHANGED vars

Next ==
    \/ \E k \in Keys : AddMissing(k)
    \/ Resume
    \/ Clear
    \/ Gone

(* The programs of Hw03 and Hw11.                                          *)
Spec == Init /\ [][Next]_vars

(* A program that makes any calls: HashMap_add without looking first, and  *)
(* HashMap_remove of any key at any time.                                  *)
AnyCall ==
    \/ Next
    \/ \E k \in Keys : Add(k) \/ Remove(k)
    \/ Shift

AnyCallSpec == Init /\ [][AnyCall]_vars

-----------------------------------------------------------------------------
(* No key is lost on its probe chain, whatever the hash function, however  *)
(* often the table has grown and whatever has been removed: HashMap_get    *)
(* finds what is stored.  Not so in the middle of HashMap_remove; and not  *)
(* once it has taken a node out of a table in which a chain had wrapped    *)
(* round the end, for its second scan leaves the wrapped nodes where they  *)
(* are, behind the gap.                                                    *)
StoredIsFound == ~torn /\ pc # "shift" => Stored \subseteq Found

(* A key has one node, size counts the nodes, and so resize_map keeps a    *)
(* slot free: a probe for a missing key ends there, and add_node never has *)
(* to report a full table.  Not so once a table has been torn: a key that  *)
(* is not found is added a second time, and the next resize drops one of   *)
(* its nodes without counting it.                                          *)
RoomIsCounted ==
    ~torn =>
        /\ size = Cardinality({i \in Index(cap) : slots[i] # NoKey})
        /\ size = Cardinality(Stored)
        /\ \E i \in Index(cap) : slots[i] = NoKey

-----------------------------------------------------------------------------
KS == INSTANCE KeySet WITH
        members <- IF pc = "shift" THEN Stored ELSE Found,
        call <- CASE pc = "idle" -> "none"
                  [] pc \in {"place", "grow"} -> "add"
                  [] pc = "shift" -> "remove"
                  [] pc = "freed" -> "freed",
        arg <- key

(* What HashMap_get can see between calls behaves like a set until the     *)
(* table is torn: the turns of a resize or of a removal are not to be      *)
(* seen, and no call touches a key but its own.                            *)
KeySetSpec == KS!Init /\ [][torn' \/ KS!Next]_(KS!ksVars)

=============================================================================
