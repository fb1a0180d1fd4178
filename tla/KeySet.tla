------------------------------- MODULE KeySet -------------------------------
(***************************************************************************)
(* What a caller of Hw03/hash_map.h sees of a map: a set of keys and one   *)
(* call at a time, which adds or removes the key it was given and no       *)
(* other.                                                                  *)
(***************************************************************************)
CONSTANTS Keys, NoKey

VARIABLES
    members,   \* the keys HashMap_get has an answer for
    call,      \* "none", "add", "remove" or, at the end, "freed"
    arg        \* the key of the call, or NoKey

ksVars == <<members, call, arg>>

Init == members = {} /\ call = "none" /\ arg = NoKey

Begin(c, k) ==
    /\ call = "none"
    /\ call' = c
    /\ arg' = k

Return == call' = "none" /\ arg' = NoKey

(* HashMap_add: the key is a member when it returns, unless it fails.      *)
BeginAdd(k) == Begin("add", k) /\ UNCHANGED members

EndAdd ==
    /\ call = "add"
    /\ members' \in {members, members \cup {arg}}
    /\ Return

(* HashMap_remove never fails.                                             *)
BeginRemove(k) == Begin("remove", k) /\ members' = members \ {k}

EndRemove == call = "remove" /\ UNCHANGED members /\ Return

(* HashMap_clear_and_free.                                                 *)
Free == Begin("freed", NoKey) /\ members' = {}

Next ==
    \/ \E k \in Keys : BeginAdd(k) \/ BeginRemove(k)
    \/ EndAdd
    \/ EndRemove
    \/ Free

Spec == Init /\ [][Next]_ksVars

=============================================================================
