----------------------------- MODULE MCHashMap ------------------------------
(* Keys and hash values for the HashMap run.   The hash is any function    *)
(* from the keys to the hash values, so every pattern of collisions occurs.*)
EXTENDS HashMap, TLC

CONSTANTS a, b, c, d

MCKeys == {a, b, c, d}

(* Modulo 2, 4 and 8: the same, neighbouring and last positions.           *)
MCHashes == {0, 3, 6, 7}

Symmetry == Permutations(MCKeys)

=============================================================================
