------------------------------ MODULE WordCount -----------------------------
(***************************************************************************)
(* Hw03: count_words goes through a file byte by byte and counts the words *)
(* in a map.  A word is what stands between two bytes that are no letters. *)
(* The map is abstract here; HashMap models it.                            *)
(***************************************************************************)
EXTENDS Integers, Sequences, FiniteSets, SequencesExt, Functions

CONSTANTS
    Texts,      \* files: sequences of letters and of Blank
    Blank       \* a byte that is no letter

VARIABLES file, pos,
    out         \* start_idx, the map and how it stands

vars == <<file, pos, out>>

Init ==
    /\ file \in Texts /\ pos = 1
    /\ out = [start |-> 1, map |-> <<>>, at |-> "reading"]

WordEnds == out.at = "reading" /\ pos <= Len(file) /\ file[pos] = Blank

Word == SubSeq(file, out.start, pos - 1)

Counted(map, word) ==
    [w \in DOMAIN map \cup {word} |->
        (IF w \in DOMAIN map THEN map[w] ELSE 0) + (IF w = word THEN 1 ELSE 0)]

-----------------------------------------------------------------------------
(* Seeded fault, not part of the program.                                  *)

(* After a second blank start_idx stays behind.                            *)
NoWordStays ==
    /\ WordEnds /\ pos = out.start
    /\ pos' = pos + 1
    /\ UNCHANGED <<file, out>>

-----------------------------------------------------------------------------

Letter ==
    /\ out.at = "reading" /\ pos <= Len(file) /\ file[pos] # Blank
    /\ pos' = pos + 1
    /\ UNCHANGED <<file, out>>

NoWord ==
    /\ WordEnds /\ pos = out.start
    /\ pos' = pos + 1
    /\ out' = [out EXCEPT !.start = pos + 1]
    /\ UNCHANGED file

NextWord ==
    /\ WordEnds /\ pos > out.start
    /\ pos' = pos + 1
    /\ out' = [out EXCEPT !.start = pos + 1, !.map = Counted(@, Word)]
    /\ UNCHANGED file

(* The word, its counter or a place in the map cannot be allocated: the    *)
(* map is freed and nothing is printed.                                    *)
NoMemory ==
    /\ WordEnds /\ pos > out.start
    /\ out' = [out EXCEPT !.map = <<>>, !.at = "failed"]
    /\ UNCHANGED <<file, pos>>

Report ==
    /\ out.at = "reading" /\ pos > Len(file)
    /\ out' = [out EXCEPT !.at = "printed"]
    /\ UNCHANGED <<file, pos>>

Next ==
    \/ Letter \/ NoWord \/ NextWord \/ NoMemory \/ Report
    \/ out.at # "reading" /\ UNCHANGED vars

Spec == Init /\ [][Next]_vars

-----------------------------------------------------------------------------
(* Properties.                                                             *)

(* Where a word of a text is: letters with a blank, or nothing, in front   *)
(* and a blank behind.                                                     *)
Occurrences(text, word) ==
    {i \in DOMAIN text :
        /\ i + Len(word) <= Len(text)
        /\ SubSeq(text, i, i + Len(word) - 1) = word
        /\ i = 1 \/ text[i - 1] = Blank
        /\ text[i + Len(word)] = Blank}

Words(text) ==
    {SubSeq(text, p[1], p[2]) : p \in
        {q \in (DOMAIN text) \X (DOMAIN text) :
            q[1] <= q[2] /\ \A k \in q[1]..q[2] : text[k] # Blank}}

(* What is printed is the number of times each word occurs in the file --  *)
(* but for a word that the file ends with, which nothing follows: it is    *)
(* not counted.                                                            *)
CountsExact ==
    out.at = "printed" =>
        \A w \in Words(file) \cup DOMAIN out.map :
            Cardinality(Occurrences(file, w)) =
                IF w \in DOMAIN out.map THEN out.map[w] ELSE 0

=============================================================================
