---------------------------- MODULE ArchiveCheck ----------------------------
(***************************************************************************)
(* Hw01: archive_check lists the entries of a zip archive, which may hang  *)
(* at the end of another file.  It goes through the file backwards; from   *)
(* the record at the end of the archive it jumps over the directory.       *)
(*                                                                         *)
(* A file is a sequence of places.  At a place there is the signature of   *)
(* an entry, with its name; that of the end record, with the size of the   *)
(* directory; or nothing.                                                  *)
(***************************************************************************)
EXTENDS Integers, Sequences, SequencesExt

CONSTANT Archives      \* what is in them: [before, names, directory, comment]

VARIABLES
    file,    \* [places, names], with the names of the entries
    pos,     \* the place the program looks at
    out      \* the names that have been listed

Nothing == [kind |-> "none", arg |-> 0]
Record(name) == [kind |-> "record", arg |-> name]
EndOfCentral(size) == [kind |-> "end", arg |-> size]

(* The layout: data in front, the entries, the directory, its end record   *)
(* and a comment.  The directory may hold what looks like an entry.        *)
Archive(s) ==
    LET front == s.before + 2 * Len(s.names)
        last == front + Len(s.directory)
    IN  [names |-> s.names,
         places |-> [p \in 1..(last + 1 + s.comment) |->
            CASE p \in (s.before + 1)..front /\ (p - s.before) % 2 = 1
                   -> Record(s.names[(p - s.before + 1) \div 2])
              [] p \in (front + 1)..last -> s.directory[p - front]
              [] p = last + 1 -> EndOfCentral(Len(s.directory))
              [] OTHER -> Nothing]]

Init ==
    /\ file \in {Archive(s) : s \in Archives}
    /\ pos = Len(file.places) /\ out = <<>>

-----------------------------------------------------------------------------
(* Seeded faults, not part of the program.                                 *)

(* The jump forgets that the loop goes on by one, unless there is no       *)
(* directory.                                                              *)
EndRecordTooFew ==
    /\ pos > 0 /\ file.places[pos].kind = "end"
    /\ LET size == file.places[pos].arg
       IN  pos' = IF size = 0 THEN pos ELSE pos - size + 1
    /\ UNCHANGED <<file, out>>

(* The directory is not jumped over.                                       *)
EndRecordNoJump ==
    /\ pos > 0 /\ file.places[pos].kind = "end"
    /\ pos' = pos - 1
    /\ UNCHANGED <<file, out>>

-----------------------------------------------------------------------------

(* i - central_dir_size + 1, and i-- of the loop: to the first place of    *)
(* the directory, or nowhere if it is empty.                               *)
EndRecord ==
    /\ pos > 0 /\ file.places[pos].kind = "end"
    /\ pos' = pos - file.places[pos].arg
    /\ UNCHANGED <<file, out>>

Entry ==
    /\ pos > 0 /\ file.places[pos].kind = "record"
    /\ out' = Append(out, file.places[pos].arg)
    /\ pos' = pos - 1
    /\ UNCHANGED file

Other ==
    /\ pos > 0 /\ file.places[pos].kind = "none"
    /\ pos' = pos - 1
    /\ UNCHANGED <<file, out>>

Next == EndRecord \/ Entry \/ Other \/ (pos <= 0 /\ UNCHANGED <<file, pos, out>>)

Spec == Init /\ [][Next]_<<file, pos, out>>

-----------------------------------------------------------------------------
(* Properties.                                                             *)

HasEntries == file.names # <<>>

(* At any time the last of the entries have been listed, the last one      *)
(* first; when the scan is over, all of them.                              *)
LastFirst ==
    /\ Len(out) <= Len(file.names)
    /\ \A k \in 1..Len(out) : out[k] = file.names[Len(file.names) + 1 - k]
    /\ pos <= 0 => Len(out) = Len(file.names)

=============================================================================
