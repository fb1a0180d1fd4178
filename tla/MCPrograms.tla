----------------------------- MODULE MCPrograms -----------------------------
(* Inputs for Programs.                                                    *)
EXTENDS Programs, MCTelehackClient, SequencesExt, TLC

Decoy == [kind |-> "record", arg |-> "decoy"]
Plain == [kind |-> "none", arg |-> "x"]

MCNames == {"x", "y", "decoy"}

(* An archive, empty or with up to 3 entries.                              *)
MCArchives ==
    [before : 0..1, names : SeqOf({"x", "y"}, 3) \ {<<>>},
     directory : {<<Plain>>, <<Plain, Decoy>>}, comment : 0..1]
    \cup [before : 0..1, names : {<<>>}, directory : {<<>>}, comment : 0..1]

(* Bytes from the edges of the tables.                                     *)
SomeBytes == {0, \h41, \h80, \h98, \hB8, \hC0, \hF0, \hFF}

MCSources ==
    [encoding : {"cp1251", "iso-8859-5", "koi8-r"},
     bytes : {<<c>> : c \in 0..255} \cup SeqOf(SomeBytes, 2)]

MCCodes == {"a", "b", "_"}

MCTexts == SeqOf(MCCodes, 6)

MCMessages == {<<c>> : c \in 0..255} \cup SeqOf({0, 1, \h5A, \hFF}, 3)

=============================================================================
