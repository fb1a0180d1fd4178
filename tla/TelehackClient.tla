--------------------------- MODULE TelehackClient ---------------------------
(***************************************************************************)
(* Hw12/telehack_client.c: connect to the telnet service, read until its   *)
(* prompt, send one figlet command and read until the next prompt.         *)
(*                                                                         *)
(* TCP delivers the bytes of the service in order and in pieces of its own *)
(* choosing; the service or the network may end the connection at any      *)
(* time.  A byte is one of those the program or strstr tells apart.        *)
(***************************************************************************)
EXTENDS Naturals, SequencesExt

CONSTANTS
    Greeting,     \* what the service sends first, up to its prompt
    Reply,        \* what it sends for the command, up to its prompt
    BufferSize    \* what recv is asked for

Bytes == {"text", "cr", "lf", "dot"}

EOF_DATA == <<"cr", "lf", "dot">>

Occurs(t, s) == \E i \in 0..(Len(s) - Len(t)) : SubSeq(s, i + 1, i + Len(t)) = t

(* The prompt is at the end, and nowhere else.                             *)
EndsWithPrompt(s) ==
    /\ IsSuffix(EOF_DATA, s)
    /\ ~Occurs(EOF_DATA, Front(s))

ASSUME StreamAssumption ==
    /\ Greeting \in Seq(Bytes) /\ EndsWithPrompt(Greeting)
    /\ Reply \in Seq(Bytes) /\ EndsWithPrompt(Reply)

ASSUME BufferAssumption == BufferSize \in Nat /\ BufferSize >= Len(EOF_DATA)

VARIABLES
    pc,        \* "connect", "greeting", "send", "reply", "close", "ended"
    unsent,    \* what the service has still to send
    arrived,   \* bytes that recv can take
    printed,   \* bytes the client has printed
    peer,      \* "open", "closed" (recv returns 0) or "reset" (recv fails)
    ok,        \* the reply was read up to its prompt
    split      \* history: a piece ended in the middle of a prompt

vars == <<pc, unsent, arrived, printed, peer, ok, split>>

Init ==
    /\ pc = "connect"
    /\ unsent = <<>>
    /\ arrived = <<>>
    /\ printed = <<>>
    /\ peer = "open"
    /\ ok = FALSE
    /\ split = FALSE

-----------------------------------------------------------------------------
(* Seeded faults, not part of the program.                                 *)

(* The search is for the end of a line.                                    *)
HasLineEnd(piece) == Occurs(<<"cr", "lf">>, piece)

(* The break at the end of the outer loop is missing.                      *)
AfterGoesOn(where) == IF where = "greeting" THEN "send" ELSE "greeting"

-----------------------------------------------------------------------------
(* open_client_socket; getaddrinfo, socket or connect may fail.            *)
Connect ==
    /\ pc = "connect"
    /\ \/ pc' = "greeting" /\ unsent' = Greeting
       \/ pc' = "close" /\ UNCHANGED unsent
    /\ UNCHANGED <<arrived, printed, peer, ok, split>>

(* calloc fails: the outer loop is left before it has read anything.       *)
CommandFails ==
    /\ pc = "greeting"
    /\ printed = <<>>
    /\ pc' = "close"
    /\ UNCHANGED <<unsent, arrived, printed, peer, ok, split>>

After(where) == IF where = "greeting" THEN "send" ELSE "close"

(* strstr(buffer, EOF_DATA): the buffer holds one piece and no NUL.        *)
HasMarker(piece) == Occurs(EOF_DATA, piece)

(* The length of what one recv returns, and what it leaves.                *)
PieceLen == IF Len(arrived) < BufferSize THEN Len(arrived) ELSE BufferSize

Rest(n) == SubSeq(arrived, n + 1, Len(arrived))

(* One turn of either receive loop: the piece is printed and, by itself,   *)
(* searched for the prompt.                                                *)
Receive ==
    /\ pc \in {"greeting", "reply"}
    /\ arrived # <<>>
    /\ LET piece == SubSeq(arrived, 1, PieceLen)
       IN  /\ printed' = printed \o piece
           /\ arrived' = Rest(PieceLen)
           /\ split' = (split \/ Len(arrived' \o unsent) \in {1, 2})
           /\ pc' = IF HasMarker(piece) THEN After(pc) ELSE pc
           /\ ok' = (pc = "reply" /\ HasMarker(piece))
    /\ UNCHANGED <<unsent, peer>>

(* recv returns 0 or -1: neither loop ends because of it.                  *)
ReceiveNothing ==
    /\ pc \in {"greeting", "reply"}
    /\ arrived = <<>>
    /\ peer # "open"
    /\ UNCHANGED vars

(* send works unless the connection has been reset.  The service answers   *)
(* if it is still there.                                                   *)
Send ==
    /\ pc = "send"
    /\ pc' = IF peer = "reset" THEN "close" ELSE "reply"
    /\ unsent' = IF peer = "open" THEN unsent \o Reply ELSE unsent
    /\ UNCHANGED <<arrived, printed, peer, ok, split>>

Close ==
    /\ pc = "close"
    /\ pc' = "ended"
    /\ UNCHANGED <<unsent, arrived, printed, peer, ok, split>>

Client == Connect \/ CommandFails \/ Receive \/ ReceiveNothing \/ Send \/ Close

-----------------------------------------------------------------------------
(* The service and the network.                                            *)

Arrive ==
    /\ peer = "open"
    /\ unsent # <<>>
    /\ arrived' = Append(arrived, Head(unsent))
    /\ unsent' = Tail(unsent)
    /\ UNCHANGED <<pc, printed, peer, ok, split>>

(* The connection ends.  A reset may drop what has not been read.          *)
HangUp ==
    /\ pc # "connect"
    /\ peer = "open"
    /\ \/ peer' \in {"closed", "reset"} /\ UNCHANGED arrived
       \/ peer' = "reset" /\ arrived' = <<>>
    /\ unsent' = <<>>
    /\ UNCHANGED <<pc, printed, ok, split>>

Ended == pc = "ended" /\ UNCHANGED vars

Next == Client \/ Arrive \/ HangUp \/ Ended

Spec == Init /\ [][Next]_vars

(* The client is run, and the network delivers what the service sends.     *)
FairSpec == Spec /\ WF_vars(Client) /\ WF_vars(Arrive)

-----------------------------------------------------------------------------
(* Nothing but the conversation is ever printed, in its order; the command *)
(* is not sent before the whole greeting has been read, and the client     *)
(* that ends after a reply has printed all of it, however the stream was   *)
(* cut into pieces.                                                        *)
WholeConversation ==
    /\ IsPrefix(printed \o arrived \o unsent, Greeting \o Reply)
    /\ pc \in {"send", "reply"} => IsPrefix(Greeting, printed)
    /\ ok => printed = Greeting \o Reply

(* A client that is left in recv, with all that the service had to say     *)
(* read and the connection up, has met a prompt that was cut in two: in no *)
(* other case does it miss the end of the greeting or of the reply.        *)
WaitsOnlyIfSplit ==
    (/\ pc \in {"greeting", "reply"}
     /\ arrived = <<>> /\ unsent = <<>>
     /\ peer = "open") => split

(* If the connection stays and no prompt is cut in two, the client ends.   *)
EndsUnlessSplit == <>(pc = "ended" \/ peer # "open" \/ split)

(* The README: network errors are handled correctly.  So a client whose    *)
(* connection is gone comes to an end.                                     *)
ErrorsEndIt == (peer # "open") ~> (pc = "ended")

=============================================================================
