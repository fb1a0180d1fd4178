--------------------------- MODULE ProgramProofs ---------------------------
(***************************************************************************)
(* The programs that go through one input.                                 *)
(*                                                                         *)
(* The telnet client, for any greeting and reply that have the prompt at   *)
(* their end only, any buffer that a prompt fits in, and however the       *)
(* stream is cut and whenever it ends: it prints the conversation in its   *)
(* order, takes no other prompt for the end, and waits for what does not   *)
(* come only if a prompt has been cut in two.                              *)
(*                                                                         *)
(* The buffer of the weather client is long enough, for every step by      *)
(* which it grows and every answer, until a chunk longer than the step     *)
(* comes that runs over its end.                                           *)
(*                                                                         *)
(* The word count, for any files over any bytes: the map counts what lies  *)
(* behind the program, and the program knows where its word began.         *)
(*                                                                         *)
(* The converter, for any files in its encodings: the output is the parts  *)
(* of the bytes read so far, joined, and the tables keep symbols apart.    *)
(*                                                                         *)
(* The CRC, for any files: a byte that is folded in with its row of the    *)
(* table does what eight steps of the division do, since the division is   *)
(* linear and the rows follow from each other.                             *)
(*                                                                         *)
(* The archive check, for any archives and whatever lies around them: what *)
(* has been listed are the last of the entries, and the scan goes on.      *)
(***************************************************************************)
EXTENDS Programs, FiniteSets, FiniteSetTheorems, SequenceTheorems, TLAPS

-----------------------------------------------------------------------------
(* The telnet client.  What it has printed, what recv can take and what    *)
(* the service has still to send are consecutive parts of the conversation.*)

Talk == Greeting \o Reply

(* The bytes of s are those of the conversation after the first k.         *)
Follows(s, k) ==
    /\ k + Len(s) <= Len(Talk)
    /\ \A i \in 1..Len(s) : s[i] = Talk[k + i]

(* Where the client is, and what it has by then.                           *)
Typed ==
    /\ printed \in Seq(Bytes) /\ arrived \in Seq(Bytes) /\ unsent \in Seq(Bytes)
    /\ pc \in {"connect", "greeting", "send", "reply", "close", "ended"}

InOrder ==
    /\ Follows(printed, 0)
    /\ Follows(arrived, Len(printed))
    /\ Follows(unsent, Len(printed) + Len(arrived))

Stages ==
    /\ pc = "connect" => printed = <<>> /\ arrived = <<>> /\ unsent = <<>>
    /\ pc = "greeting" =>
         Len(printed) + Len(arrived) + Len(unsent) <= Len(Greeting)
    /\ pc = "send" =>
         Len(printed) = Len(Greeting) /\ arrived = <<>> /\ unsent = <<>>
    /\ pc = "reply" => Len(printed) >= Len(Greeting)
    /\ ok => pc \in {"close", "ended"} /\ Len(printed) = Len(Talk)

TalkInv == Typed /\ InOrder /\ Stages

(* The two parts of the conversation.                                      *)
LEMMA TalkIs ==
    /\ Greeting \in Seq(Bytes) /\ Reply \in Seq(Bytes) /\ Talk \in Seq(Bytes)
    /\ Len(Talk) = Len(Greeting) + Len(Reply)
    /\ Len(Greeting) \in Nat /\ Len(Reply) \in Nat
    /\ \A i \in 1..Len(Greeting) : Talk[i] = Greeting[i]
    /\ \A i \in 1..Len(Reply) : Talk[Len(Greeting) + i] = Reply[i]
  BY StreamAssumption DEF Talk

(* A text that ends with the prompt shows its bytes nowhere else.          *)
LEMMA OnlyAtEnd ==
    ASSUME NEW s \in Seq(Bytes), EndsWithPrompt(s), NEW j \in Nat,
           j + 3 <= Len(s), s[j + 1] = "cr", s[j + 2] = "lf", s[j + 3] = "dot"
    PROVE  j + 3 = Len(s)
<1>1. SUFFICES ASSUME j + 3 < Len(s) PROVE FALSE
  OBVIOUS
<1> DEFINE f == Front(s)
<1>2. f \in Seq(Bytes) /\ Len(f) = Len(s) - 1
  BY <1>1 DEF Front
<1>3. f[j + 1] = "cr" /\ f[j + 2] = "lf" /\ f[j + 3] = "dot"
  BY <1>1 DEF Front
<1> HIDE DEF f
<1>4. SubSeq(f, j + 1, j + 3) = <<"cr", "lf", "dot">>
  <2> DEFINE g == SubSeq(f, j + 1, j + 3)
  <2>1. g \in Seq(Bytes) /\ Len(g) = 3
    BY <1>1, <1>2
  <2>2. g[1] = f[j + 1] /\ g[2] = f[j + 2] /\ g[3] = f[j + 3]
    BY <1>1, <1>2
  <2> HIDE DEF g
  <2>3. g = <<g[1], g[2], g[3]>>
    BY <2>1
  <2>4. g = <<"cr", "lf", "dot">>
    BY <2>2, <2>3, <1>3
  <2> QED
    BY <2>4 DEF g
<1>5. j \in 0..(Len(f) - 3)
  BY <1>1, <1>2
<1>6. Len(EOF_DATA) = 3
  BY DEF EOF_DATA
<1>7. Occurs(EOF_DATA, f)
  BY <1>4, <1>5, <1>6 DEF Occurs, EOF_DATA
<1> QED
  BY <1>7 DEF EndsWithPrompt, f

(* A piece with the marker shows it byte by byte.                          *)
LEMMA MarkerIs ==
    ASSUME NEW s \in Seq(Bytes), HasMarker(s)
    PROVE  \E i \in Nat : /\ i + 3 <= Len(s)
                          /\ s[i + 1] = "cr" /\ s[i + 2] = "lf"
                          /\ s[i + 3] = "dot"
<1>1. Len(EOF_DATA) = 3
  BY DEF EOF_DATA
<1>2. PICK i \in 0..(Len(s) - 3) :
        SubSeq(s, i + 1, i + 3) = <<"cr", "lf", "dot">>
  BY <1>1 DEF HasMarker, Occurs, EOF_DATA
<1>3. i \in Nat /\ i + 3 <= Len(s)
  BY <1>2
<1> DEFINE f == SubSeq(s, i + 1, i + 3)
<1>4. f[1] = s[i + 1] /\ f[2] = s[i + 2] /\ f[3] = s[i + 3]
  BY <1>3
<1>5. f = <<"cr", "lf", "dot">>
  BY <1>2
<1> HIDE DEF f
<1>6. f[1] = "cr" /\ f[2] = "lf" /\ f[3] = "dot"
  BY <1>5
<1> QED
  BY <1>3, <1>4, <1>6

(* A piece of the greeting that has a prompt ends with the greeting.       *)
LEMMA MarkerEndsGreeting ==
    ASSUME NEW s \in Seq(Bytes), NEW k \in Nat, Follows(s, k), HasMarker(s),
           k + Len(s) <= Len(Greeting)
    PROVE  k + Len(s) = Len(Greeting)
<1>1. PICK i \in Nat : /\ i + 3 <= Len(s)
                       /\ s[i + 1] = "cr" /\ s[i + 2] = "lf" /\ s[i + 3] = "dot"
  BY MarkerIs
<1>2. /\ Talk[k + (i + 1)] = "cr" /\ Talk[k + (i + 2)] = "lf"
      /\ Talk[k + (i + 3)] = "dot"
  <2>1. i + 1 \in 1..Len(s) /\ i + 2 \in 1..Len(s) /\ i + 3 \in 1..Len(s)
    BY <1>1
  <2>2. \A n \in 1..Len(s) : s[n] = Talk[k + n]
    BY DEF Follows
  <2>3. /\ s[i + 1] = Talk[k + (i + 1)] /\ s[i + 2] = Talk[k + (i + 2)]
        /\ s[i + 3] = Talk[k + (i + 3)]
    BY <2>1, <2>2, Zenon
  <2> QED
    BY <1>1, <2>3
<1> DEFINE j == k + i
<1>3. j \in Nat /\ j + 3 <= Len(Greeting)
  BY <1>1, TalkIs
<1>4. /\ Greeting[j + 1] = "cr" /\ Greeting[j + 2] = "lf"
      /\ Greeting[j + 3] = "dot"
  <2>1. /\ j + 1 \in 1..Len(Greeting) /\ j + 2 \in 1..Len(Greeting)
        /\ j + 3 \in 1..Len(Greeting)
    <3> HIDE DEF j
    <3>1. \A m, n \in Nat : m + 3 <= n =>
            m + 1 \in 1..n /\ m + 2 \in 1..n /\ m + 3 \in 1..n
      OBVIOUS
    <3>2. Len(Greeting) \in Nat
      BY TalkIs
    <3> QED
      BY <1>3, <3>1, <3>2, Zenon
  <2>2. /\ Talk[j + 1] = Greeting[j + 1] /\ Talk[j + 2] = Greeting[j + 2]
        /\ Talk[j + 3] = Greeting[j + 3]
    BY <2>1, TalkIs, Zenon
  <2>3. k + (i + 1) = j + 1 /\ k + (i + 2) = j + 2 /\ k + (i + 3) = j + 3
    OBVIOUS
  <2> QED
    BY <1>2, <2>2, <2>3
<1>5. j + 3 = Len(Greeting)
  BY <1>3, <1>4, OnlyAtEnd, StreamAssumption
<1>6. Len(s) \in Nat
  OBVIOUS
<1>7. \A a, b, c \in Nat :
        k + a <= c /\ b + 3 <= a /\ (k + b) + 3 = c => k + a = c
  OBVIOUS
<1> QED
  BY <1>1, <1>5, <1>6, <1>7, TalkIs, Zenon

(* A piece behind the greeting that has a prompt ends with the reply.      *)
LEMMA MarkerEndsReply ==
    ASSUME NEW s \in Seq(Bytes), NEW k \in Nat, Follows(s, k), HasMarker(s),
           Len(Greeting) <= k
    PROVE  k + Len(s) = Len(Talk)
<1>1. PICK i \in Nat : /\ i + 3 <= Len(s)
                       /\ s[i + 1] = "cr" /\ s[i + 2] = "lf" /\ s[i + 3] = "dot"
  BY MarkerIs
<1>2. /\ Talk[k + (i + 1)] = "cr" /\ Talk[k + (i + 2)] = "lf"
      /\ Talk[k + (i + 3)] = "dot"
  <2>1. i + 1 \in 1..Len(s) /\ i + 2 \in 1..Len(s) /\ i + 3 \in 1..Len(s)
    BY <1>1
  <2>2. \A n \in 1..Len(s) : s[n] = Talk[k + n]
    BY DEF Follows
  <2>3. /\ s[i + 1] = Talk[k + (i + 1)] /\ s[i + 2] = Talk[k + (i + 2)]
        /\ s[i + 3] = Talk[k + (i + 3)]
    BY <2>1, <2>2, Zenon
  <2> QED
    BY <1>1, <2>3
<1> DEFINE j == (k - Len(Greeting)) + i
<1>3. j \in Nat /\ j + 3 <= Len(Reply)
  BY <1>1, TalkIs DEF Follows
<1>4. Reply[j + 1] = "cr" /\ Reply[j + 2] = "lf" /\ Reply[j + 3] = "dot"
  <2>1. /\ j + 1 \in 1..Len(Reply) /\ j + 2 \in 1..Len(Reply)
        /\ j + 3 \in 1..Len(Reply)
    <3> HIDE DEF j
    <3>1. \A m, n \in Nat : m + 3 <= n =>
            m + 1 \in 1..n /\ m + 2 \in 1..n /\ m + 3 \in 1..n
      OBVIOUS
    <3>2. Len(Reply) \in Nat
      BY TalkIs
    <3> QED
      BY <1>3, <3>1, <3>2, Zenon
  <2>2. /\ Talk[Len(Greeting) + (j + 1)] = Reply[j + 1]
        /\ Talk[Len(Greeting) + (j + 2)] = Reply[j + 2]
        /\ Talk[Len(Greeting) + (j + 3)] = Reply[j + 3]
    BY <2>1, TalkIs, Zenon
  <2>3. /\ k + (i + 1) = Len(Greeting) + (j + 1)
        /\ k + (i + 2) = Len(Greeting) + (j + 2)
        /\ k + (i + 3) = Len(Greeting) + (j + 3)
    BY TalkIs
  <2> QED
    BY <1>2, <2>2, <2>3
<1>5. j + 3 = Len(Reply)
  BY <1>3, <1>4, OnlyAtEnd, StreamAssumption
<1>6. k + Len(s) <= Len(Talk) /\ Len(s) \in Nat /\ i + 3 <= Len(s)
  BY <1>1 DEF Follows
<1>7. k + (i + 3) = Len(Talk)
  <2>1. \A g, r \in Nat : (k - g) + i + 3 = r => k + (i + 3) = g + r
    OBVIOUS
  <2> QED
    BY <1>5, <2>1, TalkIs
<1>8. Len(Talk) \in Nat
  BY TalkIs
<1>9. \A a, b, c \in Nat :
        k + a <= c /\ b + 3 <= a /\ k + (b + 3) = c => k + a = c
  OBVIOUS
<1> QED
  BY <1>6, <1>7, <1>8, <1>9, Zenon

(* The two parts of what is cut in two still follow.                       *)
LEMMA TakeFollows ==
    ASSUME NEW s \in Seq(Bytes), NEW k \in Nat, NEW n \in 0..Len(s),
           Follows(s, k)
    PROVE  /\ SubSeq(s, 1, n) \in Seq(Bytes) /\ Len(SubSeq(s, 1, n)) = n
           /\ SubSeq(s, n + 1, Len(s)) \in Seq(Bytes)
           /\ Len(SubSeq(s, n + 1, Len(s))) = Len(s) - n
           /\ Follows(SubSeq(s, 1, n), k)
           /\ Follows(SubSeq(s, n + 1, Len(s)), k + n)
<1> DEFINE a == SubSeq(s, 1, n)
           b == SubSeq(s, n + 1, Len(s))
<1>1. a \in Seq(Bytes) /\ Len(a) = n /\ \A i \in 1..n : a[i] = s[i]
  OBVIOUS
<1>2. /\ b \in Seq(Bytes) /\ Len(b) = Len(s) - n
      /\ \A i \in 1..(Len(s) - n) : b[i] = s[n + i]
  OBVIOUS
<1> HIDE DEF a, b
<1>3. Follows(a, k)
  <2>1. Len(a) <= Len(s) /\ Len(a) \in Nat /\ 1..Len(a) \subseteq 1..Len(s)
    BY <1>1
  <2>2. k + Len(a) <= Len(Talk)
    BY <2>1, TalkIs DEF Follows
  <2>3. \A i \in 1..Len(a) : a[i] = Talk[k + i]
    BY <1>1, <2>1 DEF Follows
  <2> QED
    BY <2>2, <2>3 DEF Follows
<1>4. Follows(b, k + n)
  <2>1. \A i \in 1..Len(b) : b[i] = Talk[k + (n + i)]
    BY <1>2 DEF Follows
  <2>2. \A i \in 1..Len(b) : k + (n + i) = (k + n) + i
    BY <1>2
  <2> QED
    BY <1>2, <2>1, <2>2, TalkIs DEF Follows
<1> QED
  BY <1>1, <1>2, <1>3, <1>4 DEF a, b

(* What is put together of two consecutive parts still follows.            *)
LEMMA JoinFollows ==
    ASSUME NEW s \in Seq(Bytes), NEW t \in Seq(Bytes), NEW k \in Nat,
           Follows(s, k), Follows(t, k + Len(s))
    PROVE  /\ s \o t \in Seq(Bytes) /\ Len(s \o t) = Len(s) + Len(t)
           /\ Follows(s \o t, k)
<1> DEFINE a == s \o t
<1>1. /\ a \in Seq(Bytes) /\ Len(a) = Len(s) + Len(t)
      /\ \A i \in 1..Len(s) : a[i] = s[i]
      /\ \A i \in 1..Len(t) : a[Len(s) + i] = t[i]
  OBVIOUS
<1> HIDE DEF a
<1>2. ASSUME NEW i \in 1..Len(a) PROVE a[i] = Talk[k + i]
  <2>1. CASE i \in 1..Len(s)
    BY <2>1, <1>1 DEF Follows
  <2>2. CASE i \notin 1..Len(s)
    <3> DEFINE j == i - Len(s)
    <3>1. j \in 1..Len(t) /\ i = Len(s) + j /\ (k + Len(s)) + j = k + i
      BY <2>2, <1>1
    <3> QED
      BY <3>1, <1>1 DEF Follows
  <2> QED
    BY <2>1, <2>2
<1> QED
  BY <1>1, <1>2, TalkIs DEF Follows, a

(* The parts of the conversation that are given.                           *)
LEMMA NothingFollows ==
    ASSUME NEW k \in Nat, k <= Len(Talk)
    PROVE  <<>> \in Seq(Bytes) /\ Len(<<>>) = 0 /\ Follows(<<>>, k)
  BY TalkIs DEF Follows

(* The conversation begins with the greeting.                              *)
LEMMA GreetingFollows == Follows(Greeting, 0)
<1>1. \A i \in 1..Len(Greeting) : 0 + i = i
  OBVIOUS
<1> QED
  BY <1>1, TalkIs DEF Follows

(* The reply begins where the greeting ends.                               *)
LEMMA ReplyFollows == Follows(Reply, Len(Greeting))
  BY TalkIs DEF Follows

(* At first nothing has been said.                                         *)
LEMMA TalkInitInv == Init => TalkInv
<1> SUFFICES ASSUME Init PROVE TalkInv
  OBVIOUS
<1>1. Follows(<<>>, 0) /\ Len(<<>>) = 0 /\ <<>> \in Seq(Bytes)
  BY NothingFollows, TalkIs
<1> QED
  BY <1>1 DEF Init, TalkInv, Typed, InOrder, Stages

(* The service begins to send its greeting, or main gives up.              *)
LEMMA ConnectInv == ASSUME TalkInv, Connect PROVE TalkInv'
<1>1. printed = <<>> /\ arrived = <<>> /\ unsent = <<>> /\ Len(<<>>) = 0 /\ ~ok
  BY DEF TalkInv, Stages, Connect
<1>2. Follows(<<>>, 0) /\ Follows(Greeting, 0)
  BY NothingFollows, GreetingFollows, TalkIs
<1>3. CASE pc' = "greeting" /\ unsent' = Greeting
  BY <1>1, <1>2, <1>3, TalkIs DEF TalkInv, Typed, InOrder, Stages, Connect
<1>4. CASE pc' = "close" /\ UNCHANGED unsent
  BY <1>1, <1>2, <1>4 DEF TalkInv, Typed, InOrder, Stages, Connect
<1> QED
  BY <1>3, <1>4 DEF Connect

(* A piece is printed.  If it has a prompt, that is the one the loop waits *)
(* for, and the whole of its part has been printed.                        *)
LEMMA ReceiveInv == ASSUME TalkInv, Receive PROVE TalkInv'
<1> DEFINE piece == SubSeq(arrived, 1, PieceLen)
<1>1. PieceLen \in 0..Len(arrived)
  BY BufferAssumption DEF PieceLen, TalkInv, Typed
<1>2. PICK k \in Nat : k = Len(printed)
  BY DEF TalkInv, Typed
<1>3. PICK n \in 0..Len(arrived) : n = PieceLen
  BY <1>1
<1>4. /\ piece \in Seq(Bytes) /\ Len(piece) = n
      /\ Rest(n) \in Seq(Bytes) /\ Len(Rest(n)) = Len(arrived) - n
      /\ Follows(piece, k) /\ Follows(Rest(n), k + n)
  BY <1>2, <1>3, TakeFollows DEF Rest, TalkInv, Typed, InOrder
<1>5. /\ printed' = printed \o piece /\ arrived' = Rest(n) /\ unsent' = unsent
      /\ pc' = IF HasMarker(piece) THEN After(pc) ELSE pc
      /\ ok' = (pc = "reply" /\ HasMarker(piece))
      /\ pc \in {"greeting", "reply"}
  BY <1>3 DEF Receive
<1> HIDE DEF piece
<1>6. /\ printed' \in Seq(Bytes) /\ Len(printed') = k + n
      /\ Follows(printed', 0)
  <2>1. Follows(printed, 0) /\ Follows(piece, 0 + Len(printed))
    BY <1>2, <1>4 DEF TalkInv, InOrder
  <2> QED
    BY <1>2, <1>4, <1>5, <2>1, JoinFollows DEF TalkInv, Typed
<1>7. Len(printed') + Len(arrived') = Len(printed) + Len(arrived)
  <2>1. Len(arrived) \in Nat /\ Len(arrived') = Len(arrived) - n
    BY <1>4, <1>5 DEF TalkInv, Typed
  <2> QED
    BY <1>2, <1>6, <2>1
<1>8. Typed'
  BY <1>4, <1>5, <1>6 DEF TalkInv, Typed, After
<1>9. InOrder'
  BY <1>4, <1>5, <1>6, <1>7 DEF TalkInv, InOrder
<1>10. CASE ~HasMarker(piece)
  <2>1. pc' = pc /\ ok' = FALSE
    BY <1>5, <1>10
  <2>2. Len(printed) <= Len(printed')
    BY <1>2, <1>6
  <2>3. pc = "greeting" =>
          Len(printed') + Len(arrived') + Len(unsent') <= Len(Greeting)
    BY <1>5, <1>7 DEF TalkInv, Stages
  <2>4. pc = "reply" => Len(printed') >= Len(Greeting)
    BY <1>2, <1>6, <2>2, TalkIs DEF TalkInv, Stages
  <2> QED
    BY <1>5, <1>8, <1>9, <2>1, <2>3, <2>4 DEF TalkInv, Stages
<1>11. CASE HasMarker(piece) /\ pc = "greeting"
  <2>1. Len(printed) + Len(arrived) + Len(unsent) <= Len(Greeting)
    BY <1>11 DEF TalkInv, Stages
  <2>2. /\ Len(unsent) \in Nat /\ Len(arrived) \in Nat
        /\ Len(arrived') = Len(arrived) - n
    BY <1>4, <1>5 DEF TalkInv, Typed
  <2>3. k + n <= Len(Greeting)
    BY <1>2, <2>1, <2>2, TalkIs
  <2>4. k + n = Len(Greeting)
    BY <1>4, <1>11, <2>3, MarkerEndsGreeting
  <2>5. Len(arrived') = 0 /\ Len(unsent) = 0
    BY <1>2, <2>1, <2>2, <2>4, TalkIs
  <2>6. arrived' = <<>> /\ unsent' = <<>>
    BY <1>5, <1>8, <2>5 DEF Typed
  <2>7. pc' = "send" /\ ok' = FALSE
    BY <1>5, <1>11 DEF After
  <2> QED
    BY <1>6, <1>8, <1>9, <2>4, <2>6, <2>7 DEF TalkInv, Stages
<1>12. CASE HasMarker(piece) /\ pc = "reply"
  <2>1. k >= Len(Greeting)
    BY <1>2, <1>12 DEF TalkInv, Stages
  <2>2. k + n = Len(Talk)
    BY <1>4, <1>12, <2>1, MarkerEndsReply, TalkIs
  <2>3. pc' = "close"
    BY <1>5, <1>12 DEF After
  <2> QED
    BY <1>6, <1>8, <1>9, <2>2, <2>3 DEF TalkInv, Stages
<1> QED
  BY <1>5, <1>10, <1>11, <1>12

(* The service starts its reply where the greeting has ended.              *)
LEMMA SendInv == ASSUME TalkInv, Send PROVE TalkInv'
<1>1. /\ Len(printed) = Len(Greeting) /\ arrived = <<>> /\ unsent = <<>>
      /\ Len(<<>>) = 0 /\ pc = "send" /\ ~ok
  BY DEF TalkInv, Stages, Send
<1>2. /\ Follows(<<>>, Len(printed)) /\ Follows(Reply, Len(printed) + 0)
      /\ Follows(<<>>, Len(printed) + 0)
  BY <1>1, NothingFollows, ReplyFollows, TalkIs
<1>3. <<>> \o Reply = Reply /\ <<>> \in Seq(Bytes)
  BY TalkIs
<1>4. unsent' = Reply \/ unsent' = <<>>
  BY <1>1, <1>3 DEF Send
<1>5. /\ printed' = printed /\ arrived' = <<>> /\ ok' = FALSE
      /\ pc' \in {"close", "reply"}
  BY <1>1 DEF Send, TalkInv, Stages
<1>6. CASE unsent' = Reply
  BY <1>1, <1>2, <1>3, <1>5, <1>6, TalkIs DEF TalkInv, Typed, InOrder, Stages
<1>7. CASE unsent' = <<>>
  BY <1>1, <1>2, <1>3, <1>5, <1>7, TalkIs DEF TalkInv, Typed, InOrder, Stages
<1> QED
  BY <1>4, <1>6, <1>7

(* A byte arrives.                                                         *)
LEMMA ArriveInv == ASSUME TalkInv, Arrive PROVE TalkInv'
<1>1. PICK m \in Nat : m = Len(printed) + Len(arrived)
  BY DEF TalkInv, Typed
<1>2. 1 \in 0..Len(unsent) /\ unsent \in Seq(Bytes) /\ Follows(unsent, m)
  BY <1>1 DEF Arrive, TalkInv, Typed, InOrder
<1> DEFINE one == SubSeq(unsent, 1, 1)
           rest == SubSeq(unsent, 1 + 1, Len(unsent))
<1>3. /\ one \in Seq(Bytes) /\ Len(one) = 1 /\ Follows(one, m)
      /\ rest \in Seq(Bytes) /\ Len(rest) = Len(unsent) - 1
      /\ Follows(rest, m + 1)
  BY <1>2, TakeFollows
<1>4. one = <<Head(unsent)>> /\ rest = Tail(unsent)
  <2>1. unsent[1] = Head(unsent) /\ one[1] = unsent[1]
    BY <1>2
  <2>2. \A q \in Seq(Bytes) : Len(q) = 1 => q = <<q[1]>>
    OBVIOUS
  <2>3. rest = Tail(unsent)
    BY <1>2
  <2>4. one = <<one[1]>>
    BY <1>3, <2>2, Zenon
  <2> QED
    BY <2>1, <2>3, <2>4
<1>5. Append(arrived, Head(unsent)) = arrived \o one
  BY <1>2, <1>4 DEF TalkInv, Typed
<1> HIDE DEF one, rest
<1>6. /\ arrived' = arrived \o one /\ unsent' = rest
      /\ pc' = pc /\ printed' = printed /\ ok' = ok
  BY <1>4, <1>5 DEF Arrive
<1>7. /\ arrived' \in Seq(Bytes) /\ Len(arrived') = Len(arrived) + 1
      /\ Follows(arrived', Len(printed))
  <2>1. /\ Follows(arrived, Len(printed))
        /\ Follows(one, Len(printed) + Len(arrived))
    BY <1>1, <1>3 DEF TalkInv, InOrder
  <2>2. arrived \in Seq(Bytes) /\ Len(printed) \in Nat
    BY DEF TalkInv, Typed
  <2>3. /\ arrived \o one \in Seq(Bytes)
        /\ Len(arrived \o one) = Len(arrived) + Len(one)
        /\ Follows(arrived \o one, Len(printed))
    <3> HIDE DEF Follows
    <3> QED
      BY <1>3, <2>1, <2>2, JoinFollows
  <2> QED
    BY <1>3, <1>6, <2>3, Zenon
<1>8. Len(printed) + Len(arrived') = m + 1
  BY <1>1, <1>7 DEF TalkInv, Typed
<1>9. unsent # <<>>
  BY DEF Arrive
<1>10. Len(arrived') + Len(unsent') = Len(arrived) + Len(unsent)
  <2>1. Len(arrived) \in Nat /\ Len(unsent) \in Nat
    BY DEF TalkInv, Typed
  <2>2. Len(unsent') = Len(unsent) - 1
    BY <1>3, <1>6
  <2> QED
    BY <1>7, <2>1, <2>2
<1>11. Len(printed) + Len(arrived') + Len(unsent')
         = Len(printed) + Len(arrived) + Len(unsent)
  <2>1. /\ Len(printed) \in Nat /\ Len(arrived) \in Nat /\ Len(unsent) \in Nat
        /\ Len(unsent') \in Nat /\ Len(arrived') \in Nat
    BY <1>3, <1>6, <1>7 DEF TalkInv, Typed
  <2> QED
    BY <1>10, <2>1
<1>12. Typed' /\ InOrder'
  BY <1>3, <1>6, <1>7, <1>8 DEF TalkInv, Typed, InOrder
<1>13. Stages'
  BY <1>6, <1>9, <1>11 DEF TalkInv, Stages
<1> QED
  BY <1>12, <1>13 DEF TalkInv

(* The connection ends; what has not been read may be lost.                *)
LEMMA HangUpInv == ASSUME TalkInv, HangUp PROVE TalkInv'
<1>1. /\ Len(printed) \in Nat /\ Len(arrived) \in Nat /\ Len(unsent) \in Nat
      /\ <<>> \in Seq(Bytes) /\ Len(<<>>) = 0
  BY DEF TalkInv, Typed
<1>2. unsent' = <<>> /\ pc' = pc /\ printed' = printed /\ ok' = ok
  BY DEF HangUp
<1>3. arrived' = arrived \/ arrived' = <<>>
  BY DEF HangUp
<1>4. /\ Follows(<<>>, Len(printed)) /\ Follows(<<>>, Len(printed) + 0)
      /\ Follows(<<>>, Len(printed) + Len(arrived))
  <2>1. Len(printed) <= Len(Talk) /\ Len(printed) + Len(arrived) <= Len(Talk)
    BY <1>1 DEF TalkInv, InOrder, Follows
  <2> QED
    BY <1>1, <2>1, NothingFollows
<1>5. CASE arrived' = arrived
  BY <1>1, <1>2, <1>4, <1>5, TalkIs DEF TalkInv, Typed, InOrder, Stages
<1>6. CASE arrived' = <<>>
  BY <1>1, <1>2, <1>4, <1>6, TalkIs DEF TalkInv, Typed, InOrder, Stages
<1> QED
  BY <1>3, <1>5, <1>6

(* Every step keeps the invariant.                                         *)
LEMMA TalkStepInv == TalkInv /\ [Next]_vars => TalkInv'
<1> SUFFICES ASSUME TalkInv, [Next]_vars PROVE TalkInv'
  OBVIOUS
<1>1. CASE Connect
  BY <1>1, ConnectInv
<1>2. CASE CommandFails
  BY <1>2 DEF CommandFails, TalkInv, Typed, InOrder, Stages
<1>3. CASE Receive
  BY <1>3, ReceiveInv
<1>4. CASE Send
  BY <1>4, SendInv
<1>5. CASE Close
  BY <1>5 DEF Close, TalkInv, Typed, InOrder, Stages
<1>6. CASE Arrive
  BY <1>6, ArriveInv
<1>7. CASE HangUp
  BY <1>7, HangUpInv
<1>8. CASE UNCHANGED vars
  BY <1>8 DEF vars, TalkInv, Typed, InOrder, Stages
<1> QED
  BY <1>1, <1>2, <1>3, <1>4, <1>5, <1>6, <1>7, <1>8
     DEF Next, Client, ReceiveNothing, Ended

(* What follows from the start is a prefix.                                *)
LEMMA FollowsIsPrefix ==
    ASSUME NEW s \in Seq(Bytes), Follows(s, 0)
    PROVE  IsPrefix(s, Talk)
<1>1. Len(s) <= Len(Talk) /\ \A i \in 1..Len(s) : s[i] = Talk[i]
  <2>1. \A i \in 1..Len(s) : 0 + i = i
    OBVIOUS
  <2> QED
    BY <2>1, TalkIs DEF Follows
<1>2. SubSeq(Talk, 1, Len(s)) = s
  BY <1>1, TalkIs
<1>3. SubSeq(s, 1, Len(s)) = s
  OBVIOUS
<1> QED
  BY <1>1, <1>2, <1>3 DEF IsPrefix

(* The invariant implies what is promised.                                 *)
LEMMA TalkIsWhole == TalkInv => WholeConversation
<1> SUFFICES ASSUME TalkInv PROVE WholeConversation
  OBVIOUS
<1>1. /\ printed \in Seq(Bytes) /\ arrived \in Seq(Bytes)
      /\ unsent \in Seq(Bytes)
      /\ Follows(printed, 0) /\ Follows(arrived, 0 + Len(printed))
      /\ Follows(unsent, Len(printed) + Len(arrived))
  BY DEF TalkInv, Typed, InOrder
<1>2. /\ printed \o arrived \in Seq(Bytes) /\ Follows(printed \o arrived, 0)
      /\ Len(printed \o arrived) = Len(printed) + Len(arrived)
  BY <1>1, JoinFollows
<1>3. Follows(unsent, 0 + Len(printed \o arrived))
  BY <1>1, <1>2
<1>4. /\ (printed \o arrived) \o unsent \in Seq(Bytes)
      /\ Follows((printed \o arrived) \o unsent, 0)
  BY <1>1, <1>2, <1>3, JoinFollows
<1>5. IsPrefix(printed \o arrived \o unsent, Talk)
  BY <1>4, FollowsIsPrefix
<1>6. \A i \in 1..Len(printed) : printed[i] = Talk[i]
  <2>1. \A i \in 1..Len(printed) : 0 + i = i
    OBVIOUS
  <2> QED
    BY <1>1, <2>1 DEF Follows
<1>7. ASSUME pc \in {"send", "reply"} PROVE IsPrefix(Greeting, printed)
  <2>1. Len(Greeting) <= Len(printed)
    BY <1>7, TalkIs DEF TalkInv, Stages
  <2>2. 1..Len(Greeting) \subseteq 1..Len(printed)
    BY <1>1, <2>1, TalkIs
  <2>3. \A i \in 1..Len(Greeting) : printed[i] = Greeting[i]
    BY <1>6, <2>2, TalkIs
  <2>4. SubSeq(printed, 1, Len(Greeting)) = Greeting
    BY <1>1, <2>1, <2>3, TalkIs
  <2>5. SubSeq(Greeting, 1, Len(Greeting)) = Greeting
    BY TalkIs
  <2> QED
    BY <2>1, <2>4, <2>5 DEF IsPrefix
<1>8. ASSUME ok PROVE printed = Talk
  <2>1. Len(printed) = Len(Talk)
    BY <1>8 DEF TalkInv, Stages
  <2> QED
    BY <1>1, <1>6, <2>1, TalkIs
<1> QED
  BY <1>5, <1>7, <1>8 DEF WholeConversation, Talk

(* However the stream is cut into pieces and whenever it ends, the client  *)
(* prints the conversation in its order, sends the command only behind the *)
(* whole greeting and has printed all of the reply when it ends after it.  *)
THEOREM ConversationIsWhole == Spec => []WholeConversation
  BY TalkInitInv, TalkStepInv, TalkIsWhole, PTL DEF Spec

(* A text that is read backwards.                                          *)
LEMMA ReverseIs ==
    ASSUME NEW s \in Seq(Bytes)
    PROVE  /\ Reverse(s) \in Seq(Bytes) /\ Len(Reverse(s)) = Len(s)
           /\ \A i \in 1..Len(s) : Reverse(s)[i] = s[(Len(s) - i) + 1]
<1>1. \A i \in 1..Len(s) : (Len(s) - i) + 1 \in 1..Len(s)
  OBVIOUS
<1> QED
  BY <1>1 DEF Reverse

(* A text that ends with the prompt has it as its last three bytes.        *)
LEMMA PromptIsLast ==
    ASSUME NEW s \in Seq(Bytes), EndsWithPrompt(s)
    PROVE  /\ Len(s) >= 3
           /\ s[Len(s) - 2] = "cr" /\ s[Len(s) - 1] = "lf" /\ s[Len(s)] = "dot"
<1> DEFINE e == Reverse(EOF_DATA)
           r == Reverse(s)
<1>1. /\ EOF_DATA \in Seq(Bytes) /\ Len(EOF_DATA) = 3
      /\ EOF_DATA[1] = "cr" /\ EOF_DATA[2] = "lf" /\ EOF_DATA[3] = "dot"
  BY DEF EOF_DATA, Bytes
<1>2. /\ e \in Seq(Bytes) /\ Len(e) = 3
      /\ e[1] = "dot" /\ e[2] = "lf" /\ e[3] = "cr"
  <2>1. /\ e \in Seq(Bytes) /\ Len(e) = 3
        /\ \A i \in 1..3 : e[i] = EOF_DATA[(3 - i) + 1]
    BY <1>1, ReverseIs
  <2> HIDE DEF e
  <2> QED
    BY <1>1, <2>1
<1>3. /\ r \in Seq(Bytes) /\ Len(r) = Len(s)
      /\ \A i \in 1..Len(s) : r[i] = s[(Len(s) - i) + 1]
  BY ReverseIs
<1>4. IsPrefix(e, r)
  BY DEF EndsWithPrompt, IsSuffix
<1> HIDE DEF e, r
<1>5. 3 <= Len(s) /\ SubSeq(e, 1, 3) = SubSeq(r, 1, 3)
  BY <1>2, <1>3, <1>4 DEF IsPrefix
<1>6. \A i \in 1..3 : SubSeq(e, 1, 3)[i] = e[i] /\ SubSeq(r, 1, 3)[i] = r[i]
  BY <1>2, <1>3, <1>5
<1>7. r[1] = "dot" /\ r[2] = "lf" /\ r[3] = "cr"
  BY <1>2, <1>5, <1>6
<1>8. r[1] = s[Len(s)] /\ r[2] = s[Len(s) - 1] /\ r[3] = s[Len(s) - 2]
  <2>1. /\ (Len(s) - 1) + 1 = Len(s) /\ (Len(s) - 2) + 1 = Len(s) - 1
        /\ (Len(s) - 3) + 1 = Len(s) - 2
    OBVIOUS
  <2>2. 1 \in 1..Len(s) /\ 2 \in 1..Len(s) /\ 3 \in 1..Len(s)
    BY <1>5
  <2> QED
    BY <1>3, <2>1, <2>2
<1> QED
  BY <1>5, <1>7, <1>8

(* A piece of three bytes or more that ends where a prompt does has it.    *)
LEMMA LastHasMarker ==
    ASSUME NEW s \in Seq(Bytes), Len(s) >= 3, s[Len(s) - 2] = "cr",
           s[Len(s) - 1] = "lf", s[Len(s)] = "dot"
    PROVE  HasMarker(s)
<1> DEFINE g == SubSeq(s, Len(s) - 2, Len(s))
<1>1. /\ g \in Seq(Bytes) /\ Len(g) = 3
      /\ g[1] = s[Len(s) - 2] /\ g[2] = s[Len(s) - 1] /\ g[3] = s[Len(s)]
  OBVIOUS
<1> HIDE DEF g
<1>2. g = <<g[1], g[2], g[3]>>
  BY <1>1
<1>3. g = <<"cr", "lf", "dot">>
  BY <1>1, <1>2
<1>4. Len(EOF_DATA) = 3
  BY DEF EOF_DATA
<1> DEFINE i == Len(s) - 3
<1>5. i \in 0..(Len(s) - 3) /\ i + 1 = Len(s) - 2 /\ i + 3 = Len(s)
  OBVIOUS
<1> HIDE DEF i
<1>6. SubSeq(s, i + 1, i + 3) = EOF_DATA
  BY <1>3, <1>5 DEF g, EOF_DATA
<1> QED
  BY <1>4, <1>5, <1>6 DEF HasMarker, Occurs

(* While the connection is up and the client reads, the rest of what it    *)
(* waits for is on its way, and the prompt is in it, whole, unless it has  *)
(* been cut.                                                               *)
Rests ==
    peer = "open" =>
      /\ pc = "greeting" =>
           Len(printed) + Len(arrived) + Len(unsent) = Len(Greeting)
      /\ pc = "reply" =>
           Len(printed) + Len(arrived) + Len(unsent) = Len(Talk)
      /\ pc \in {"greeting", "reply"} =>
           split \/ Len(arrived) + Len(unsent) >= 3

WaitInv == TalkInv /\ Rests

(* Both parts of the conversation are long enough for a prompt, and the    *)
(* last three bytes of each are one.                                       *)
LEMMA TalkEnds ==
    /\ Len(Greeting) >= 3 /\ Len(Reply) >= 3
    /\ \A n \in {Len(Greeting), Len(Talk)} :
         Talk[n - 2] = "cr" /\ Talk[n - 1] = "lf" /\ Talk[n] = "dot"
<1>1. /\ Len(Greeting) >= 3
      /\ Greeting[Len(Greeting) - 2] = "cr"
      /\ Greeting[Len(Greeting) - 1] = "lf"
      /\ Greeting[Len(Greeting)] = "dot"
  BY PromptIsLast, StreamAssumption
<1>2. /\ Len(Reply) >= 3
      /\ Reply[Len(Reply) - 2] = "cr" /\ Reply[Len(Reply) - 1] = "lf"
      /\ Reply[Len(Reply)] = "dot"
  BY PromptIsLast, StreamAssumption
<1> DEFINE g == Len(Greeting)
           r == Len(Reply)
<1>3. g - 2 \in 1..g /\ g - 1 \in 1..g /\ g \in 1..g
  BY <1>1, TalkIs
<1>4. /\ r - 2 \in 1..r /\ r - 1 \in 1..r /\ r \in 1..r
      /\ Len(Talk) = g + r /\ Len(Talk) - 2 = g + (r - 2)
      /\ Len(Talk) - 1 = g + (r - 1)
  BY <1>2, TalkIs
<1>5. Talk[g - 2] = "cr" /\ Talk[g - 1] = "lf" /\ Talk[g] = "dot"
  BY <1>1, <1>3, TalkIs
<1>6. /\ Talk[Len(Talk) - 2] = "cr" /\ Talk[Len(Talk) - 1] = "lf"
      /\ Talk[Len(Talk)] = "dot"
  BY <1>2, <1>4, TalkIs
<1> QED
  BY <1>1, <1>2, <1>5, <1>6

(* A piece that ends where a part of the conversation does has its prompt, *)
(* if it is not shorter.                                                   *)
LEMMA EndShows ==
    ASSUME NEW s \in Seq(Bytes), NEW k \in Nat, Follows(s, k), Len(s) >= 3,
           k + Len(s) \in {Len(Greeting), Len(Talk)}
    PROVE  HasMarker(s)
<1> DEFINE m == Len(s)
<1>1. m - 2 \in 1..m /\ m - 1 \in 1..m /\ m \in 1..m
  OBVIOUS
<1>2. /\ k + (m - 2) = (k + m) - 2 /\ k + (m - 1) = (k + m) - 1
  OBVIOUS
<1>3. /\ s[m - 2] = Talk[(k + m) - 2] /\ s[m - 1] = Talk[(k + m) - 1]
      /\ s[m] = Talk[k + m]
  BY <1>1, <1>2 DEF Follows
<1>4. s[m - 2] = "cr" /\ s[m - 1] = "lf" /\ s[m] = "dot"
  BY <1>3, TalkEnds
<1> QED
  BY <1>4, LastHasMarker

(* A piece is taken: what is left, if it is anything, is not a part of a   *)
(* prompt, or the prompt has been cut; if nothing is left the piece had it.*)
LEMMA ReceiveRests == ASSUME WaitInv, Receive PROVE Rests'
<1> SUFFICES ASSUME peer = "open" PROVE Rests'
  BY DEF Rests, Receive
<1> DEFINE piece == SubSeq(arrived, 1, PieceLen)
<1>1. PieceLen \in 0..Len(arrived)
  BY BufferAssumption DEF PieceLen, WaitInv, TalkInv, Typed
<1>2. PICK k \in Nat : k = Len(printed)
  BY DEF WaitInv, TalkInv, Typed
<1>3. PICK n \in 0..Len(arrived) : n = PieceLen
  BY <1>1
<1>4. /\ piece \in Seq(Bytes) /\ Len(piece) = n
      /\ Rest(n) \in Seq(Bytes) /\ Len(Rest(n)) = Len(arrived) - n
      /\ Follows(piece, k)
  BY <1>2, <1>3, TakeFollows DEF Rest, WaitInv, TalkInv, Typed, InOrder
<1>5. /\ printed' = printed \o piece /\ arrived' = Rest(n) /\ unsent' = unsent
      /\ pc' = IF HasMarker(piece) THEN After(pc) ELSE pc
      /\ split' = (split \/ Len(arrived' \o unsent) \in {1, 2})
      /\ pc \in {"greeting", "reply"} /\ peer' = peer
  BY <1>3 DEF Receive
<1> HIDE DEF piece
<1>6. CASE HasMarker(piece)
  BY <1>5, <1>6 DEF Rests, After
<1>7. CASE ~HasMarker(piece)
  <2>1. pc' = pc
    BY <1>5, <1>7
  <2>2. PICK a \in Nat, u \in Nat : a = Len(arrived) /\ u = Len(unsent)
    BY DEF WaitInv, TalkInv, Typed
  <2>3. /\ Len(printed') = k + n /\ Len(arrived') = a - n /\ Len(unsent') = u
        /\ Len(arrived' \o unsent) = (a - n) + u
    <3>1. printed \in Seq(Bytes) /\ unsent \in Seq(Bytes)
      BY DEF WaitInv, TalkInv, Typed
    <3>2. \A p, q \in Seq(Bytes) : Len(p \o q) = Len(p) + Len(q)
      OBVIOUS
    <3> QED
      BY <1>2, <1>4, <1>5, <2>2, <3>1, <3>2
  <2>4. Len(printed') + Len(arrived') + Len(unsent')
          = Len(printed) + Len(arrived) + Len(unsent)
    BY <1>2, <2>2, <2>3
  <2>5. k + a + u \in {Len(Greeting), Len(Talk)}
    BY <1>2, <1>5, <2>2 DEF WaitInv, Rests
  <2>6. ASSUME ~split'
        PROVE  (a - n) + u >= 3
    <3>1. ~split /\ (a - n) + u \notin {1, 2}
      BY <1>5, <2>3, <2>6
    <3>2. a + u >= 3
      BY <1>5, <2>2, <3>1 DEF WaitInv, Rests
    <3>3. ASSUME (a - n) + u = 0
          PROVE  FALSE
      <4>1. n = a /\ u = 0
        BY <1>3, <2>2, <3>3
      <4>2. Len(piece) >= 3 /\ k + Len(piece) \in {Len(Greeting), Len(Talk)}
        BY <1>4, <2>5, <3>2, <4>1
      <4> QED
        BY <1>4, <1>7, <4>2, EndShows
    <3> QED
      BY <1>3, <2>2, <3>1, <3>3
  <2> QED
    BY <1>5, <2>1, <2>3, <2>4, <2>6 DEF WaitInv, Rests
<1> QED
  BY <1>6, <1>7

(* The other steps of the client, the service and the network.             *)
LEMMA ConnectRests == ASSUME WaitInv, Connect PROVE Rests'
<1>1. printed = <<>> /\ arrived = <<>> /\ Len(<<>>) = 0
  BY DEF WaitInv, TalkInv, Stages, Connect
<1>2. /\ printed' = printed /\ arrived' = arrived
      /\ \/ pc' = "greeting" /\ unsent' = Greeting
         \/ pc' = "close"
  BY DEF Connect
<1> QED
  BY <1>1, <1>2, TalkEnds, TalkIs DEF Rests

LEMMA SendRests == ASSUME WaitInv, Send PROVE Rests'
<1>1. /\ Len(printed) = Len(Greeting) /\ arrived = <<>> /\ unsent = <<>>
      /\ Len(<<>>) = 0 /\ <<>> \o Reply = Reply
  BY TalkIs DEF WaitInv, TalkInv, Stages, Send
<1>2. /\ printed' = printed /\ arrived' = arrived /\ peer' = peer
      /\ pc' \in {"close", "reply"}
      /\ peer = "open" => unsent' = unsent \o Reply
  BY DEF Send
<1>3. /\ Len(printed') = Len(Greeting) /\ Len(arrived') = 0
      /\ peer' = "open" => Len(unsent') = Len(Reply)
  BY <1>1, <1>2
<1>4. pc' # "greeting"
  BY <1>2
<1>5. ASSUME peer' = "open"
      PROVE  /\ Len(printed') + Len(arrived') + Len(unsent') = Len(Talk)
             /\ Len(arrived') + Len(unsent') >= 3
  <2>1. PICK g \in Nat, r \in Nat : g = Len(Greeting) /\ r = Len(Reply)
    BY TalkIs
  <2>2. Len(Talk) = g + r /\ r >= 3
    BY <2>1, TalkEnds, TalkIs
  <2>3. Len(printed') = g /\ Len(arrived') = 0 /\ Len(unsent') = r
    BY <1>3, <1>5, <2>1
  <2> QED
    BY <2>1, <2>2, <2>3
<1> QED
  BY <1>4, <1>5 DEF Rests

LEMMA ArriveRests == ASSUME WaitInv, Arrive PROVE Rests'
<1>1. /\ arrived' = Append(arrived, Head(unsent)) /\ unsent' = Tail(unsent)
      /\ unsent # <<>> /\ UNCHANGED <<pc, printed, peer, split>>
  BY DEF Arrive
<1>2. /\ arrived \in Seq(Bytes) /\ unsent \in Seq(Bytes) /\ printed \in Seq(Bytes)
  BY DEF WaitInv, TalkInv, Typed
<1>3. Len(arrived') = Len(arrived) + 1 /\ Len(unsent') = Len(unsent) - 1
  BY <1>1, <1>2
<1>4. Len(arrived') + Len(unsent') = Len(arrived) + Len(unsent)
  BY <1>2, <1>3
<1>5. Len(printed') + Len(arrived') + Len(unsent')
        = Len(printed) + Len(arrived) + Len(unsent)
  BY <1>1, <1>2, <1>3
<1> QED
  BY <1>1, <1>4, <1>5 DEF WaitInv, Rests

(* Every step keeps what is awaited.                                       *)
LEMMA WaitStepInv == WaitInv /\ [Next]_vars => WaitInv'
<1> SUFFICES ASSUME WaitInv, [Next]_vars PROVE WaitInv'
  OBVIOUS
<1>1. ASSUME CommandFails PROVE Rests'
  BY <1>1 DEF CommandFails, WaitInv, Rests
<1>2. ASSUME Close PROVE Rests'
  BY <1>2 DEF Close, WaitInv, Rests
<1>3. ASSUME HangUp PROVE Rests'
  BY <1>3 DEF HangUp, WaitInv, Rests
<1>4. ASSUME UNCHANGED vars PROVE Rests'
  BY <1>4 DEF vars, WaitInv, Rests
<1>5. Rests'
  BY <1>1, <1>2, <1>3, <1>4, ConnectRests, ReceiveRests, SendRests, ArriveRests
     DEF Next, Client, ReceiveNothing, Ended
<1> QED
  BY <1>5, TalkStepInv DEF WaitInv

(* A client that waits for what will never come has had a prompt cut in    *)
(* two, wherever else the stream is cut.                                   *)
THEOREM OnlySplitWaits == Spec => []WaitsOnlyIfSplit
<1>1. Init => WaitInv
  BY TalkInitInv DEF Init, WaitInv, Rests
<1>2. WaitInv => WaitsOnlyIfSplit
  <2>1. Len(<<>>) = 0
    OBVIOUS
  <2> QED
    BY <2>1 DEF WaitInv, Rests, WaitsOnlyIfSplit
<1> QED
  BY <1>1, <1>2, WaitStepInv, PTL DEF Spec

-----------------------------------------------------------------------------
(* The weather client.                                                     *)

(* The inductive invariant: while chunks arrive the bytes received lie     *)
(* below the capacity, and there is as much memory as it says, unless a    *)
(* chunk longer than the step has just run over the end.                   *)
BufferInv ==
    /\ size \in Nat /\ capacity \in Nat /\ allocated \in Nat
    /\ received \in Nat /\ newest \in Nat
    /\ transfer \in {"running", "done", "failed", "overrun"}
    /\ IF transfer = "overrun" THEN newest > BUFFER_SIZE
       ELSE received < capacity /\ capacity <= allocated
    /\ transfer # "failed" => size = received

(* The first block is not shorter than the capacity.                       *)
LEMMA BufferInitInv == BufferInit => BufferInv
<1>1. SUFFICES ASSUME BufferInit PROVE BufferInv
  OBVIOUS
<1>2. BUFFER_SIZE \in Nat \ {0} /\ Pointer \in Nat \ {0}
  BY SizesAssumption
<1>3. Pointer * BUFFER_SIZE \in Nat /\ BUFFER_SIZE <= Pointer * BUFFER_SIZE
  BY <1>2
<1> QED
  BY <1>1, <1>2, <1>3 DEF BufferInit, BufferInv

(* A chunk that is taken makes the buffer longer, if it must, by a step;   *)
(* if that is not enough, the chunk was longer than the step.              *)
LEMMA ChunkInv ==
    ASSUME BufferInv, NEW n \in 0..MaxChunk, Chunk(n)
    PROVE  BufferInv'
<1>1. BUFFER_SIZE \in Nat /\ n \in Nat
  BY SizesAssumption
<1>2. /\ size \in Nat /\ capacity \in Nat /\ allocated \in Nat /\ received \in Nat
      /\ received < capacity /\ capacity <= allocated /\ size = received
  BY DEF BufferInv, Chunk
<1>3. /\ size' = size + n /\ received' = received + n /\ newest' = n
      /\ transfer' = IF received' < allocated' THEN "running" ELSE "overrun"
  BY DEF Chunk
<1>4. CASE Full(n)
  <2>1. capacity' = capacity + BUFFER_SIZE /\ allocated' = capacity + BUFFER_SIZE
    BY <1>4 DEF Chunk
  <2>2. ~ (received' < allocated') => n > BUFFER_SIZE
    BY <1>1, <1>2, <1>3, <2>1
  <2> QED
    BY <1>1, <1>2, <1>3, <2>1, <2>2 DEF BufferInv
<1>5. CASE ~Full(n)
  <2>1. capacity' = capacity /\ allocated' = allocated /\ size + n < capacity
    BY <1>1, <1>2, <1>5 DEF Chunk, Full
  <2> QED
    BY <1>1, <1>2, <1>3, <2>1 DEF BufferInv
<1> QED
  BY <1>4, <1>5

(* Every step keeps the invariant.                                         *)
LEMMA BufferStepInv == BufferInv /\ [BufferNext]_buffer => BufferInv'
<1> SUFFICES ASSUME BufferInv, [BufferNext]_buffer PROVE BufferInv'
  OBVIOUS
<1>1. ASSUME NEW n \in 0..MaxChunk, Chunk(n) PROVE BufferInv'
  BY <1>1, ChunkInv
<1>2. ASSUME NEW n \in 0..MaxChunk, ChunkRefused(n) PROVE BufferInv'
  <2>1. n \in Nat
    BY SizesAssumption
  <2> QED
    BY <1>2, <2>1 DEF BufferInv, ChunkRefused
<1>3. CASE Perform
  BY <1>3 DEF BufferInv, Perform
<1>4. CASE UNCHANGED buffer
  BY <1>4 DEF BufferInv, buffer
<1> QED
  BY <1>1, <1>2, <1>3, <1>4 DEF BufferNext

(* What write_data has received lies in the buffer with the NUL behind it, *)
(* and the answer that main parses is all of it, for every BUFFER_SIZE and *)
(* chunks of any length, as long as none runs over the end; and one that   *)
(* does is longer than BUFFER_SIZE.                                        *)
THEOREM BufferIsLongEnough == BufferSpec => []BufferHolds
<1>1. BufferInv => BufferHolds
  BY DEF BufferInv, BufferHolds
<1> QED
  BY <1>1, BufferInitInv, BufferStepInv, PTL DEF BufferSpec

-----------------------------------------------------------------------------
(* The word count.  Words, of whatever file.                               *)
IsWord(w) == w \in Seq(Codes) /\ Len(w) >= 1 /\ \A k \in 1..Len(w) : w[k] # Blank

(* The occurrences of a word that are behind the program.                  *)
Behind(w, n) == {i \in Count!Occurrences(file, w) : i + Len(w) < n}

Times(map, w) == IF w \in DOMAIN map THEN map[w] ELSE 0

(* Where the program is in the file.                                       *)
Reading ==
    /\ file \in Seq(Codes)
    /\ pos \in 1..(Len(file) + 1)
    /\ out = [start |-> out.start, map |-> out.map, at |-> out.at]
    /\ out.at = "printed" => pos > Len(file)

(* From start_idx on there are letters, and a blank in front.              *)
WordBegun ==
    /\ out.start \in 1..pos
    /\ \A k \in out.start..(pos - 1) : file[k] # Blank
    /\ out.start = 1 \/ file[out.start - 1] = Blank

(* The map counts what is behind the program.                              *)
MapCounts ==
    /\ \A w \in DOMAIN out.map : IsWord(w)
    /\ \A w : IsWord(w) =>
          Cardinality(Behind(w, pos)) = Times(out.map, w)

WordInv == Reading /\ (out.at # "failed" => WordBegun /\ MapCounts)

-----------------------------------------------------------------------------
(* What an occurrence is.                                                  *)
LEMMA OccurrenceIs ==
    ASSUME file \in Seq(Codes), NEW w, IsWord(w), NEW i \in Count!Occurrences(file, w)
    PROVE  /\ i \in 1..Len(file) /\ i + Len(w) <= Len(file) /\ Len(w) \in Nat
           /\ file[i + Len(w)] = Blank /\ (i = 1 \/ file[i - 1] = Blank)
           /\ SubSeq(file, i, i + Len(w) - 1) = w
           /\ \A k \in i..(i + Len(w) - 1) : file[k] # Blank
<1>1. /\ i \in 1..Len(file) /\ i + Len(w) <= Len(file)
      /\ file[i + Len(w)] = Blank /\ (i = 1 \/ file[i - 1] = Blank)
      /\ SubSeq(file, i, i + Len(w) - 1) = w
  BY DEF Count!Occurrences
<1>2. Len(w) \in Nat /\ Len(file) \in Nat /\ Len(w) >= 1
  BY DEF IsWord
<1>3. ASSUME NEW k \in i..(i + Len(w) - 1) PROVE file[k] # Blank
  <2> DEFINE m == i + Len(w) - 1
             j == k - i + 1
  <2>1. i \in 1..(Len(file) + 1) /\ m \in 0..Len(file)
    BY <1>1, <1>2
  <2>2. j \in 1..(m - i + 1) /\ j \in 1..Len(w) /\ i + j - 1 = k
    BY <1>1, <1>2
  <2> HIDE DEF m, j
  <2>3. SubSeq(file, i, m)[j] = file[i + j - 1]
    BY <2>1, <2>2, SubSeqProperties
  <2>4. w[j] # Blank
    BY <2>2 DEF IsWord
  <2> QED
    BY <1>1, <2>2, <2>3, <2>4 DEF m
<1> QED
  BY <1>1, <1>2, <1>3

(* There are finitely many.                                                *)
LEMMA BehindIsFinite ==
    ASSUME file \in Seq(Codes), NEW w, NEW n
    PROVE  IsFiniteSet(Behind(w, n))
<1>1. DOMAIN file = 1..Len(file) /\ Len(file) \in Nat
  OBVIOUS
<1>2. IsFiniteSet(1..Len(file))
  BY <1>1, FS_Interval
<1>3. Behind(w, n) \subseteq 1..Len(file)
  BY <1>1 DEF Behind, Count!Occurrences
<1> QED
  BY <1>2, <1>3, FS_Subset

(* The next byte leaves behind the occurrences it ends.                    *)
LEMMA BehindGrows ==
    ASSUME Reading, NEW w, IsWord(w)
    PROVE  Behind(w, pos + 1) =
             Behind(w, pos) \cup {i \in Count!Occurrences(file, w) : i + Len(w) = pos}
<1>1. \A i \in Count!Occurrences(file, w) : i + Len(w) \in Int
  BY OccurrenceIs DEF Reading
<1>2. pos \in Int
  BY DEF Reading
<1>3. \A x \in Int : x < pos + 1 <=> x < pos \/ x = pos
  BY <1>2
<1> QED
  BY <1>1, <1>3, Zenon DEF Behind

(* A word that ends at pos begins at start_idx.                            *)
LEMMA EndsHere ==
    ASSUME Reading, WordBegun, NEW w, IsWord(w),
           NEW i \in Count!Occurrences(file, w), i + Len(w) = pos
    PROVE  i = out.start /\ w = Count!Word /\ pos > out.start
<1>1. /\ i \in 1..Len(file) /\ Len(w) \in Nat /\ Len(w) >= 1
      /\ i = 1 \/ file[i - 1] = Blank
      /\ SubSeq(file, i, i + Len(w) - 1) = w
      /\ \A k \in i..(i + Len(w) - 1) : file[k] # Blank
  BY OccurrenceIs DEF Reading, IsWord
<1>2. /\ out.start \in 1..pos /\ pos \in Nat
      /\ \A k \in out.start..(pos - 1) : file[k] # Blank
      /\ out.start = 1 \/ file[out.start - 1] = Blank
  BY DEF WordBegun, Reading
<1>3. ~ (i < out.start)
  <2>1. SUFFICES ASSUME i < out.start PROVE FALSE
    OBVIOUS
  <2>2. out.start - 1 \in i..(i + Len(w) - 1) /\ out.start # 1
    BY <1>1, <1>2, <2>1
  <2> QED
    BY <1>1, <1>2, <2>2
<1>4. ~ (out.start < i)
  <2>1. SUFFICES ASSUME out.start < i PROVE FALSE
    OBVIOUS
  <2>2. i - 1 \in out.start..(pos - 1) /\ i # 1
    BY <1>1, <1>2, <2>1
  <2> QED
    BY <1>1, <1>2, <2>2
<1>5. i = out.start
  BY <1>1, <1>2, <1>3, <1>4
<1>6. i + Len(w) - 1 = pos - 1 /\ pos > i
  BY <1>1, <1>2
<1> QED
  BY <1>1, <1>5, <1>6 DEF Count!Word

(* The word from start_idx to a blank is one.                              *)
LEMMA WordIsOne ==
    ASSUME Reading, WordBegun, Count!WordEnds, pos > out.start
    PROVE  /\ IsWord(Count!Word)
           /\ out.start \in Count!Occurrences(file, Count!Word)
           /\ out.start + Len(Count!Word) = pos
<1> DEFINE s == out.start
           w == SubSeq(file, s, pos - 1)
<1>1. /\ s \in Nat /\ s >= 1 /\ pos \in Nat /\ pos > s
      /\ pos <= Len(file) /\ file[pos] = Blank /\ Len(file) \in Nat
      /\ \A k \in s..(pos - 1) : file[k] # Blank
      /\ s = 1 \/ file[s - 1] = Blank
      /\ file \in Seq(Codes)
  BY DEF Reading, WordBegun, Count!WordEnds
<1>2. /\ w = Count!Word
  BY DEF Count!Word
<1> HIDE DEF s
<1>3. /\ w \in Seq(Codes) /\ Len(w) = pos - s
      /\ \A j \in 1..(pos - s) : w[j] = file[s + j - 1]
  <2>1. s \in 1..(Len(file) + 1) /\ pos - 1 \in 0..Len(file) /\ s <= pos - 1
        /\ (pos - 1) - s + 1 = pos - s
    BY <1>1
  <2> QED
    BY <1>1, <2>1, SubSeqProperties
<1> HIDE DEF w
<1>4. IsWord(w)
  <2>1. \A j \in 1..(pos - s) : s + j - 1 \in s..(pos - 1)
    BY <1>1
  <2>2. \A j \in 1..Len(w) : w[j] # Blank
    BY <1>1, <1>3, <2>1
  <2>3. Len(w) >= 1
    BY <1>1, <1>3
  <2> QED
    BY <1>3, <2>2, <2>3 DEF IsWord
<1>5. s + Len(w) = pos
  BY <1>1, <1>3
<1>6. s \in Count!Occurrences(file, w)
  <2>1. s \in DOMAIN file
    BY <1>1
  <2>2. SubSeq(file, s, pos - 1) = w
    BY DEF w
  <2> QED
    BY <1>1, <1>5, <2>1, <2>2 DEF Count!Occurrences
<1> QED
  BY <1>2, <1>4, <1>5, <1>6 DEF s

-----------------------------------------------------------------------------
(* Every step of the program keeps the invariant: a letter, a blank, a     *)
(* NUL.                                                                    *)
LEMMA WordStep == WordInv /\ [Count!Next]_<<file, pos, out>> => WordInv'
<1> SUFFICES ASSUME WordInv, [Count!Next]_<<file, pos, out>> PROVE WordInv'
  OBVIOUS
<1> USE DEF WordInv
<1>1. CASE Count!Letter
  <2>1. /\ out.at = "reading" /\ pos <= Len(file) /\ file[pos] # Blank
        /\ pos' = pos + 1 /\ file' = file /\ out' = out
    BY <1>1 DEF Count!Letter
  <2>2. Reading'
    BY <2>1 DEF Reading
  <2>3. WordBegun'
    <3>1. \A k \in out.start..pos : k = pos \/ k \in out.start..(pos - 1)
      BY DEF Reading
    <3> QED
      BY <2>1, <3>1 DEF WordBegun, Reading
  <2>4. ASSUME NEW w, IsWord(w) PROVE Behind(w, pos + 1) = Behind(w, pos)
    <3>1. ~ \E i \in Count!Occurrences(file, w) : i + Len(w) = pos
      BY <2>1, <2>4, OccurrenceIs DEF Reading
    <3> QED
      BY <2>4, <3>1, BehindGrows
  <2>5. MapCounts'
    BY <2>1, <2>4 DEF MapCounts, Behind
  <2> QED
    BY <2>2, <2>3, <2>5
<1>2. CASE Count!NoWord
  <2>1. /\ out.at = "reading" /\ pos <= Len(file) /\ file[pos] = Blank
        /\ pos = out.start /\ pos' = pos + 1 /\ file' = file
        /\ out' = [out EXCEPT !.start = pos + 1]
    BY <1>2 DEF Count!NoWord, Count!WordEnds
  <2>2. out'.start = pos + 1 /\ out'.map = out.map /\ out'.at = "reading"
        /\ out' = [start |-> out'.start, map |-> out'.map, at |-> out'.at]
    BY <2>1 DEF Reading
  <2>3. Reading'
    BY <2>1, <2>2 DEF Reading
  <2>4. WordBegun'
    BY <2>1, <2>2 DEF WordBegun, Reading
  <2>5. ASSUME NEW w, IsWord(w) PROVE Behind(w, pos + 1) = Behind(w, pos)
    <3>1. ~ \E i \in Count!Occurrences(file, w) : i + Len(w) = pos
      <4>1. ~ (pos > out.start)
        BY <2>1 DEF Reading
      <4> QED
        BY <2>1, <2>5, <4>1, EndsHere
    <3> QED
      BY <2>5, <3>1, BehindGrows
  <2>6. MapCounts'
    BY <2>1, <2>2, <2>5 DEF MapCounts, Behind
  <2> QED
    BY <2>3, <2>4, <2>6
<1>3. CASE Count!NextWord
  <2> DEFINE x == Count!Word
  <2>1. /\ out.at = "reading" /\ pos <= Len(file) /\ file[pos] = Blank
        /\ pos > out.start /\ pos' = pos + 1 /\ file' = file
        /\ out' = [out EXCEPT !.start = pos + 1, !.map = Count!Counted(@, x)]
        /\ Count!WordEnds
    BY <1>3 DEF Count!NextWord, Count!WordEnds
  <2>2. /\ IsWord(x) /\ out.start \in Count!Occurrences(file, x)
        /\ out.start + Len(x) = pos
    BY <2>1, WordIsOne
  <2> HIDE DEF x
  <2>3. /\ out'.start = pos + 1 /\ out'.map = Count!Counted(out.map, x)
        /\ out'.at = "reading"
        /\ out' = [start |-> out'.start, map |-> out'.map, at |-> out'.at]
    BY <2>1 DEF Reading
  <2>4. Reading'
    BY <2>1, <2>3 DEF Reading
  <2>5. WordBegun'
    BY <2>1, <2>3 DEF WordBegun, Reading
  <2>6. DOMAIN out'.map = DOMAIN out.map \cup {x}
    BY <2>3 DEF Count!Counted
  <2>7. ASSUME NEW w, IsWord(w), w # x
        PROVE  Cardinality(Behind(w, pos + 1)) = Times(out'.map, w)
    <3>1. ~ \E i \in Count!Occurrences(file, w) : i + Len(w) = pos
      BY <2>1, <2>7, EndsHere DEF x
    <3>2. Behind(w, pos + 1) = Behind(w, pos)
      BY <2>7, <3>1, BehindGrows
    <3>3. Cardinality(Behind(w, pos)) = Times(out.map, w)
      BY <2>1, <2>7 DEF MapCounts
    <3>4. Cardinality(Behind(w, pos)) \in Nat
      BY BehindIsFinite, FS_CardinalityType DEF Reading
    <3>5. Times(out'.map, w) = Times(out.map, w)
      <4>1. CASE w \in DOMAIN out.map
        <5>1. out'.map[w] = out.map[w] + 0
          BY <2>3, <2>7, <4>1 DEF Count!Counted
        <5>2. out.map[w] \in Nat
          BY <3>3, <3>4, <4>1 DEF Times
        <5> QED
          BY <2>6, <4>1, <5>1, <5>2 DEF Times
      <4>2. CASE w \notin DOMAIN out.map
        BY <2>6, <2>7, <4>2 DEF Times
      <4> QED
        BY <4>1, <4>2
    <3> QED
      BY <3>2, <3>3, <3>5
  <2>8. Cardinality(Behind(x, pos + 1)) = Times(out'.map, x)
    <3>1. {i \in Count!Occurrences(file, x) : i + Len(x) = pos} = {out.start}
      BY <2>1, <2>2, EndsHere
    <3>2. Behind(x, pos + 1) = Behind(x, pos) \cup {out.start}
      BY <2>2, <3>1, BehindGrows
    <3>3. out.start \notin Behind(x, pos)
      BY <2>2 DEF Behind, Reading
    <3>4. Cardinality(Behind(x, pos + 1)) = Cardinality(Behind(x, pos)) + 1
      BY <3>2, <3>3, BehindIsFinite, FS_AddElement DEF Reading
    <3>5. Cardinality(Behind(x, pos)) = Times(out.map, x)
      BY <2>1, <2>2 DEF MapCounts
    <3>6. out'.map[x] = Times(out.map, x) + 1
      BY <2>3 DEF Count!Counted, Times
    <3> QED
      BY <2>6, <3>4, <3>5, <3>6 DEF Times
  <2>9. MapCounts'
    <3>1. \A w \in DOMAIN out'.map : IsWord(w)
      BY <2>1, <2>2, <2>6 DEF MapCounts
    <3>2. \A w : IsWord(w) => Cardinality(Behind(w, pos + 1)) = Times(out'.map, w)
      BY <2>7, <2>8
    <3> QED
      BY <2>1, <3>1, <3>2 DEF MapCounts, Behind
  <2> QED
    BY <2>4, <2>5, <2>9
<1>4. CASE Count!NoMemory
  <2>1. /\ out' = [out EXCEPT !.map = <<>>, !.at = "failed"]
        /\ UNCHANGED <<file, pos>>
    BY <1>4 DEF Count!NoMemory
  <2>2. out'.at = "failed"
        /\ out' = [start |-> out'.start, map |-> out'.map, at |-> out'.at]
    BY <2>1 DEF Reading
  <2> QED
    BY <2>1, <2>2 DEF Reading
<1>5. CASE Count!Report
  <2>1. /\ out.at = "reading" /\ pos > Len(file)
        /\ out' = [out EXCEPT !.at = "printed"] /\ UNCHANGED <<file, pos>>
    BY <1>5 DEF Count!Report
  <2>2. /\ out'.at = "printed" /\ out'.map = out.map /\ out'.start = out.start
        /\ out' = [start |-> out'.start, map |-> out'.map, at |-> out'.at]
    BY <2>1 DEF Reading
  <2>3. Reading'
    BY <2>1, <2>2 DEF Reading
  <2>4. WordBegun' /\ MapCounts'
    BY <2>1, <2>2 DEF WordBegun, MapCounts, Behind
  <2> QED
    BY <2>3, <2>4
<1>6. CASE UNCHANGED <<file, pos, out>>
  BY <1>6 DEF Reading, WordBegun, MapCounts, Behind
<1> QED
  BY <1>1, <1>2, <1>3, <1>4, <1>5, <1>6 DEF Count!Next, Count!vars

(* It holds before the first byte.                                         *)
LEMMA WordsBegin == Count!Init => WordInv
<1> SUFFICES ASSUME Count!Init PROVE WordInv
  OBVIOUS
<1>1. /\ file \in Seq(Codes) /\ pos = 1
      /\ out = [start |-> 1, map |-> <<>>, at |-> "reading"]
  BY FilesAssumption DEF Count!Init
<1>2. Reading /\ WordBegun
  BY <1>1 DEF Reading, WordBegun
<1>3. ASSUME NEW w, IsWord(w) PROVE Cardinality(Behind(w, pos)) = Times(out.map, w)
  <2>1. Behind(w, pos) = {}
    <3>1. ASSUME NEW i \in Count!Occurrences(file, w) PROVE ~ (i + Len(w) < 1)
      BY <1>1, <1>3, OccurrenceIs
    <3> QED
      BY <1>1, <3>1 DEF Behind
  <2>2. DOMAIN out.map = {}
    BY <1>1
  <2> QED
    BY <2>1, <2>2, FS_EmptySet DEF Times
<1>4. MapCounts
  BY <1>1, <1>3 DEF MapCounts
<1> QED
  BY <1>2, <1>4 DEF WordInv

(* The instance's Cardinality is that of the library's theorems.           *)
LEMMA SameCardinality ==
    ASSUME NEW S PROVE Count!Cardinality(S) = Cardinality(S)
  BY DEF Count!Cardinality, Cardinality, Count!IsFiniteSet, IsFiniteSet

(* The map of a finished run.                                              *)
LEMMA WordsEnd == WordInv => Count!CountsExact
<1> SUFFICES ASSUME WordInv, out.at = "printed",
                    NEW w \in Count!Words(file) \cup DOMAIN out.map
             PROVE  Cardinality(Count!Occurrences(file, w)) =
                      IF w \in DOMAIN out.map THEN out.map[w] ELSE 0
  BY SameCardinality, Zenon DEF Count!CountsExact
<1>1. Reading /\ MapCounts /\ pos > Len(file)
  BY DEF WordInv, Reading
<1>2. IsWord(w)
  <2>1. CASE w \in Count!Words(file)
    <3>1. PICK i \in DOMAIN file, j \in DOMAIN file :
              /\ w = SubSeq(file, i, j) /\ i <= j
              /\ \A k \in i..j : file[k] # Blank
      BY <2>1 DEF Count!Words
    <3>2. /\ file \in Seq(Codes) /\ Len(file) \in Nat
          /\ i \in 1..(Len(file) + 1) /\ j \in 0..Len(file)
          /\ i \in Nat /\ j \in Nat
      BY <1>1 DEF Reading
    <3>3. /\ w \in Seq(Codes) /\ Len(w) = j - i + 1
          /\ \A k \in 1..(j - i + 1) : w[k] = file[i + k - 1]
      BY <3>1, <3>2, SubSeqProperties
    <3>4. \A k \in 1..(j - i + 1) : i + k - 1 \in i..j
      BY <3>2
    <3>5. Len(w) >= 1
      BY <3>1, <3>2, <3>3
    <3> QED
      BY <3>1, <3>3, <3>4, <3>5 DEF IsWord
  <2>2. CASE w \in DOMAIN out.map
    BY <1>1, <2>2 DEF MapCounts
  <2> QED
    BY <2>1, <2>2
<1>3. Behind(w, pos) = Count!Occurrences(file, w)
  <2>1. ASSUME NEW i \in Count!Occurrences(file, w) PROVE i + Len(w) < pos
    <3>1. i + Len(w) <= Len(file) /\ i \in Nat /\ Len(w) \in Nat
      BY <1>1, <1>2, OccurrenceIs DEF Reading
    <3> QED
      BY <1>1, <3>1 DEF Reading
  <2> QED
    BY <2>1 DEF Behind
<1> QED
  BY <1>1, <1>2, <1>3 DEF MapCounts, Times

(* Hw03: for every file of any bytes, what main has in its hash map when   *)
(* the file is read to its end counts each word as often as it stands in   *)
(* the file, and nothing else; a file that ends inside a word loses that   *)
(* word, as the property says.                                             *)
THEOREM WordsAreCounted == ProgramsSpec => []CountsExact
<1> DEFINE Run == program = "words" => WordInv
<1>1. ProgramsInit => Run
  BY WordsBegin DEF ProgramsInit
<1>2. Run /\ [ProgramsNext]_programVars => Run'
  <2> SUFFICES ASSUME Run, [ProgramsNext]_programVars, program' = "words"
               PROVE  WordInv'
    OBVIOUS
  <2>1. program = "words" /\ [Count!Next]_<<file, pos, out>>
    BY DEF ProgramsNext, FileNext, programVars
  <2> QED
    BY <2>1, WordStep
<1>3. Run => CountsExact
  BY WordsEnd DEF CountsExact
<1> QED
  BY <1>1, <1>2, <1>3, PTL DEF ProgramsSpec

-----------------------------------------------------------------------------
(* The encoding converter, for files of any bytes.                         *)
Symbol(e, c) == Text!converter[e][c]

Fits(e, c) == Symbol(e, c) < 4096

-----------------------------------------------------------------------------
(* The tables.                                                             *)
LEMMA TablesAre ==
    /\ Text!converter["cp1251"] = Text!cp_1252_symbols
    /\ Text!converter["iso-8859-5"] = Text!iso8859_5_symbols
    /\ Text!converter["koi8-r"] = Text!koi8_symbols
  BY DEF Text!converter, Text!Encodings

(* cp1251: the entries are numbers,                                        *)
LEMMA Cp1251IsNat == \A i \in 1..64 : Text!Cp1251From128[i] \in Nat
  BY DEF Text!Cp1251From128

(* none is a letter from U+0410 to U+044F, which the upper bytes stand     *)
(* for, none is below 160 but for the hole at 0x98,                        *)
LEMMA Cp1251Is ==
    \A i \in 1..64 : \/ i = 25 /\ Text!Cp1251From128[i] = 0
                     \/ Text!Cp1251From128[i] >= 160 /\ Text!Cp1251From128[i] < 1040
                     \/ Text!Cp1251From128[i] > 1103
  BY DEF Text!Cp1251From128

(* and none occurs twice.                                                  *)
LEMMA Cp1251Once ==
    \A i, j \in 1..64 : i # j => Text!Cp1251From128[i] # Text!Cp1251From128[j]
  BY DEF Text!Cp1251From128

(* koi8-r: the entries from 128 are numbers,                               *)
LEMMA Koi8IsNat == \A i \in 1..64 : Text!Koi8From128[i] \in Nat
  BY DEF Text!Koi8From128

(* none is ASCII or such a letter,                                         *)
LEMMA Koi8Is ==
    \A i \in 1..64 : \/ Text!Koi8From128[i] >= 160 /\ Text!Koi8From128[i] < 1040
                     \/ Text!Koi8From128[i] > 1103
  BY DEF Text!Koi8From128

(* and none occurs twice;                                                  *)
LEMMA Koi8Once ==
    \A i, j \in 1..64 : i # j => Text!Koi8From128[i] # Text!Koi8From128[j]
  BY DEF Text!Koi8From128

(* the order of the letters consists of numbers                            *)
LEMMA LettersAreNat == \A i \in 1..32 : Text!Koi8Letters[i] \in Nat
  BY DEF Text!Koi8Letters

(* below 32,                                                               *)
LEMMA LettersAre == \A i \in 1..32 : Text!Koi8Letters[i] < 32
  BY DEF Text!Koi8Letters

(* each of them once.                                                      *)
LEMMA LettersOnce ==
    \A i, j \in 1..32 : i # j => Text!Koi8Letters[i] # Text!Koi8Letters[j]
  BY DEF Text!Koi8Letters

(* What a byte stands for, piece by piece.                                 *)
LEMMA Cp1251Symbol ==
    ASSUME NEW c \in 0..255
    PROVE  /\ c < 128 => Symbol("cp1251", c) = c
           /\ c \in 128..191 =>
                c - 127 \in 1..64 /\ Symbol("cp1251", c) = Text!Cp1251From128[c - 127]
           /\ c > 191 => Symbol("cp1251", c) = (1040 + c) - 192
  BY TablesAre DEF Symbol, Text!cp_1252_symbols

(* iso-8859-5: the upper bytes are an alphabet with three exceptions.      *)
LEMMA IsoSymbol ==
    ASSUME NEW c \in 0..255
    PROVE  /\ c <= 160 \/ c = 173 => Symbol("iso-8859-5", c) = c
           /\ c = 240 => Symbol("iso-8859-5", c) = 8470
           /\ c = 253 => Symbol("iso-8859-5", c) = 167
           /\ c > 160 /\ c \notin {173, 240, 253} =>
                Symbol("iso-8859-5", c) = (1024 + c) - 160
<1>1. Symbol("iso-8859-5", c) =
        CASE c <= 160 \/ c = 173 -> c [] c = 240 -> 8470 [] c = 253 -> 167
          [] OTHER -> (1024 + c) - 160
  BY TablesAre DEF Symbol, Text!iso8859_5_symbols
<1>2. CASE c <= 160 \/ c = 173
  BY <1>1, <1>2
<1>3. CASE c = 240
  BY <1>1, <1>3
<1>4. CASE c = 253
  BY <1>1, <1>4
<1>5. CASE c > 160 /\ c \notin {173, 240, 253}
  BY <1>1, <1>5
<1> QED
  BY <1>2, <1>3, <1>4, <1>5

(* koi8-r: from 128 on what boxes are drawn with, then the small letters,  *)
(* then the capital ones.                                                  *)
LEMMA Koi8Symbol ==
    ASSUME NEW c \in 0..255
    PROVE  /\ c < 128 => Symbol("koi8-r", c) = c
           /\ c \in 128..191 =>
                c - 127 \in 1..64 /\ Symbol("koi8-r", c) = Text!Koi8From128[c - 127]
           /\ c \in 192..223 => /\ c - 191 \in 1..32
                                /\ Symbol("koi8-r", c) = 1072 + Text!Koi8Letters[c - 191]
           /\ c > 223 => /\ c - 223 \in 1..32
                         /\ Symbol("koi8-r", c) = 1040 + Text!Koi8Letters[c - 223]
  BY TablesAre DEF Symbol, Text!koi8_symbols

(* Every byte of every encoding stands for a number.                       *)
LEMMA SymbolIs ==
    ASSUME NEW e \in Text!Encodings, NEW c \in 0..255
    PROVE  Symbol(e, c) \in Nat
<1>1. CASE e = "cp1251"
  <2>1. CASE c < 128 \/ c > 191
    BY <1>1, <2>1, Cp1251Symbol
  <2>2. CASE c \in 128..191
    <3>1. PICK i \in 1..64 : i = c - 127 /\ Symbol(e, c) = Text!Cp1251From128[i]
      BY <1>1, <2>2, Cp1251Symbol
    <3> QED
      BY <3>1, Cp1251IsNat
  <2> QED
    BY <2>1, <2>2
<1>2. CASE e = "iso-8859-5"
  BY <1>2, IsoSymbol
<1>3. CASE e = "koi8-r"
  <2>1. CASE c < 128
    BY <1>3, <2>1, Koi8Symbol
  <2>2. CASE c \in 128..191
    <3>1. PICK i \in 1..64 : i = c - 127 /\ Symbol(e, c) = Text!Koi8From128[i]
      BY <1>3, <2>2, Koi8Symbol
    <3> QED
      BY <3>1, Koi8IsNat
  <2>3. CASE c > 191
    <3>1. \E i \in 1..32 : \/ Symbol(e, c) = 1072 + Text!Koi8Letters[i]
                           \/ Symbol(e, c) = 1040 + Text!Koi8Letters[i]
      BY <1>3, <2>3, Koi8Symbol
    <3> QED
      BY <3>1, LettersAreNat
  <2> QED
    BY <2>1, <2>2, <2>3
<1> QED
  BY <1>1, <1>2, <1>3 DEF Text!Encodings

(* No two bytes stand for the same symbol, but for 0x98 of cp1251.         *)
LEMMA Cp1251Differs ==
    ASSUME NEW c \in 0..255, NEW d \in 0..255, c < d,
           Symbol("cp1251", c) = Symbol("cp1251", d)
    PROVE  c = 0 /\ d = 152
<1> DEFINE S(b) == Symbol("cp1251", b)
<1>1. ASSUME NEW b \in 0..255
      PROVE  \/ b < 128 /\ S(b) = b
             \/ b > 191 /\ S(b) = b + 848
             \/ \E i \in 1..64 : i = b - 127 /\ S(b) = Text!Cp1251From128[i]
  BY Cp1251Symbol
<1>2. ASSUME NEW i \in 1..64
      PROVE  \E v \in Nat : /\ v = Text!Cp1251From128[i]
                            /\ \/ i = 25 /\ v = 0
                               \/ v >= 160 /\ v < 1040
                               \/ v > 1103
  <2>1. PICK v \in Nat : v = Text!Cp1251From128[i]
    BY Cp1251IsNat
  <2> QED
    BY <2>1, Cp1251Is
<1>3. \A i, j \in 1..64 : i # j => Text!Cp1251From128[i] # Text!Cp1251From128[j]
  BY Cp1251Once
<1>4. S(c) = S(d)
  OBVIOUS
<1> HIDE DEF S
<1>5. CASE (c < 128 /\ S(c) = c) \/ (c > 191 /\ S(c) = c + 848)
  <2>1. CASE (d < 128 /\ S(d) = d) \/ (d > 191 /\ S(d) = d + 848)
    BY <1>4, <1>5, <2>1
  <2>2. CASE \E i \in 1..64 : i = d - 127 /\ S(d) = Text!Cp1251From128[i]
    <3>1. PICK i \in 1..64 : i = d - 127 /\ S(d) = Text!Cp1251From128[i]
      BY <2>2
    <3>2. PICK v \in Nat : /\ v = Text!Cp1251From128[i]
                           /\ \/ i = 25 /\ v = 0
                              \/ v >= 160 /\ v < 1040
                              \/ v > 1103
      BY <1>2
    <3>3. S(c) = v
      BY <1>4, <3>1, <3>2
    <3> QED
      BY <1>5, <3>1, <3>2, <3>3
  <2> QED
    BY <1>1, <2>1, <2>2
<1>6. CASE \E i \in 1..64 : i = c - 127 /\ S(c) = Text!Cp1251From128[i]
  <2>1. PICK i \in 1..64 : i = c - 127 /\ S(c) = Text!Cp1251From128[i]
    BY <1>6
  <2>2. CASE (d < 128 /\ S(d) = d) \/ (d > 191 /\ S(d) = d + 848)
    <3>1. PICK v \in Nat : /\ v = Text!Cp1251From128[i]
                           /\ \/ i = 25 /\ v = 0
                              \/ v >= 160 /\ v < 1040
                              \/ v > 1103
      BY <1>2
    <3>2. S(d) = v
      BY <1>4, <2>1, <3>1
    <3> QED
      BY <2>1, <2>2, <3>1, <3>2
  <2>3. CASE \E j \in 1..64 : j = d - 127 /\ S(d) = Text!Cp1251From128[j]
    <3>1. PICK j \in 1..64 : j = d - 127 /\ S(d) = Text!Cp1251From128[j]
      BY <2>3
    <3>2. i # j
      BY <2>1, <3>1
    <3> QED
      BY <1>3, <1>4, <2>1, <3>1, <3>2
  <2> QED
    BY <1>1, <2>2, <2>3
<1> QED
  BY <1>1, <1>5, <1>6

(* In koi8-r the four parts of the table do not overlap.                   *)
LEMMA Koi8Differs ==
    ASSUME NEW c \in 0..255, NEW d \in 0..255, c < d
    PROVE  Symbol("koi8-r", c) # Symbol("koi8-r", d)
<1> DEFINE S(b) == Symbol("koi8-r", b)
<1>1. ASSUME NEW b \in 0..255
      PROVE  \/ b < 128 /\ S(b) = b
             \/ \E i \in 1..64 : i = b - 127 /\ S(b) = Text!Koi8From128[i]
             \/ \E i \in 1..32 : i = b - 191 /\ S(b) = 1072 + Text!Koi8Letters[i]
             \/ \E i \in 1..32 : i = b - 223 /\ S(b) = 1040 + Text!Koi8Letters[i]
  BY Koi8Symbol
<1>2. ASSUME NEW i \in 1..64
      PROVE  \E v \in Nat : /\ v = Text!Koi8From128[i]
                            /\ (v >= 160 /\ v < 1040) \/ v > 1103
  <2>1. PICK v \in Nat : v = Text!Koi8From128[i]
    BY Koi8IsNat
  <2> QED
    BY <2>1, Koi8Is
<1>3. \A i, j \in 1..64 : i # j => Text!Koi8From128[i] # Text!Koi8From128[j]
  BY Koi8Once
<1>4. ASSUME NEW i \in 1..32
      PROVE  \E v \in 0..31 : v = Text!Koi8Letters[i]
  <2>1. PICK v \in Nat : v = Text!Koi8Letters[i]
    BY LettersAreNat
  <2>2. v < 32
    BY <2>1, LettersAre
  <2> QED
    BY <2>1, <2>2
<1>5. \A i, j \in 1..32 : i # j => Text!Koi8Letters[i] # Text!Koi8Letters[j]
  BY LettersOnce
<1> HIDE DEF S
<1> DEFINE Low(b) == b < 128 /\ S(b) = b
           Mid(b) == \E i \in 1..64 : i = b - 127 /\ S(b) = Text!Koi8From128[i]
           Small(b) == \E i \in 1..32 : i = b - 191 /\ S(b) = 1072 + Text!Koi8Letters[i]
           Great(b) == \E i \in 1..32 : i = b - 223 /\ S(b) = 1040 + Text!Koi8Letters[i]
<1>6. ASSUME NEW b \in 0..255
      PROVE  /\ Low(b) => S(b) \in Nat /\ S(b) < 128
             /\ Mid(b) => S(b) \in Nat /\ ((S(b) >= 160 /\ S(b) < 1040) \/ S(b) > 1103)
             /\ Small(b) => S(b) \in Nat /\ S(b) >= 1072 /\ S(b) <= 1103
             /\ Great(b) => S(b) \in Nat /\ S(b) >= 1040 /\ S(b) < 1072
  <2>1. Low(b) => S(b) \in Nat /\ S(b) < 128
    OBVIOUS
  <2>2. Mid(b) => S(b) \in Nat /\ ((S(b) >= 160 /\ S(b) < 1040) \/ S(b) > 1103)
    BY <1>2
  <2>3. Small(b) => S(b) \in Nat /\ S(b) >= 1072 /\ S(b) <= 1103
    <3>1. SUFFICES ASSUME NEW i \in 1..32, S(b) = 1072 + Text!Koi8Letters[i]
                   PROVE  S(b) \in Nat /\ S(b) >= 1072 /\ S(b) <= 1103
      OBVIOUS
    <3>2. PICK v \in 0..31 : v = Text!Koi8Letters[i]
      BY <1>4
    <3> QED
      BY <3>1, <3>2
  <2>4. Great(b) => S(b) \in Nat /\ S(b) >= 1040 /\ S(b) < 1072
    <3>1. SUFFICES ASSUME NEW i \in 1..32, S(b) = 1040 + Text!Koi8Letters[i]
                   PROVE  S(b) \in Nat /\ S(b) >= 1040 /\ S(b) < 1072
      OBVIOUS
    <3>2. PICK v \in 0..31 : v = Text!Koi8Letters[i]
      BY <1>4
    <3> QED
      BY <3>1, <3>2
  <2> QED
    BY <2>1, <2>2, <2>3, <2>4
<1>7. CASE S(c) # S(d)
  BY <1>7 DEF S
<1>8. CASE S(c) = S(d)
  <2>0. PICK t : S(c) = t /\ S(d) = t
    BY <1>8
  <2>1. ~ (Low(c) /\ Low(d))
    BY <1>8
  <2>2. ~ (Mid(c) /\ Mid(d))
    <3>1. SUFFICES ASSUME NEW i \in 1..64, i = c - 127, S(c) = Text!Koi8From128[i],
                          NEW j \in 1..64, j = d - 127, S(d) = Text!Koi8From128[j]
                   PROVE  FALSE
      OBVIOUS
    <3>2. i # j
      BY <3>1
    <3> QED
      BY <1>3, <1>8, <3>1, <3>2
  <2>3. ~ (Small(c) /\ Small(d))
    <3>1. SUFFICES ASSUME NEW i \in 1..32, i = c - 191,
                          S(c) = 1072 + Text!Koi8Letters[i],
                          NEW j \in 1..32, j = d - 191,
                          S(d) = 1072 + Text!Koi8Letters[j]
                   PROVE  FALSE
      OBVIOUS
    <3>2. i # j
      BY <3>1
    <3>3. PICK v \in 0..31 : v = Text!Koi8Letters[i]
      BY <1>4
    <3>4. PICK u \in 0..31 : u = Text!Koi8Letters[j]
      BY <1>4
    <3>5. S(c) = 1072 + v /\ S(d) = 1072 + u
      BY <3>1, <3>3, <3>4
    <3>6. u \in Nat /\ v \in Nat
      BY <3>3, <3>4
    <3>7. t = 1072 + v /\ t = 1072 + u
      BY <2>0, <3>5
    <3>8. u = v
      BY <3>6, <3>7
    <3> QED
      BY <1>5, <3>2, <3>3, <3>4, <3>8
  <2>4. ~ (Great(c) /\ Great(d))
    <3>1. SUFFICES ASSUME NEW i \in 1..32, i = c - 223,
                          S(c) = 1040 + Text!Koi8Letters[i],
                          NEW j \in 1..32, j = d - 223,
                          S(d) = 1040 + Text!Koi8Letters[j]
                   PROVE  FALSE
      OBVIOUS
    <3>2. i # j
      BY <3>1
    <3>3. PICK v \in 0..31 : v = Text!Koi8Letters[i]
      BY <1>4
    <3>4. PICK u \in 0..31 : u = Text!Koi8Letters[j]
      BY <1>4
    <3>5. S(c) = 1040 + v /\ S(d) = 1040 + u
      BY <3>1, <3>3, <3>4
    <3>6. u \in Nat /\ v \in Nat
      BY <3>3, <3>4
    <3>7. t = 1040 + v /\ t = 1040 + u
      BY <2>0, <3>5
    <3>8. u = v
      BY <3>6, <3>7
    <3> QED
      BY <1>5, <3>2, <3>3, <3>4, <3>8
  <2>5. (Low(c) \/ Mid(c) \/ Small(c) \/ Great(c))
        /\ (Low(d) \/ Mid(d) \/ Small(d) \/ Great(d))
    BY <1>1
  <2>6. /\ Low(c) => S(c) \in Nat /\ S(c) < 128
        /\ Mid(c) => S(c) \in Nat /\ ((S(c) >= 160 /\ S(c) < 1040) \/ S(c) > 1103)
        /\ Small(c) => S(c) \in Nat /\ S(c) >= 1072 /\ S(c) <= 1103
        /\ Great(c) => S(c) \in Nat /\ S(c) >= 1040 /\ S(c) < 1072
    BY <1>6
  <2>7. /\ Low(d) => S(d) \in Nat /\ S(d) < 128
        /\ Mid(d) => S(d) \in Nat /\ ((S(d) >= 160 /\ S(d) < 1040) \/ S(d) > 1103)
        /\ Small(d) => S(d) \in Nat /\ S(d) >= 1072 /\ S(d) <= 1103
        /\ Great(d) => S(d) \in Nat /\ S(d) >= 1040 /\ S(d) < 1072
    BY <1>6
  <2> HIDE DEF Low, Mid, Small, Great
  <2> QED
    BY <1>8, <2>1, <2>2, <2>3, <2>4, <2>5, <2>6, <2>7
<1> QED
  BY <1>7, <1>8

(* In iso-8859-5 the exceptions are no letters of the alphabet.            *)
LEMMA IsoDiffers ==
    ASSUME NEW c \in 0..255, NEW d \in 0..255, c < d
    PROVE  Symbol("iso-8859-5", c) # Symbol("iso-8859-5", d)
<1>1. \A b \in 0..255 : \E v \in Nat :
        /\ v = Symbol("iso-8859-5", b)
        /\ \/ (b <= 160 \/ b = 173) /\ v = b
           \/ b = 240 /\ v = 8470
           \/ b = 253 /\ v = 167
           \/ b > 160 /\ b \notin {173, 240, 253} /\ v = (1024 + b) - 160
  BY IsoSymbol
<1>2. PICK v \in Nat :
        /\ v = Symbol("iso-8859-5", c)
        /\ \/ (c <= 160 \/ c = 173) /\ v = c
           \/ c = 240 /\ v = 8470
           \/ c = 253 /\ v = 167
           \/ c > 160 /\ c \notin {173, 240, 253} /\ v = (1024 + c) - 160
  BY <1>1
<1>3. PICK w \in Nat :
        /\ w = Symbol("iso-8859-5", d)
        /\ \/ (d <= 160 \/ d = 173) /\ w = d
           \/ d = 240 /\ w = 8470
           \/ d = 253 /\ w = 167
           \/ d > 160 /\ d \notin {173, 240, 253} /\ w = (1024 + d) - 160
  BY <1>1
<1>4. v # w
  BY <1>2, <1>3
<1>5. v = Symbol("iso-8859-5", c) /\ w = Symbol("iso-8859-5", d)
  BY <1>2, <1>3
<1> QED
  BY <1>4, <1>5

(* In each of the encodings two bytes stand for two symbols, but for 0x98  *)
(* of cp1251, which is a 0 in the table as is the NUL.                     *)
LEMMA SymbolsDiffer ==
    ASSUME NEW e \in Text!Encodings, NEW c \in 0..255, NEW d \in 0..255,
           c < d, NEW s, Symbol(e, c) = s, Symbol(e, d) = s
    PROVE  e = "cp1251" /\ c = 0 /\ d = 152
<1>1. CASE e = "cp1251"
  BY <1>1, Cp1251Differs
<1>2. CASE e = "iso-8859-5"
  BY <1>2, IsoDiffers
<1>3. CASE e = "koi8-r"
  BY <1>3, Koi8Differs
<1> QED
  BY <1>1, <1>2, <1>3 DEF Text!Encodings

-----------------------------------------------------------------------------
(* A symbol of up to 12 bits is written as in UTF-8.                       *)
(* The powers by which Written takes a number apart.                       *)
LEMMA Powers == 256 ^ 0 = 1 /\ 256 ^ 1 = 256 /\ 256 ^ 2 = 65536 /\ 256 ^ 3 = 16777216
  OBVIOUS

(* A number of up to 16 bits is written in one byte or in two.             *)
LEMMA WrittenIs ==
    ASSUME NEW high \in 0..255, NEW low \in 0..255
    PROVE  Text!Written(high * 256 + low) =
             IF high = 0 THEN <<low>> ELSE <<high, low>>
<1> DEFINE n == high * 256 + low
<1>1. n \in Nat /\ n < 65536
  OBVIOUS
<1>2. n \div 16777216 = 0 /\ n \div 65536 = 0 /\ n \div 256 = high
      /\ n \div 1 = n /\ n % 256 = low
  OBVIOUS
<1> HIDE DEF n
<1>3. /\ (n \div 256 ^ 3) % 256 = 0 /\ (n \div 256 ^ 2) % 256 = 0
      /\ (n \div 256 ^ 1) % 256 = high /\ (n \div 256 ^ 0) % 256 = low
  BY <1>2, Powers
<1>4. Text!Written(n) =
        ((<<>> \o <<>>) \o (IF high # 0 THEN <<high>> ELSE <<>>)) \o <<low>>
  <2> DEFINE byte(j) == (n \div 256 ^ j) % 256
             put(j) == IF byte(j) # 0 \/ j = 0 THEN <<byte(j)>> ELSE <<>>
  <2>1. Text!Written(n) = put(3) \o put(2) \o put(1) \o put(0)
    BY DEF Text!Written
  <2>2. byte(3) = 0 /\ byte(2) = 0 /\ byte(1) = high /\ byte(0) = low
    BY <1>3
  <2> HIDE DEF byte
  <2>3. /\ put(3) = <<>> /\ put(2) = <<>> /\ put(0) = <<low>>
        /\ put(1) = IF high # 0 THEN <<high>> ELSE <<>>
    BY <2>2
  <2> HIDE DEF put
  <2> QED
    BY <2>1, <2>3
<1>5. /\ <<>> \o <<>> = <<>> /\ <<>> \o <<high>> = <<high>>
      /\ <<>> \o <<low>> = <<low>>
  <2>1. \A q \in Seq(0..255) : <<>> \o q = q
    BY ConcatEmptySeq
  <2>2. <<>> \in Seq(0..255) /\ <<high>> \in Seq(0..255) /\ <<low>> \in Seq(0..255)
    OBVIOUS
  <2> QED
    BY <2>1, <2>2
<1>6. <<high>> \o <<low>> = <<high, low>>
  <2>1. <<high>> \in Seq(0..255) /\ <<low>> \in Seq(0..255)
        /\ <<high, low>> \in Seq(0..255)
    OBVIOUS
  <2>2. /\ Len(<<high>>) = 1 /\ Len(<<low>>) = 1 /\ Len(<<high, low>>) = 2
        /\ <<high>>[1] = high /\ <<low>>[1] = low
        /\ <<high, low>>[1] = high /\ <<high, low>>[2] = low
    OBVIOUS
  <2> DEFINE p == <<high>>
             q == <<low>>
             r == <<high, low>>
  <2>3. p \in Seq(0..255) /\ q \in Seq(0..255) /\ r \in Seq(0..255)
        /\ Len(p) = 1 /\ Len(q) = 1 /\ Len(r) = 2
        /\ p[1] = high /\ q[1] = low /\ r[1] = high /\ r[2] = low
    BY <2>1, <2>2
  <2> HIDE DEF p, q, r
  <2>4. /\ p \o q \in Seq(0..255) /\ Len(p \o q) = 2
        /\ (p \o q)[1] = high /\ (p \o q)[2] = low
    BY <2>3, ConcatProperties
  <2>5. p \o q = r
    BY <2>3, <2>4, SeqEqual
  <2> QED
    BY <2>5 DEF p, q, r
<1>7. Text!Written(n) = IF high = 0 THEN <<low>> ELSE <<high, low>>
  <2>1. CASE high = 0
    BY <1>4, <1>5, <2>1
  <2>2. CASE high # 0
    BY <1>4, <1>5, <1>6, <2>2
  <2> QED
    BY <2>1, <2>2
<1> QED
  BY <1>7 DEF n

(* One byte is written as it is.                                           *)
LEMMA WrittenOne ==
    ASSUME NEW s \in 0..255
    PROVE  Text!Written(s) = <<s>>
<1>1. \A high, low \in 0..255 :
        Text!Written(high * 256 + low) = IF high = 0 THEN <<low>> ELSE <<high, low>>
  BY WrittenIs
<1>2. PICK z \in 0..255 : z = 0
  OBVIOUS
<1>3. Text!Written(z * 256 + s) = IF z = 0 THEN <<s>> ELSE <<z, s>>
  BY <1>1, Zenon
<1>4. z * 256 + s = s
  BY <1>2
<1> QED
  BY <1>2, <1>3, <1>4, Zenon

(* What a byte is converted to: UTF-8 of its symbol, or nothing.           *)
LEMMA ConvertedIs ==
    ASSUME NEW e \in Text!Encodings, NEW c \in 0..255
    PROVE  Text!Converted(e, c) = IF Fits(e, c) THEN Text!Utf8(Symbol(e, c)) ELSE <<>>
<1> DEFINE s == Symbol(e, c)
<1>1. s \in Nat
  BY SymbolIs
<1>2. Text!Converted(e, c) = LET utf == Text!unicode_to_utf8(s)
                             IN  IF utf = -1 THEN <<>> ELSE Text!Written(utf)
  BY DEF Text!Converted, Symbol
<1> HIDE DEF s
<1>3. CASE s < 128
  <2>1. s = 0 * 256 + s /\ s \in 0..255 /\ 0 \in 0..255 /\ s # -1 /\ s < 4096
    BY <1>1, <1>3
  <2>4. Text!Written(s) = <<s>>
    BY <2>1, WrittenOne
  <2> QED
    BY <1>2, <1>3, <2>1, <2>4 DEF Text!unicode_to_utf8, Text!Utf8, Fits, s
<1>4. CASE 128 <= s /\ s < 4096
  <2> DEFINE h == 192 + s \div 64
             l == 128 + (s % 64)
  <2>1. h \in 0..255 /\ l \in 0..255 /\ h # 0 /\ ~ (s < 128)
    BY <1>1, <1>4
  <2>2. 49152 + (s \div 64) * 256 + 128 + (s % 64) = h * 256 + l
    <3>1. PICK a \in Nat : a = s \div 64
      BY <1>1
    <3>2. PICK b \in Nat : b = s % 64
      BY <1>1
    <3>3. 49152 + a * 256 + 128 + b = (192 + a) * 256 + (128 + b)
      OBVIOUS
    <3> QED
      BY <3>1, <3>2, <3>3
  <2>3. Text!unicode_to_utf8(s) = h * 256 + l
    BY <1>4, <2>1, <2>2 DEF Text!unicode_to_utf8
  <2>4. Text!Utf8(s) = <<h, l>>
    BY <2>1 DEF Text!Utf8
  <2> HIDE DEF h, l
  <2>5. h * 256 + l # -1
    BY <2>1
  <2>6. Text!Written(h * 256 + l) = <<h, l>>
    BY <2>1, WrittenIs
  <2> QED
    BY <1>2, <1>4, <2>3, <2>4, <2>5, <2>6 DEF Fits, s
<1>5. CASE ~ (s < 4096)
  <2>1. Text!unicode_to_utf8(s) = -1
    BY <1>1, <1>5 DEF Text!unicode_to_utf8
  <2> QED
    BY <1>2, <1>5, <2>1 DEF Fits, s
<1> QED
  BY <1>1, <1>3, <1>4, <1>5

(* UTF-8 keeps the symbols apart.                                          *)
LEMMA Utf8Differs ==
    ASSUME NEW s \in Nat, NEW t \in Nat, s < 4096, t < 4096,
           Text!Utf8(s) = Text!Utf8(t)
    PROVE  s = t
<1>1. CASE s < 128 /\ t < 128
  <2>1. <<s>> = <<t>>
    BY <1>1 DEF Text!Utf8
  <2> QED
    BY <2>1
<1>2. CASE ~ (s < 128) /\ ~ (t < 128)
  <2>1. <<192 + s \div 64, 128 + (s % 64)>> = <<192 + t \div 64, 128 + (t % 64)>>
    BY <1>2 DEF Text!Utf8
  <2>2. 192 + s \div 64 = 192 + t \div 64 /\ 128 + (s % 64) = 128 + (t % 64)
    BY <2>1
  <2> QED
    BY <2>2
<1>3. CASE s < 128 /\ ~ (t < 128)
  <2>1. <<s>> = <<192 + t \div 64, 128 + (t % 64)>>
    BY <1>3 DEF Text!Utf8
  <2>2. Len(<<s>>) = 1 /\ Len(<<192 + t \div 64, 128 + (t % 64)>>) = 2
    OBVIOUS
  <2> QED
    BY <2>1, <2>2
<1>4. CASE ~ (s < 128) /\ t < 128
  <2>1. <<t>> = <<192 + s \div 64, 128 + (s % 64)>>
    BY <1>4 DEF Text!Utf8
  <2>2. Len(<<t>>) = 1 /\ Len(<<192 + s \div 64, 128 + (s % 64)>>) = 2
    OBVIOUS
  <2> QED
    BY <2>1, <2>2
<1> QED
  BY <1>1, <1>2, <1>3, <1>4

(* What a converted byte is.                                               *)
LEMMA ConvertedIsSeq ==
    ASSUME NEW e \in Text!Encodings, NEW c \in 0..255
    PROVE  Text!Converted(e, c) \in Seq(0..255)
<1> DEFINE s == Symbol(e, c)
<1>1. s \in Nat
  BY SymbolIs
<1>2. Text!Converted(e, c) = IF s < 4096 THEN Text!Utf8(s) ELSE <<>>
  <2>1. Text!Converted(e, c) = IF Fits(e, c) THEN Text!Utf8(Symbol(e, c)) ELSE <<>>
    BY ConvertedIs
  <2> QED
    BY <2>1 DEF Fits
<1> HIDE DEF s
<1>3. CASE s < 128
  <2>1. s \in 0..255 /\ s < 4096
    BY <1>1, <1>3
  <2> QED
    BY <1>2, <1>3, <2>1 DEF Text!Utf8
<1>4. CASE ~ (s < 128) /\ s < 4096
  <2>1. 192 + s \div 64 \in 0..255 /\ 128 + (s % 64) \in 0..255
    BY <1>1, <1>4
  <2> QED
    BY <1>2, <1>4, <2>1 DEF Text!Utf8
<1>5. CASE ~ (s < 4096)
  BY <1>2, <1>5
<1> QED
  BY <1>1, <1>3, <1>4, <1>5

-----------------------------------------------------------------------------
(* FlattenSeq, whose recursion is followed step by step along a run.       *)
IsFlat(f, S) ==
    f = [i \in 1..Len(S) |-> IF i = 1 THEN S[i] ELSE f[i - 1] \o S[i]]

Joined(S, o) ==
    IF Len(S) = 0 THEN S = o
    ELSE (\E f : IsFlat(f, S)) /\ \A f : IsFlat(f, S) => f[Len(S)] = o

(* What is known of every function that meets the recursion holds of the   *)
(* one FlattenSeq takes.                                                   *)
LEMMA FlattenIs ==
    ASSUME NEW S, NEW o, Joined(S, o)
    PROVE  Text!FlattenSeq(S) = o
<1>1. CASE Len(S) = 0
  BY <1>1 DEF Joined, Text!FlattenSeq
<1>2. CASE Len(S) # 0
  <2>1. Text!FlattenSeq(S) = (CHOOSE f : IsFlat(f, S))[Len(S)]
    BY <1>2 DEF Text!FlattenSeq, IsFlat
  <2>2. IsFlat(CHOOSE f : IsFlat(f, S), S)
    BY <1>2 DEF Joined
  <2> QED
    BY <1>2, <2>1, <2>2 DEF Joined
<1> QED
  BY <1>1, <1>2

(* A sequence longer by one part is joined to an output longer by that     *)
(* part.                                                                   *)
LEMMA JoinedGrows ==
    ASSUME NEW S \in Seq(Seq(0..255)), NEW T \in Seq(Seq(0..255)), NEW o,
           Len(T) = Len(S) + 1, \A i \in 1..Len(S) : T[i] = S[i],
           Joined(S, o)
    PROVE  Joined(T, o \o T[Len(T)])
<1>1. Len(S) \in Nat /\ Len(T) \in Nat /\ Len(T) # 0
  BY LenProperties
<1>2. PICK n \in Nat : n = Len(S) /\ n + 1 = Len(T)
  BY <1>1
<1>3. CASE n = 0
  <2>1. o = <<>> /\ o \o T[1] = T[1]
    <3>1. S = o /\ S = <<>>
      BY <1>2, <1>3, EmptySeq DEF Joined
    <3>2. 1 \in 1..Len(T)
      BY <1>2, <1>3
    <3>3. T[1] \in Seq(0..255)
      BY <3>2, ElementOfSeq
    <3> QED
      BY <3>1, <3>3, ConcatEmptySeq
  <2>2. Len(T) = 1
    BY <1>2, <1>3
  <2>3. IsFlat([i \in 1..1 |-> T[1]], T)
    <3> DEFINE f == [i \in 1..1 |-> T[1]]
    <3>1. \A i \in 1..1 : (IF i = 1 THEN T[i] ELSE f[i - 1] \o T[i]) = T[1]
      OBVIOUS
    <3> HIDE DEF f
    <3>2. f = [i \in 1..1 |-> IF i = 1 THEN T[i] ELSE f[i - 1] \o T[i]]
      BY <3>1 DEF f
    <3> QED
      BY <2>2, <3>2 DEF IsFlat, f
  <2>4. ASSUME NEW f, IsFlat(f, T)
        PROVE  f[1] = T[1]
    BY <2>2, <2>4 DEF IsFlat
  <2> QED
    BY <2>1, <2>2, <2>3, <2>4 DEF Joined
<1>4. CASE n # 0
  <2>1. PICK g : IsFlat(g, S)
    BY <1>2, <1>4 DEF Joined
  <2>2. \A f : IsFlat(f, S) => f[n] = o
    BY <1>2, <1>4 DEF Joined
  <2>3. n \in 1..n /\ n + 1 \in 1..(n + 1) /\ (n + 1) - 1 = n /\ n + 1 # 1
    BY <1>4
  <2>4. \E f : IsFlat(f, T)
    <3> DEFINE f == [i \in 1..(n + 1) |-> IF i = n + 1 THEN g[n] \o T[n + 1] ELSE g[i]]
    <3>1. ASSUME NEW i \in 1..(n + 1)
          PROVE  f[i] = IF i = 1 THEN T[i] ELSE f[i - 1] \o T[i]
      <4>1. CASE i = n + 1
        <5>1. f[n + 1] = g[n] \o T[n + 1]
          BY <2>3
        <5>2. n \in 1..(n + 1) /\ n # n + 1
          BY <2>3
        <5>3. f[n] = g[n]
          BY <5>2
        <5> HIDE DEF f
        <5> QED
          BY <2>3, <4>1, <5>1, <5>3
      <4>2. CASE i # n + 1
        <5>1. i \in 1..n /\ (i # 1 => i - 1 \in 1..(n + 1) /\ i - 1 # n + 1)
          BY <4>2
        <5>2. f[i] = g[i] /\ (i # 1 => f[i - 1] = g[i - 1]) /\ T[i] = S[i]
          BY <1>2, <4>2, <5>1
        <5>3. g[i] = IF i = 1 THEN S[i] ELSE g[i - 1] \o S[i]
          BY <1>2, <2>1, <5>1 DEF IsFlat
        <5> QED
          BY <5>2, <5>3
      <4> QED
        BY <4>1, <4>2
    <3>2. DOMAIN f = 1..(n + 1) /\ f = [i \in 1..(n + 1) |-> f[i]]
      OBVIOUS
    <3> HIDE DEF f
    <3>3. f = [i \in 1..(n + 1) |-> IF i = 1 THEN T[i] ELSE f[i - 1] \o T[i]]
      BY <3>1, <3>2
    <3> QED
      BY <1>2, <3>3 DEF IsFlat
  <2>5. ASSUME NEW h, IsFlat(h, T)
        PROVE  h[n + 1] = o \o T[n + 1]
    <3>1. \A i \in 1..(n + 1) : h[i] = IF i = 1 THEN T[i] ELSE h[i - 1] \o T[i]
      BY <1>2, <2>5 DEF IsFlat
    <3> DEFINE f == [i \in 1..n |-> h[i]]
    <3>2. ASSUME NEW i \in 1..n
          PROVE  f[i] = IF i = 1 THEN S[i] ELSE f[i - 1] \o S[i]
      <4>1. i \in 1..(n + 1) /\ (i # 1 => i - 1 \in 1..n)
        OBVIOUS
      <4>2. f[i] = h[i] /\ (i # 1 => f[i - 1] = h[i - 1]) /\ T[i] = S[i]
        BY <1>2, <4>1
      <4> QED
        BY <3>1, <4>1, <4>2
    <3>3. f = [i \in 1..n |-> f[i]]
      OBVIOUS
    <3>4. f[n] = h[n]
      BY <2>3
    <3> HIDE DEF f
    <3>5. f = [i \in 1..n |-> IF i = 1 THEN S[i] ELSE f[i - 1] \o S[i]]
      BY <3>2, <3>3
    <3>6. IsFlat(f, S)
      BY <1>2, <3>5 DEF IsFlat
    <3>7. h[n] = o
      BY <2>2, <3>4, <3>6
    <3> QED
      BY <2>3, <3>1, <3>7
  <2> QED
    BY <1>1, <1>2, <2>4, <2>5 DEF Joined
<1> QED
  BY <1>3, <1>4

-----------------------------------------------------------------------------
(* The run of the converter.                                               *)

Parts(s, n) ==
    [k \in 1..n |-> IF Symbol(s.encoding, s.bytes[k]) < 4096
                    THEN Text!Utf8(Symbol(s.encoding, s.bytes[k])) ELSE <<>>]

TextInv ==
    /\ file \in [encoding : Text!Encodings, bytes : Seq(0..255)]
    /\ pos \in 1..(Len(file.bytes) + 1)
    /\ Joined(Parts(file, pos - 1), out)

(* A part is what Converted gives.                                         *)
LEMMA PartsAre ==
    ASSUME NEW s \in [encoding : Text!Encodings, bytes : Seq(0..255)],
           NEW n \in Nat, n <= Len(s.bytes)
    PROVE  /\ Parts(s, n) \in Seq(Seq(0..255)) /\ Len(Parts(s, n)) = n
           /\ \A k \in 1..n : Parts(s, n)[k] = Text!Converted(s.encoding, s.bytes[k])
<1>1. s.encoding \in Text!Encodings /\ s.bytes \in Seq(0..255)
      /\ Len(s.bytes) \in Nat
  BY LenProperties
<1>2. ASSUME NEW k \in 1..n
      PROVE  /\ Parts(s, n)[k] = Text!Converted(s.encoding, s.bytes[k])
             /\ Parts(s, n)[k] \in Seq(0..255)
  <2>1. k \in 1..Len(s.bytes)
    BY <1>1
  <2>2. s.bytes[k] \in 0..255
    BY <1>1, <2>1, ElementOfSeq
  <2>3. Parts(s, n)[k] = Text!Converted(s.encoding, s.bytes[k])
    <3>1. PICK e \in Text!Encodings : e = s.encoding
      BY <1>1
    <3>2. PICK c \in 0..255 : c = s.bytes[k]
      BY <2>2
    <3>3. Text!Converted(e, c) = IF Fits(e, c) THEN Text!Utf8(Symbol(e, c)) ELSE <<>>
      BY ConvertedIs
    <3>4. Parts(s, n)[k] = IF Symbol(e, c) < 4096 THEN Text!Utf8(Symbol(e, c)) ELSE <<>>
      BY <3>1, <3>2 DEF Parts
    <3> QED
      BY <3>1, <3>2, <3>3, <3>4 DEF Fits
  <2> QED
    BY <1>1, <2>2, <2>3, ConvertedIsSeq
<1>3. Parts(s, n) = [k \in 1..n |-> Parts(s, n)[k]]
  BY DEF Parts
<1>4. Parts(s, n) \in [1..n -> Seq(0..255)]
  BY <1>2, <1>3
<1> QED
  BY <1>2, <1>4

(* From a byte to the next.                                                *)
LEMMA TextInvNext ==
    ASSUME TextInv, [Text!Next]_<<file, pos, out>>
    PROVE  TextInv'
<1>1. CASE Text!Convert
  <2>1. PICK s \in [encoding : Text!Encodings, bytes : Seq(0..255)] :
            s = file /\ s = file'
    BY <1>1 DEF TextInv, Text!Convert
  <2>2. PICK n \in Nat : n = pos - 1 /\ n + 1 = pos
    BY DEF TextInv
  <2>3. Len(s.bytes) \in Nat /\ s.bytes \in Seq(0..255)
    BY LenProperties
  <2>4. n + 1 <= Len(s.bytes) /\ pos' = (n + 1) + 1 /\ n <= Len(s.bytes)
    BY <1>1, <2>1, <2>2, <2>3 DEF Text!Convert
  <2>5. pos' \in 1..(Len(s.bytes) + 1) /\ pos' - 1 = n + 1
    BY <2>3, <2>4
  <2>6. Joined(Parts(s, n), out)
    BY <2>1, <2>2 DEF TextInv
  <2>7. /\ Parts(s, n) \in Seq(Seq(0..255)) /\ Len(Parts(s, n)) = n
        /\ \A k \in 1..n : Parts(s, n)[k] = Text!Converted(s.encoding, s.bytes[k])
    BY <2>4, PartsAre
  <2>8. /\ Parts(s, n + 1) \in Seq(Seq(0..255)) /\ Len(Parts(s, n + 1)) = n + 1
        /\ \A k \in 1..(n + 1) :
             Parts(s, n + 1)[k] = Text!Converted(s.encoding, s.bytes[k])
    BY <2>4, PartsAre
  <2>9. out' = out \o Parts(s, n + 1)[n + 1]
    <3>1. out' = out \o Text!Converted(s.encoding, s.bytes[n + 1])
      BY <1>1, <2>1, <2>2 DEF Text!Convert
    <3>2. n + 1 \in 1..(n + 1)
      OBVIOUS
    <3> QED
      BY <2>8, <3>1, <3>2
  <2>10. Joined(Parts(s, n + 1), out')
    <3>1. \A k \in 1..n : Parts(s, n + 1)[k] = Parts(s, n)[k]
      BY <2>7, <2>8
    <3>2. Joined(Parts(s, n + 1), out \o Parts(s, n + 1)[Len(Parts(s, n + 1))])
      BY <2>6, <2>7, <2>8, <3>1, JoinedGrows
    <3> QED
      BY <2>8, <2>9, <3>2
  <2> QED
    BY <2>1, <2>5, <2>10 DEF TextInv
<1>2. CASE UNCHANGED <<file, pos, out>>
  BY <1>2 DEF TextInv
<1> QED
  BY <1>1, <1>2 DEF Text!Next

(* Two bytes that are converted alike.                                     *)
LEMMA NotConfused ==
    ASSUME NEW e \in Text!Encodings, NEW c \in 0..255, NEW d \in 0..255, c # d,
           NEW o, o # <<>>, Text!Converted(e, c) = o, Text!Converted(e, d) = o
    PROVE  e = "cp1251" /\ {c, d} = {0, 152}
<1>1. /\ Text!Converted(e, c) = IF Fits(e, c) THEN Text!Utf8(Symbol(e, c)) ELSE <<>>
      /\ Text!Converted(e, d) = IF Fits(e, d) THEN Text!Utf8(Symbol(e, d)) ELSE <<>>
  BY ConvertedIs
<1>2. Fits(e, c) /\ Fits(e, d)
  BY <1>1
<1>3. PICK s : Symbol(e, c) = s /\ Symbol(e, d) = s
  <2>1. PICK s \in Nat : s = Symbol(e, c)
    BY SymbolIs
  <2>2. PICK t \in Nat : t = Symbol(e, d)
    BY SymbolIs
  <2>3. s < 4096 /\ t < 4096
    BY <1>2, <2>1, <2>2 DEF Fits
  <2>4. Text!Utf8(s) = Text!Utf8(t)
    BY <1>1, <1>2, <2>1, <2>2
  <2>5. s = t
    BY <2>1, <2>2, <2>3, <2>4, Utf8Differs
  <2> QED
    BY <2>1, <2>2, <2>5
<1>4. CASE c < d
  <2>1. e = "cp1251" /\ c = 0 /\ d = 152
    BY <1>3, <1>4, SymbolsDiffer, Zenon
  <2> QED
    BY <2>1
<1>5. CASE d < c
  <2>1. e = "cp1251" /\ d = 0 /\ c = 152
    BY <1>3, <1>5, SymbolsDiffer, Zenon
  <2> QED
    BY <2>1
<1>6. c < d \/ d < c
  OBVIOUS
<1> QED
  BY <1>4, <1>5, <1>6, Zenon

(* What the invariant says of the output.                                  *)
LEMMA TextInvKeeps ==
    ASSUME TextInv
    PROVE  Text!TextIsKept
<1>1. PICK n \in Nat : n = pos - 1 /\ n + 1 = pos
  BY DEF TextInv
<1>2. file.encoding \in Text!Encodings /\ file.bytes \in Seq(0..255)
      /\ Len(file.bytes) \in Nat /\ n <= Len(file.bytes)
  <2>1. file.encoding \in Text!Encodings /\ file.bytes \in Seq(0..255)
    BY DEF TextInv
  <2>2. Len(file.bytes) \in Nat
    BY <2>1, LenProperties
  <2> QED
    BY <1>1, <2>1, <2>2 DEF TextInv
<1>3. Text!WrittenIsUtf8
  <2>1. Parts(file, n) = [k \in 1..(pos - 1) |->
             IF Text!Symbols[k] < 4096 THEN Text!Utf8(Text!Symbols[k]) ELSE <<>>]
    <3>1. \A k \in 1..n : Text!Symbols[k] = Symbol(file.encoding, file.bytes[k])
      BY <1>1 DEF Text!Symbols, Symbol
    <3> QED
      BY <1>1, <3>1 DEF Parts
  <2>2. Text!FlattenSeq(Parts(file, n)) = out
    BY <1>1, FlattenIs DEF TextInv
  <2> QED
    BY <2>1, <2>2 DEF Text!WrittenIsUtf8
<1>4. Text!NothingIsConfused
  <2>1. SUFFICES ASSUME pos = 2, Len(file.bytes) = 1, out # <<>>,
                        NEW c \in 0..255 \ {file.bytes[1]},
                        Text!Converted(file.encoding, c) = out
                 PROVE  file.encoding = "cp1251" /\ {c, file.bytes[1]} = {0, 152}
    BY DEF Text!NothingIsConfused
  <2>2. PICK d \in 0..255 : d = file.bytes[1]
    <3>1. 1 \in 1..Len(file.bytes)
      BY <2>1
    <3>2. file.bytes[1] \in 0..255
      BY <1>2, <3>1, ElementOfSeq
    <3> QED
      BY <3>2
  <2>3. PICK e \in Text!Encodings : e = file.encoding
    BY <1>2
  <2>4. out = Text!Converted(e, d)
    <3>1. n = 1
      BY <1>1, <2>1
    <3>2. Parts(file, n)[1] = Text!Converted(e, d) /\ Len(Parts(file, n)) = 1
      <4>1. file \in [encoding : Text!Encodings, bytes : Seq(0..255)]
        BY DEF TextInv
      <4>2. /\ Len(Parts(file, n)) = n
            /\ \A k \in 1..n : Parts(file, n)[k] = Text!Converted(file.encoding, file.bytes[k])
        BY <1>2, <4>1, PartsAre
      <4> QED
        BY <2>2, <2>3, <3>1, <4>2
    <3>3. Joined(Parts(file, n), out)
      BY <1>1 DEF TextInv
    <3>4. PICK f : IsFlat(f, Parts(file, n)) /\ f[1] = out
      BY <3>2, <3>3 DEF Joined
    <3>5. f[1] = Parts(file, n)[1]
      BY <3>2, <3>4 DEF IsFlat
    <3> QED
      BY <3>2, <3>4, <3>5
  <2>5. c \in 0..255 /\ c # d /\ Text!Converted(e, c) = out
    BY <2>1, <2>2, <2>3
  <2>6. e = "cp1251" /\ {c, d} = {0, 152}
    <3>1. d \in 0..255 /\ e \in Text!Encodings /\ out # <<>> /\ Text!Converted(e, d) = out
      BY <2>1, <2>2, <2>3, <2>4
    <3> QED
      BY <2>5, <3>1, NotConfused, Zenon
  <2> QED
    BY <2>2, <2>3, <2>6
<1> QED
  BY <1>3, <1>4 DEF Text!TextIsKept

(* Nothing has been written before the first byte.                         *)
LEMMA TextInvInit == Text!Init => TextInv
<1> SUFFICES ASSUME Text!Init
             PROVE  TextInv
  OBVIOUS
<1>1. file \in [encoding : Text!Encodings, bytes : Seq(0..255)] /\ pos = 1
      /\ out = <<>>
  BY FilesAssumption DEF Text!Init, Text!Encodings
<1>2. Len(file.bytes) \in Nat
  BY <1>1, LenProperties
<1>3. Parts(file, 0) = <<>> /\ pos - 1 = 0
  BY <1>1 DEF Parts
<1>4. Joined(<<>>, out)
  BY <1>1 DEF Joined
<1> QED
  BY <1>1, <1>2, <1>3, <1>4 DEF TextInv

(* Hw02: for every file in one of the three encodings, what the converter  *)
(* has written is the UTF-8 of the symbols so far in their order, without  *)
(* those above 0xFFF, and no two bytes are converted alike but 0 and 0x98  *)
(* of cp1251.                                                              *)
THEOREM TextIsWritten == ProgramsSpec => []TextIsKept
<1> DEFINE Run == program = "encoding" => TextInv
<1>1. ProgramsInit => Run
  BY TextInvInit DEF ProgramsInit
<1>2. Run /\ [ProgramsNext]_programVars => Run'
  <2> SUFFICES ASSUME Run, [ProgramsNext]_programVars, program' = "encoding"
               PROVE  TextInv'
    OBVIOUS
  <2>1. program = "encoding" /\ [Text!Next]_<<file, pos, out>>
    BY DEF ProgramsNext, FileNext, programVars
  <2> QED
    BY <2>1, TextInvNext
<1>3. Run => TextIsKept
  BY TextInvKeeps DEF TextIsKept
<1> QED
  BY <1>1, <1>2, <1>3, PTL DEF ProgramsSpec

-----------------------------------------------------------------------------
(* The CRC.  A word is a set of bits.                                      *)
Words == SUBSET (0..31)

(* One step of the division that brings no bit, and eight of them.         *)
Shift(r) == Crc!Divide(r, FALSE)
Eight(r) == Shift(Shift(Shift(Shift(Shift(Shift(Shift(Shift(r))))))))

(* Exclusive or is membership in one but not in the other.                 *)
LEMMA XorIs ==
    ASSUME NEW a, NEW b, NEW k
    PROVE  k \in Crc!Xor(a, b) <=> ~((k \in a) <=> (k \in b))
  BY DEF Crc!Xor

(* of words, it is a word.                                                 *)
LEMMA XorWords ==
    ASSUME NEW a \in Words, NEW b \in Words
    PROVE  Crc!Xor(a, b) \in Words
  BY DEF Crc!Xor, Words

(* A shift moves the bits down.                                            *)
LEMMA ShiftRightIs ==
    ASSUME NEW a \in Words, NEW n \in 0..31, NEW k \in 0..31
    PROVE  /\ k \in Crc!ShiftRight(a, n) <=> k + n \in a
           /\ Crc!ShiftRight(a, n) \in Words
<1>1. a \subseteq Int
  BY DEF Words
<1>2. ASSUME NEW j \in Crc!ShiftRight(a, n)
      PROVE  j \in 0..31 /\ j + n \in a
  BY <1>1 DEF Crc!ShiftRight, Words
<1>3. ASSUME k + n \in a
      PROVE  k \in Crc!ShiftRight(a, n)
  <2>1. k + n \in {b \in a : b >= n} /\ (k + n) - n = k
    BY <1>3
  <2> QED
    BY <2>1 DEF Crc!ShiftRight
<1> QED
  BY <1>2, <1>3 DEF Words

(* The powers by which Bits takes a number apart.                          *)
Power == <<1, 2, 4, 8, 16, 32, 64, 128, 256, 512, 1024, 2048, 4096, 8192, 16384,
           32768>>

(* They are powers of 2.                                                   *)
LEMMA PowerIs ==
    ASSUME NEW k \in 0..15
    PROVE  2 ^ k = Power[k + 1]
<1> DEFINE j == k + 1
<1>1. CASE k = 0
  BY <1>1 DEF Power
<1>2. CASE k = 1
  BY <1>2 DEF Power
<1>3. CASE k = 2
  BY <1>3 DEF Power
<1>4. CASE k = 3
  BY <1>4 DEF Power
<1>5. CASE k = 4
  BY <1>5 DEF Power
<1>6. CASE k = 5
  BY <1>6 DEF Power
<1>7. CASE k = 6
  BY <1>7 DEF Power
<1>8. CASE k = 7
  BY <1>8 DEF Power
<1>9. CASE k = 8
  BY <1>9 DEF Power
<1>10. CASE k = 9
  BY <1>10 DEF Power
<1>11. CASE k = 10
  BY <1>11 DEF Power
<1>12. CASE k = 11
  BY <1>12 DEF Power
<1>13. CASE k = 12
  BY <1>13 DEF Power
<1>14. CASE k = 13
  BY <1>14 DEF Power
<1>15. CASE k = 14
  BY <1>15 DEF Power
<1>16. CASE k = 15
  BY <1>16 DEF Power
<1> QED
  BY <1>1, <1>2, <1>3, <1>4, <1>5, <1>6, <1>7, <1>8, <1>9, <1>10, <1>11, <1>12,
     <1>13, <1>14, <1>15, <1>16

(* Bit k of row i of the table.                                            *)
Digit(i, k) ==
    IF k < 16 THEN (Crc!Halves[2 * i + 2] \div Power[k + 1]) % 2 = 1
    ELSE (Crc!Halves[2 * i + 1] \div Power[k - 15]) % 2 = 1

(* A row is a word, made of two halves.                                    *)
LEMMA RowIs ==
    ASSUME NEW i \in 0..255
    PROVE  /\ Crc!crc32_tab[i] \in Words
           /\ \A k \in 0..31 : k \in Crc!crc32_tab[i] <=> Digit(i, k)
<1> DEFINE high == Crc!Halves[2 * i + 1]
           low == Crc!Halves[2 * i + 2]
<1>1. Crc!crc32_tab[i] = {k + 16 : k \in Crc!Bits(high)} \cup Crc!Bits(low)
  BY DEF Crc!crc32_tab, Crc!Word
<1>2. /\ \A k \in 0..15 : k \in Crc!Bits(low) <=> Digit(i, k)
      /\ \A k \in 0..15 : k \in Crc!Bits(high) <=> Digit(i, k + 16)
  BY PowerIs DEF Crc!Bits, Digit
<1>3. Crc!Bits(low) \subseteq 0..15 /\ Crc!Bits(high) \subseteq 0..15
  BY DEF Crc!Bits
<1> HIDE DEF high, low
<1>4. Crc!crc32_tab[i] \in Words
  BY <1>1, <1>3 DEF Words
<1>5. ASSUME NEW k \in 0..31
      PROVE  k \in Crc!crc32_tab[i] <=> Digit(i, k)
  <2>1. CASE k < 16
    BY <1>1, <1>2, <1>3, <2>1
  <2>2. CASE k >= 16
    <3>1. PICK j \in 0..15 : k = j + 16
      BY <2>2
    <3>2. k \in Crc!crc32_tab[i] <=> j \in Crc!Bits(high)
      BY <1>1, <1>3, <3>1
    <3> QED
      BY <1>2, <3>1, <3>2
  <2> QED
    BY <2>1, <2>2
<1> QED
  BY <1>4, <1>5

(* What the 512 halves say of each other: rows are added like their numbers,*)
LEMMA RowsAdd ==
    ASSUME NEW p \in {1, 2, 4, 8, 16, 32, 64, 128}, NEW i \in 0..(p - 1),
           NEW k \in 0..31
    PROVE  Digit(p + i, k) <=> ~(Digit(p, k) <=> Digit(i, k))
  BY SMTT(60) DEF Digit, Power, Crc!Halves

(* the row of a single bit is left by a step from that of the bit above,   *)
LEMMA RowsShift ==
    ASSUME NEW p \in {1, 2, 4, 8, 16, 32, 64}, NEW k \in 0..31
    PROVE  Digit(p, k) <=> ~((k # 31 /\ Digit(2 * p, k + 1))
                               <=> (Digit(2 * p, 0) /\ Digit(128, k)))
  BY SMTT(60) DEF Digit, Power, Crc!Halves

(* row 0 is empty,                                                         *)
LEMMA RowOfNothing == \A k \in 0..31 : ~Digit(0, k)
  BY SMTT(60) DEF Digit, Power, Crc!Halves

(* and row 128 is the polynomial.                                          *)
LEMMA RowIsPolynomial == Crc!crc32_tab[128] = Crc!Polynomial
<1>1. Crc!Halves[2 * 128 + 1] = 60856 /\ Crc!Halves[2 * 128 + 2] = 33568
  BY DEF Crc!Halves
<1> QED
  BY <1>1 DEF Crc!crc32_tab, Crc!Polynomial

-----------------------------------------------------------------------------
(* Division.                                                               *)
(* The polynomial is a word.                                               *)
LEMMA PolynomialIs == Crc!Polynomial \in Words
  BY RowIs, RowIsPolynomial

(* A step of the division, bit by bit;                                     *)
LEMMA DivideIs ==
    ASSUME NEW r \in Words, NEW c, NEW j
    PROVE  /\ Crc!Divide(r, j \in c) \in Words
           /\ \A k \in 0..31 :
                k \in Crc!Divide(r, j \in c) <=>
                  ~((k + 1 \in r) <=> (~((0 \in r) <=> (j \in c)) /\ k \in Crc!Polynomial))
<1>1. /\ Crc!ShiftRight(r, 1) \in Words
      /\ \A k \in 0..31 : k \in Crc!ShiftRight(r, 1) <=> k + 1 \in r
  BY ShiftRightIs
<1>2. CASE (0 \in r) <=> (j \in c)
  <2>1. Crc!Divide(r, j \in c) = Crc!ShiftRight(r, 1)
    BY <1>2 DEF Crc!Divide
  <2> QED
    BY <1>1, <1>2, <2>1
<1>3. CASE ~((0 \in r) <=> (j \in c))
  <2>1. Crc!Divide(r, j \in c) = Crc!Xor(Crc!ShiftRight(r, 1), Crc!Polynomial)
    BY <1>3 DEF Crc!Divide
  <2> QED
    BY <1>1, <1>3, <2>1, XorIs, XorWords, PolynomialIs
<1> QED
  BY <1>2, <1>3

(* one that brings a 0;                                                    *)
LEMMA ShiftIs ==
    ASSUME NEW r \in Words
    PROVE  /\ Shift(r) \in Words
           /\ \A k \in 0..31 :
                k \in Shift(r) <=> ~((k + 1 \in r) <=> (0 \in r /\ k \in Crc!Polynomial))
<1>1. Shift(r) = IF 0 \in r THEN Crc!Xor(Crc!ShiftRight(r, 1), Crc!Polynomial)
                 ELSE Crc!ShiftRight(r, 1)
  BY DEF Shift, Crc!Divide
<1>2. /\ Crc!ShiftRight(r, 1) \in Words
      /\ \A k \in 0..31 : k \in Crc!ShiftRight(r, 1) <=> k + 1 \in r
  BY ShiftRightIs
<1> QED
  BY <1>1, <1>2, XorIs, XorWords, PolynomialIs

(* words are equal that have the same bits.                                *)
LEMMA WordsEqual ==
    ASSUME NEW a \in Words, NEW b \in Words, \A k \in 0..31 : k \in a <=> k \in b
    PROVE  a = b
  BY DEF Words

(* Division takes sums apart.                                              *)
LEMMA ShiftAdds ==
    ASSUME NEW a \in Words, NEW b \in Words
    PROVE  /\ Shift(a) \in Words
           /\ Shift(Crc!Xor(a, b)) = Crc!Xor(Shift(a), Shift(b))
<1>1. Crc!Xor(a, b) \in Words
  BY XorWords
<1>2. Shift(a) \in Words /\ Shift(b) \in Words /\ Shift(Crc!Xor(a, b)) \in Words
  BY <1>1, ShiftIs
<1>3. Crc!Xor(Shift(a), Shift(b)) \in Words
  BY <1>2, XorWords
<1>4. ASSUME NEW k \in 0..31
      PROVE  k \in Shift(Crc!Xor(a, b)) <=> k \in Crc!Xor(Shift(a), Shift(b))
  <2>1. k \in Shift(Crc!Xor(a, b)) <=>
          ~((k + 1 \in Crc!Xor(a, b)) <=> (0 \in Crc!Xor(a, b) /\ k \in Crc!Polynomial))
    BY <1>1, ShiftIs
  <2>2. k \in Shift(a) <=> ~((k + 1 \in a) <=> (0 \in a /\ k \in Crc!Polynomial))
    BY ShiftIs
  <2>3. k \in Shift(b) <=> ~((k + 1 \in b) <=> (0 \in b /\ k \in Crc!Polynomial))
    BY ShiftIs
  <2>4. /\ k + 1 \in Crc!Xor(a, b) <=> ~((k + 1 \in a) <=> (k + 1 \in b))
        /\ 0 \in Crc!Xor(a, b) <=> ~((0 \in a) <=> (0 \in b))
        /\ k \in Crc!Xor(Shift(a), Shift(b)) <=> ~((k \in Shift(a)) <=> (k \in Shift(b)))
    BY XorIs
  <2> QED
    BY <2>1, <2>2, <2>3, <2>4, Zenon
<1> QED
  BY <1>2, <1>3, <1>4, WordsEqual

(* So do eight steps.                                                      *)
LEMMA EightAdds ==
    ASSUME NEW a \in Words, NEW b \in Words
    PROVE  /\ Eight(a) \in Words
           /\ Eight(Crc!Xor(a, b)) = Crc!Xor(Eight(a), Eight(b))
<1> DEFINE Two(r) == Shift(Shift(r))
           Four(r) == Two(Two(r))
<1>1. \A r \in Words : Shift(r) \in Words
  BY ShiftAdds
<1>2. \A r, s \in Words : Shift(Crc!Xor(r, s)) = Crc!Xor(Shift(r), Shift(s))
  BY ShiftAdds
<1>3. \A r, s \in Words :
        Two(r) \in Words /\ Two(Crc!Xor(r, s)) = Crc!Xor(Two(r), Two(s))
  BY <1>1, <1>2
<1> HIDE DEF Two
<1>4. \A r, s \in Words :
        Four(r) \in Words /\ Four(Crc!Xor(r, s)) = Crc!Xor(Four(r), Four(s))
  BY <1>3
<1> HIDE DEF Four
<1>5. \A r \in Words : Eight(r) = Four(Four(r))
  BY DEF Eight, Two, Four
<1>6. Crc!Xor(a, b) \in Words
  BY XorWords
<1> QED
  BY <1>4, <1>5, <1>6

(* A bit of the message may as well be added to what is divided, before    *)
(* the step that brings it or earlier.                                     *)
LEMMA BitsComeBefore ==
    ASSUME NEW r \in Words, NEW c \in Words, NEW b, NEW j, j \in b <=> 0 \in c
    PROVE  Shift(Crc!Xor(r, c)) =
             Crc!Xor(Crc!Divide(r, j \in b), Crc!ShiftRight(c, 1))
<1> DEFINE d == Crc!Divide(r, j \in b)
           e == Crc!ShiftRight(c, 1)
<1>1. Crc!Xor(r, c) \in Words
  BY XorWords
<1>2. Shift(Crc!Xor(r, c)) \in Words /\ d \in Words /\ e \in Words
  BY <1>1, ShiftIs, DivideIs, ShiftRightIs
<1>3. \A k \in 0..31 :
        k \in d <=>
          ~((k + 1 \in r) <=> (~((0 \in r) <=> (j \in b)) /\ k \in Crc!Polynomial))
  BY DivideIs
<1>4. \A k \in 0..31 : k \in e <=> k + 1 \in c
  BY ShiftRightIs
<1> HIDE DEF d, e
<1>5. Crc!Xor(d, e) \in Words
  BY <1>2, XorWords
<1>6. ASSUME NEW k \in 0..31
      PROVE  k \in Shift(Crc!Xor(r, c)) <=> k \in Crc!Xor(d, e)
  <2>1. k \in Shift(Crc!Xor(r, c)) <=>
          ~((k + 1 \in Crc!Xor(r, c)) <=> (0 \in Crc!Xor(r, c) /\ k \in Crc!Polynomial))
    BY <1>1, ShiftIs
  <2>2. /\ k + 1 \in Crc!Xor(r, c) <=> ~((k + 1 \in r) <=> (k + 1 \in c))
        /\ 0 \in Crc!Xor(r, c) <=> ~((0 \in r) <=> (0 \in c))
        /\ k \in Crc!Xor(d, e) <=> ~((k \in d) <=> (k \in e))
    BY XorIs
  <2> QED
    BY <1>3, <1>4, <2>1, <2>2, Zenon
<1> QED
  BY <1>2, <1>5, <1>6, WordsEqual DEF d, e

(* Eight steps over the bits of c.                                         *)
Over(r, c) ==
    LET D(y, k) == Crc!Divide(y, k \in c)
    IN  D(D(D(D(D(D(D(D(r, 0), 1), 2), 3), 4), 5), 6), 7)

(* They are the steps without bits after c has been added.                 *)
LEMMA OverIsEight ==
    ASSUME NEW r \in Words, NEW c \in Words, c \subseteq 0..7
    PROVE  Over(r, c) = Eight(Crc!Xor(r, c))
<1> DEFINE D(a, j) == Crc!Divide(a, j \in c)
<1> DEFINE c1 == Crc!ShiftRight(c, 1)
           c2 == Crc!ShiftRight(c1, 1)
           c3 == Crc!ShiftRight(c2, 1)
           c4 == Crc!ShiftRight(c3, 1)
           c5 == Crc!ShiftRight(c4, 1)
           c6 == Crc!ShiftRight(c5, 1)
           c7 == Crc!ShiftRight(c6, 1)
           c8 == Crc!ShiftRight(c7, 1)
           r1 == D(r, 0)
           r2 == D(r1, 1)
           r3 == D(r2, 2)
           r4 == D(r3, 3)
           r5 == D(r4, 4)
           r6 == D(r5, 5)
           r7 == D(r6, 6)
           r8 == D(r7, 7)
<1>1. \A a \in Words : /\ Crc!ShiftRight(a, 1) \in Words
                       /\ \A k \in 0..31 : k \in Crc!ShiftRight(a, 1) <=> k + 1 \in a
  BY ShiftRightIs
<1>2. /\ c1 \in Words /\ c2 \in Words /\ c3 \in Words /\ c4 \in Words
      /\ c5 \in Words /\ c6 \in Words /\ c7 \in Words /\ c8 \in Words
  BY <1>1
<1>3. /\ \A k \in 0..31 : k \in c1 <=> k + 1 \in c
      /\ \A k \in 0..31 : k \in c2 <=> k + 1 \in c1
      /\ \A k \in 0..31 : k \in c3 <=> k + 1 \in c2
      /\ \A k \in 0..31 : k \in c4 <=> k + 1 \in c3
      /\ \A k \in 0..31 : k \in c5 <=> k + 1 \in c4
      /\ \A k \in 0..31 : k \in c6 <=> k + 1 \in c5
      /\ \A k \in 0..31 : k \in c7 <=> k + 1 \in c6
      /\ \A k \in 0..31 : k \in c8 <=> k + 1 \in c7
  BY <1>1, <1>2
<1>4. \A a, b \in Words : \A j \in {0, 1, 2, 3, 4, 5, 6, 7} :
        (j \in c <=> 0 \in b) =>
          Shift(Crc!Xor(a, b)) = Crc!Xor(D(a, j), Crc!ShiftRight(b, 1))
  BY BitsComeBefore
<1>5. \A a \in Words : \A j \in {0, 1, 2, 3, 4, 5, 6, 7} : D(a, j) \in Words
  BY DivideIs
<1> HIDE DEF D, c1, c2, c3, c4, c5, c6, c7, c8, r1, r2, r3, r4, r5, r6, r7, r8
<1>6. /\ 1 \in c <=> 0 \in c1
      /\ 2 \in c <=> 0 \in c2
      /\ 3 \in c <=> 0 \in c3
      /\ 4 \in c <=> 0 \in c4
      /\ 5 \in c <=> 0 \in c5
      /\ 6 \in c <=> 0 \in c6
      /\ 7 \in c <=> 0 \in c7
  BY <1>3
<1>7. c8 = {}
  <2>1. ASSUME NEW k \in 0..31
        PROVE  k \notin c8
    <3>1. \A d \in Words : \A m \in d : m \in 0..31
      BY DEF Words
    <3>2. k \in c8 => k + 7 \in c1
      BY <1>2, <1>3, <3>1
    <3> QED
      BY <1>2, <1>3, <3>1, <3>2
  <2> QED
    BY <1>2, <2>1 DEF Words
<1>8. Shift(Crc!Xor(r, c)) = Crc!Xor(r1, c1) /\ r1 \in Words
  BY <1>2, <1>4, <1>5, <1>6 DEF c1, r1
<1>9. Shift(Crc!Xor(r1, c1)) = Crc!Xor(r2, c2) /\ r2 \in Words
  BY <1>2, <1>4, <1>5, <1>6, <1>8, Zenon DEF c2, r2
<1>10. Shift(Crc!Xor(r2, c2)) = Crc!Xor(r3, c3) /\ r3 \in Words
  BY <1>2, <1>4, <1>5, <1>6, <1>9, Zenon DEF c3, r3
<1>11. Shift(Crc!Xor(r3, c3)) = Crc!Xor(r4, c4) /\ r4 \in Words
  BY <1>2, <1>4, <1>5, <1>6, <1>10, Zenon DEF c4, r4
<1>12. Shift(Crc!Xor(r4, c4)) = Crc!Xor(r5, c5) /\ r5 \in Words
  BY <1>2, <1>4, <1>5, <1>6, <1>11, Zenon DEF c5, r5
<1>13. Shift(Crc!Xor(r5, c5)) = Crc!Xor(r6, c6) /\ r6 \in Words
  BY <1>2, <1>4, <1>5, <1>6, <1>12, Zenon DEF c6, r6
<1>14. Shift(Crc!Xor(r6, c6)) = Crc!Xor(r7, c7) /\ r7 \in Words
  BY <1>2, <1>4, <1>5, <1>6, <1>13, Zenon DEF c7, r7
<1>15. Shift(Crc!Xor(r7, c7)) = Crc!Xor(r8, c8) /\ r8 \in Words
  BY <1>2, <1>4, <1>5, <1>6, <1>14, Zenon DEF c8, r8
<1>16. r8 = Over(r, c)
  BY DEF Over, D, r1, r2, r3, r4, r5, r6, r7, r8
<1>17. Crc!Xor(r8, c8) = r8
  BY <1>7 DEF Crc!Xor
<1> QED
  BY <1>8, <1>9, <1>10, <1>11, <1>12, <1>13, <1>14, <1>15, <1>16, <1>17 DEF Eight

(* Words without one of the low eight bits are moved as they are.          *)
LEMMA EightOfHigh ==
    ASSUME NEW a \in Words, \A k \in 0..7 : k \notin a
    PROVE  Eight(a) = Crc!ShiftRight(a, 8)
<1> DEFINE M(n) == Crc!ShiftRight(a, n)
<1>1. \A n \in 0..8 : M(n) \in Words /\ \A k \in 0..31 : k \in M(n) <=> k + n \in a
  BY ShiftRightIs
<1> HIDE DEF M
<1>2. ASSUME NEW n \in 0..7
      PROVE  Shift(M(n)) = M(n + 1)
  <2>1. 0 \notin M(n)
    BY <1>1
  <2>2. \A k \in 0..31 : k \in Shift(M(n)) <=> k + 1 \in M(n)
    BY <1>1, <2>1, ShiftIs
  <2>3. ASSUME NEW k \in 0..31
        PROVE  k + 1 \in M(n) <=> k \in M(n + 1)
    <3>1. CASE k = 31
      <4>1. M(n) \subseteq 0..31 /\ a \subseteq 0..31
        BY <1>1 DEF Words
      <4> QED
        BY <1>1, <3>1, <4>1
    <3>2. CASE k # 31
      <4>1. k + 1 \in 0..31 /\ (k + 1) + n = k + (n + 1)
        BY <3>2
      <4> QED
        BY <1>1, <4>1
    <3> QED
      BY <3>1, <3>2
  <2> QED
    BY <1>1, <2>2, <2>3, ShiftIs, WordsEqual
<1>3. M(0) = a
  BY <1>1, WordsEqual
<1>4. /\ Shift(M(0)) = M(1) /\ Shift(M(1)) = M(2) /\ Shift(M(2)) = M(3)
      /\ Shift(M(3)) = M(4) /\ Shift(M(4)) = M(5) /\ Shift(M(5)) = M(6)
      /\ Shift(M(6)) = M(7) /\ Shift(M(7)) = M(8)
  BY <1>2
<1> QED
  BY <1>3, <1>4 DEF Eight, M

(* A step moves a single bit down,                                         *)
LEMMA ShiftOfBit ==
    ASSUME NEW k \in 1..31
    PROVE  Shift({k}) = {k - 1}
<1>1. {k} \in Words /\ {k - 1} \in Words
  BY DEF Words
<1>2. \A j \in 0..31 : j \in Shift({k}) <=> j + 1 \in {k}
  BY <1>1, ShiftIs
<1> QED
  BY <1>1, <1>2, ShiftIs, WordsEqual

(* and the last one out, for which the polynomial comes in.                *)
LEMMA ShiftOfLast == Shift({0}) = Crc!Polynomial
<1>1. {0} \in Words
  BY DEF Words
<1> QED
  BY <1>1, ShiftIs, PolynomialIs, WordsEqual

(* A step leads from the row of a bit to that of the bit below;            *)
LEMMA RowShift ==
    ASSUME NEW p \in {1, 2, 4, 8, 16, 32, 64}
    PROVE  Shift(Crc!crc32_tab[2 * p]) = Crc!crc32_tab[p]
<1> DEFINE t == Crc!crc32_tab[2 * p]
           u == Crc!crc32_tab[p]
<1>1. /\ t \in Words /\ \A k \in 0..31 : k \in t <=> Digit(2 * p, k)
      /\ u \in Words /\ \A k \in 0..31 : k \in u <=> Digit(p, k)
      /\ \A k \in 0..31 : k \in Crc!Polynomial <=> Digit(128, k)
  BY RowIs, RowIsPolynomial
<1> HIDE DEF t, u
<1>2. ASSUME NEW k \in 0..31
      PROVE  k \in Shift(t) <=> k \in u
  <2>1. k \in Shift(t) <=> ~((k + 1 \in t) <=> (0 \in t /\ k \in Crc!Polynomial))
    BY <1>1, ShiftIs
  <2>2. Digit(p, k) <=> ~((k # 31 /\ Digit(2 * p, k + 1))
                            <=> (Digit(2 * p, 0) /\ Digit(128, k)))
    BY RowsShift
  <2>3. k + 1 \in t <=> k # 31 /\ Digit(2 * p, k + 1)
    <3>1. CASE k = 31
      BY <1>1, <3>1 DEF Words
    <3>2. CASE k # 31
      <4>1. k + 1 \in 0..31
        BY <3>2
      <4> QED
        BY <1>1, <3>2, <4>1
    <3> QED
      BY <3>1, <3>2
  <2>4. /\ 0 \in t <=> Digit(2 * p, 0)
        /\ k \in Crc!Polynomial <=> Digit(128, k)
        /\ k \in u <=> Digit(p, k)
    BY <1>1
  <2> QED
    BY <2>1, <2>2, <2>3, <2>4, Zenon
<1>3. Shift(t) \in Words
  BY <1>1, ShiftIs
<1> QED
  BY <1>1, <1>2, <1>3, WordsEqual DEF t, u

(* so the row of a bit is what eight steps leave of it.                    *)
LEMMA RowOfBit ==
    /\ Eight({7}) = Crc!crc32_tab[128] /\ Eight({6}) = Crc!crc32_tab[64]
    /\ Eight({5}) = Crc!crc32_tab[32] /\ Eight({4}) = Crc!crc32_tab[16]
    /\ Eight({3}) = Crc!crc32_tab[8] /\ Eight({2}) = Crc!crc32_tab[4]
    /\ Eight({1}) = Crc!crc32_tab[2] /\ Eight({0}) = Crc!crc32_tab[1]
<1> DEFINE T(p) == Crc!crc32_tab[p]
<1>1. /\ Shift({7}) = {6} /\ Shift({6}) = {5} /\ Shift({5}) = {4} /\ Shift({4}) = {3}
      /\ Shift({3}) = {2} /\ Shift({2}) = {1} /\ Shift({1}) = {0}
  BY ShiftOfBit
<1>2. Shift({0}) = T(128)
  BY ShiftOfLast, RowIsPolynomial
<1>3. /\ Shift(T(128)) = T(64) /\ Shift(T(64)) = T(32) /\ Shift(T(32)) = T(16)
      /\ Shift(T(16)) = T(8) /\ Shift(T(8)) = T(4) /\ Shift(T(4)) = T(2)
      /\ Shift(T(2)) = T(1)
  <2>1. \A p \in {1, 2, 4, 8, 16, 32, 64} : Shift(T(2 * p)) = T(p)
    BY RowShift
  <2> HIDE DEF T
  <2> QED
    BY <2>1
<1> HIDE DEF T
<1>4. /\ Eight({7}) = T(128) /\ Eight({6}) = T(64) /\ Eight({5}) = T(32)
      /\ Eight({4}) = T(16) /\ Eight({3}) = T(8) /\ Eight({2}) = T(4)
      /\ Eight({1}) = T(2) /\ Eight({0}) = T(1)
  BY <1>1, <1>2, <1>3 DEF Eight
<1> QED
  BY <1>4 DEF T

(* The number of a byte, bit by bit.                                       *)
LEMMA ByteIs ==
    ASSUME NEW a
    PROVE  Crc!Byte(a) =
             (IF 0 \in a THEN 1 ELSE 0) + (IF 1 \in a THEN 2 ELSE 0)
           + (IF 2 \in a THEN 4 ELSE 0) + (IF 3 \in a THEN 8 ELSE 0)
           + (IF 4 \in a THEN 16 ELSE 0) + (IF 5 \in a THEN 32 ELSE 0)
           + (IF 6 \in a THEN 64 ELSE 0) + (IF 7 \in a THEN 128 ELSE 0)
<1>1. /\ 2 ^ 0 = 1 /\ 2 ^ 1 = 2 /\ 2 ^ 2 = 4 /\ 2 ^ 3 = 8 /\ 2 ^ 4 = 16
      /\ 2 ^ 5 = 32 /\ 2 ^ 6 = 64 /\ 2 ^ 7 = 128
  OBVIOUS
<1> QED
  BY <1>1 DEF Crc!Byte

(* Rows are added like the bytes that they belong to.                      *)
LEMMA RowAdd ==
    ASSUME NEW p \in {1, 2, 4, 8, 16, 32, 64, 128}, NEW i \in 0..(p - 1)
    PROVE  /\ p + i \in 0..255
           /\ Crc!crc32_tab[p + i] = Crc!Xor(Crc!crc32_tab[p], Crc!crc32_tab[i])
<1>1. p \in 0..255 /\ i \in 0..255 /\ p + i \in 0..255
  OBVIOUS
<1>2. ASSUME NEW k \in 0..31
      PROVE  Digit(p + i, k) <=> ~(Digit(p, k) <=> Digit(i, k))
  BY RowsAdd, SMTT(30)
<1> DEFINE t == Crc!crc32_tab[p + i]
           u == Crc!crc32_tab[p]
           v == Crc!crc32_tab[i]
<1>3. /\ t \in Words /\ \A k \in 0..31 : k \in t <=> Digit(p + i, k)
      /\ u \in Words /\ \A k \in 0..31 : k \in u <=> Digit(p, k)
      /\ v \in Words /\ \A k \in 0..31 : k \in v <=> Digit(i, k)
  <2>1. t \in Words /\ \A k \in 0..31 : k \in t <=> Digit(p + i, k)
    BY <1>1, RowIs, Zenon
  <2>2. u \in Words /\ \A k \in 0..31 : k \in u <=> Digit(p, k)
    BY <1>1, RowIs, Zenon
  <2>3. v \in Words /\ \A k \in 0..31 : k \in v <=> Digit(i, k)
    BY <1>1, RowIs, Zenon
  <2> QED
    BY <2>1, <2>2, <2>3
<1> HIDE DEF t, u, v
<1>4. Crc!Xor(u, v) \in Words
  BY <1>3, XorWords
<1>5. ASSUME NEW k \in 0..31
      PROVE  k \in t <=> k \in Crc!Xor(u, v)
  BY <1>2, <1>3, XorIs, Zenon
<1>6. t = Crc!Xor(u, v)
  BY <1>3, <1>4, <1>5, WordsEqual
<1> QED
  BY <1>1, <1>6 DEF t, u, v

(* The rows of the bytes with bits below k are what the division leaves.   *)
Right(k, p) ==
    \A c \in SUBSET (0..(k - 1)) :
        Crc!Byte(c) \in 0..(p - 1) /\ Eight(c) = Crc!crc32_tab[Crc!Byte(c)]

(* What a bit adds.                                                        *)
Adds(k, p) ==
    /\ Eight({k}) = Crc!crc32_tab[p]
    /\ \A c \in SUBSET (0..(k - 1)) : Crc!Byte(c \cup {k}) = p + Crc!Byte(c)

(* With one bit more there are twice as many rows.                         *)
LEMMA RightGrows ==
    ASSUME NEW k \in 0..7, NEW p \in {1, 2, 4, 8, 16, 32, 64, 128},
           Right(k, p), Adds(k, p)
    PROVE  Right(k + 1, 2 * p)
<1> SUFFICES ASSUME NEW d \in SUBSET (0..k)
             PROVE  /\ Crc!Byte(d) \in 0..(2 * p - 1)
                    /\ Eight(d) = Crc!crc32_tab[Crc!Byte(d)]
  BY DEF Right
<1>1. CASE k \notin d
  <2>1. d \in SUBSET (0..(k - 1))
    BY <1>1
  <2> QED
    BY <2>1 DEF Right
<1>2. CASE k \in d
  <2>1. PICK c \in SUBSET (0..(k - 1)) : c = d \ {k}
    <3>1. \A j \in d \ {k} : j \in 0..(k - 1)
      OBVIOUS
    <3> QED
      BY <3>1
  <2>2. d = c \cup {k} /\ d = Crc!Xor({k}, c) /\ c \in Words /\ {k} \in Words
    BY <1>2, <2>1 DEF Crc!Xor, Words
  <2>3. PICK i \in 0..(p - 1) : i = Crc!Byte(c) /\ Eight(c) = Crc!crc32_tab[i]
    BY DEF Right
  <2>4. Crc!Byte(d) = p + i
    BY <2>2, <2>3 DEF Adds
  <2>5. Eight(d) = Crc!Xor(Eight({k}), Eight(c))
    BY <2>2, EightAdds
  <2>6. Crc!crc32_tab[p + i] = Crc!Xor(Crc!crc32_tab[p], Crc!crc32_tab[i])
    BY RowAdd
  <2>7. p + i \in 0..(2 * p - 1)
    OBVIOUS
  <2> QED
    BY <2>3, <2>4, <2>5, <2>6, <2>7 DEF Adds
<1> QED
  BY <1>1, <1>2

(* Each row of the table is what eight steps leave of its number.          *)
LEMMA RowsAreRight ==
    ASSUME NEW c \in Words, c \subseteq 0..7
    PROVE  Eight(c) = Crc!crc32_tab[Crc!Byte(c)]
<1>1. Right(0, 1)
  <2>1. Crc!Byte({}) = 0
    BY ByteIs
  <2>2. Eight({}) = {}
    <3>1. {} \in Words /\ Shift({}) = {}
      <4>1. {} \in Words
        BY DEF Words
      <4> QED
        BY <4>1, ShiftIs, WordsEqual
    <3> QED
      BY <3>1 DEF Eight
  <2>3. Crc!crc32_tab[0] = {}
    BY RowIs, RowOfNothing DEF Words
  <2>4. \A d \in SUBSET (0..(0 - 1)) : d = {}
    OBVIOUS
  <2>5. ASSUME NEW d \in SUBSET (0..(0 - 1))
        PROVE  Crc!Byte(d) \in 0..(1 - 1) /\ Eight(d) = Crc!crc32_tab[Crc!Byte(d)]
    <3>1. d = {} /\ 0 \in 0..(1 - 1)
      BY <2>4
    <3> QED
      BY <2>1, <2>2, <2>3, <3>1, Zenon
  <2> QED
    BY <2>5 DEF Right
<1>2. /\ \A d \in SUBSET (0..(0 - 1)) : Crc!Byte(d \cup {0}) = 1 + Crc!Byte(d)
      /\ \A d \in SUBSET (0..(1 - 1)) : Crc!Byte(d \cup {1}) = 2 + Crc!Byte(d)
      /\ \A d \in SUBSET (0..(2 - 1)) : Crc!Byte(d \cup {2}) = 4 + Crc!Byte(d)
      /\ \A d \in SUBSET (0..(3 - 1)) : Crc!Byte(d \cup {3}) = 8 + Crc!Byte(d)
      /\ \A d \in SUBSET (0..(4 - 1)) : Crc!Byte(d \cup {4}) = 16 + Crc!Byte(d)
      /\ \A d \in SUBSET (0..(5 - 1)) : Crc!Byte(d \cup {5}) = 32 + Crc!Byte(d)
      /\ \A d \in SUBSET (0..(6 - 1)) : Crc!Byte(d \cup {6}) = 64 + Crc!Byte(d)
      /\ \A d \in SUBSET (0..(7 - 1)) : Crc!Byte(d \cup {7}) = 128 + Crc!Byte(d)
  BY ByteIs
<1>3. /\ Adds(0, 1) /\ Adds(1, 2) /\ Adds(2, 4) /\ Adds(3, 8)
      /\ Adds(4, 16) /\ Adds(5, 32) /\ Adds(6, 64) /\ Adds(7, 128)
  BY <1>2, RowOfBit, Zenon DEF Adds
<1>4. \A k \in 0..7 : \A p \in {1, 2, 4, 8, 16, 32, 64, 128} :
        Right(k, p) /\ Adds(k, p) => Right(k + 1, 2 * p)
  BY RightGrows
<1>5. Right(1, 2) /\ Right(2, 4) /\ Right(3, 8) /\ Right(4, 16)
  BY <1>1, <1>3, <1>4
<1>6. Right(5, 32) /\ Right(6, 64) /\ Right(7, 128) /\ Right(8, 256)
  BY <1>3, <1>4, <1>5
<1> QED
  BY <1>6 DEF Right

(* What the program does with a byte is what the division does with its    *)
(* bits.                                                                   *)
LEMMA FoldDivides ==
    ASSUME NEW r \in Words, NEW c \in 0..255
    PROVE  /\ Crc!Xor(Crc!ShiftRight(r, 8),
                      Crc!crc32_tab[Crc!Byte(Crc!Xor(r, Crc!Bits(c)))])
                = Over(r, Crc!Bits(c))
           /\ Over(r, Crc!Bits(c)) \in Words
<1> DEFINE b == Crc!Bits(c)
           x == Crc!Xor(r, b)
           low == x \cap (0..7)
           high == x \ (0..7)
<1>1. b \in Words /\ b \subseteq 0..7
  <2> DEFINE One(k) == (c \div 2 ^ k) % 2 = 1
  <2>1. ASSUME NEW k \in 8..15
        PROVE  ~One(k)
    <3>1. k \in 0..15
      OBVIOUS
    <3>3. 2 ^ k = Power[k + 1]
      BY <3>1, PowerIs, Zenon
    <3>2. (c \div Power[k + 1]) % 2 # 1
      BY DEF Power
    <3> QED
      BY <3>2, <3>3, Zenon
  <2>2. b = {k \in 0..15 : One(k)}
    BY DEF Crc!Bits
  <2> HIDE DEF b, One
  <2> QED
    BY <2>1, <2>2 DEF Words
<1>2. x \in Words
  BY <1>1, XorWords
<1>3. Over(r, b) = Eight(x)
  BY <1>1, OverIsEight
<1>4. /\ low \in Words /\ low \subseteq 0..7
      /\ high \in Words /\ \A k \in 0..7 : k \notin high
  BY <1>2 DEF Words
<1>5. x = Crc!Xor(low, high)
  BY DEF Crc!Xor
<1>6. Eight(x) = Crc!Xor(Eight(low), Eight(high)) /\ Eight(x) \in Words
  BY <1>2, <1>4, <1>5, EightAdds
<1>7. Eight(low) = Crc!crc32_tab[Crc!Byte(x)]
  <2>1. Crc!Byte(low) = Crc!Byte(x)
    <3>1. \A k \in 0..7 : k \in low <=> k \in x
      OBVIOUS
    <3> HIDE DEF low, x
    <3> QED
      BY <3>1, ByteIs
  <2> QED
    BY <1>4, <2>1, RowsAreRight
<1>8. Eight(high) = Crc!ShiftRight(r, 8)
  <2>1. {k \in high : k >= 8} = {k \in r : k >= 8}
    <3>1. \A k \in high : k \in x /\ k \in 0..31 /\ k \notin 0..7
      BY <1>4 DEF Words
    <3>2. \A k \in r : k \in 0..31
      BY DEF Words
    <3>3. ASSUME NEW k \in 8..31
          PROVE  k \in x <=> k \in r
      BY <1>1, XorIs
    <3>4. \A k \in 8..31 : k \in high <=> k \in x
      OBVIOUS
    <3> HIDE DEF high, x
    <3> QED
      BY <3>1, <3>2, <3>3, <3>4
  <2>2. Crc!ShiftRight(high, 8) = Crc!ShiftRight(r, 8)
    BY <2>1 DEF Crc!ShiftRight
  <2> QED
    BY <1>4, <2>2, EightOfHigh
<1>9. Crc!Xor(Crc!ShiftRight(r, 8), Crc!crc32_tab[Crc!Byte(x)]) =
        Crc!Xor(Eight(low), Eight(high))
  BY <1>7, <1>8 DEF Crc!Xor
<1> QED
  BY <1>3, <1>6, <1>9

-----------------------------------------------------------------------------
(* The run of the program.                                                 *)

(* The division of the bits of m, whose recursion is followed along a run. *)
IsDivision(r, m, n) ==
    r = [j \in 0..n |-> IF j = 0 THEN Crc!Ones
                        ELSE Crc!Divide(r[j - 1], Crc!MessageBit(m, j))]

Leaves(m, n, x) ==
    (\E r : IsDivision(r, m, n)) /\ \A r : IsDivision(r, m, n) => r[n] = x

(* What is known of every function that meets the recursion holds of the   *)
(* one Remainder takes.                                                    *)
LEMMA RemainderIs ==
    ASSUME NEW m, NEW x, Leaves(m, 8 * Len(m), x)
    PROVE  Crc!Remainder(m) = x
<1> DEFINE n == 8 * Len(m)
<1>1. Crc!Remainder(m) = (CHOOSE r : IsDivision(r, m, n))[n]
  BY DEF Crc!Remainder, IsDivision
<1>2. IsDivision(CHOOSE r : IsDivision(r, m, n), m, n)
  BY DEF Leaves
<1> QED
  BY <1>1, <1>2 DEF Leaves

(* Before the first bit.                                                   *)
LEMMA NothingDivided ==
    ASSUME NEW m
    PROVE  Leaves(m, 0, Crc!Ones)
<1> DEFINE bit(j) == Crc!MessageBit(m, j)
           f == [j \in 0..0 |-> Crc!Ones]
<1>1. f[0] = Crc!Ones
  OBVIOUS
<1>2. \A j \in 0..0 : f[j] = IF j = 0 THEN Crc!Ones ELSE Crc!Divide(f[j - 1], bit(j))
  OBVIOUS
<1>3. f = [j \in 0..0 |-> f[j]]
  OBVIOUS
<1> HIDE DEF f
<1>4. IsDivision(f, m, 0)
  BY <1>2, <1>3 DEF IsDivision
<1>5. ASSUME NEW r, IsDivision(r, m, 0)
      PROVE  r[0] = Crc!Ones
  BY <1>5 DEF IsDivision
<1> QED
  BY <1>4, <1>5 DEF Leaves

(* From a bit to the next.                                                 *)
LEMMA DivisionGrows ==
    ASSUME NEW m, NEW n \in Nat, NEW x, Leaves(m, n, x)
    PROVE  Leaves(m, n + 1, Crc!Divide(x, Crc!MessageBit(m, n + 1)))
<1> DEFINE Step(y, j) == Crc!Divide(y, Crc!MessageBit(m, j))
<1>0. \A r, N : IsDivision(r, m, N) <=>
        r = [j \in 0..N |-> IF j = 0 THEN Crc!Ones ELSE Step(r[j - 1], j)]
  BY DEF IsDivision
<1> HIDE DEF Step
<1>1. PICK g : IsDivision(g, m, n)
  BY DEF Leaves
<1>2. \A r : IsDivision(r, m, n) => r[n] = x
  BY DEF Leaves
<1>3. /\ n \in 0..n /\ n \in 0..(n + 1) /\ n + 1 \in 0..(n + 1)
      /\ (n + 1) - 1 = n /\ n + 1 # 0 /\ n # n + 1
  OBVIOUS
<1>4. \E r : IsDivision(r, m, n + 1)
  <2> DEFINE f == [j \in 0..(n + 1) |-> IF j = n + 1 THEN Step(g[n], n + 1) ELSE g[j]]
  <2>1. ASSUME NEW j \in 0..(n + 1)
        PROVE  f[j] = IF j = 0 THEN Crc!Ones ELSE Step(f[j - 1], j)
    <3>1. CASE j = n + 1
      <4>1. f[n + 1] = Step(g[n], n + 1) /\ f[n] = g[n]
        BY <1>3
      <4> HIDE DEF f
      <4> QED
        BY <1>3, <3>1, <4>1
    <3>2. CASE j # n + 1
      <4>1. j \in 0..n /\ (j # 0 => j - 1 \in 0..(n + 1) /\ j - 1 # n + 1)
        BY <3>2
      <4>2. f[j] = g[j] /\ (j # 0 => f[j - 1] = g[j - 1])
        BY <3>2, <4>1
      <4>3. g[j] = IF j = 0 THEN Crc!Ones ELSE Step(g[j - 1], j)
        BY <1>0, <1>1, <4>1
      <4> HIDE DEF f
      <4> QED
        BY <4>2, <4>3
    <3> QED
      BY <3>1, <3>2
  <2>2. f = [j \in 0..(n + 1) |-> f[j]]
    OBVIOUS
  <2> HIDE DEF f
  <2>3. f = [j \in 0..(n + 1) |-> IF j = 0 THEN Crc!Ones ELSE Step(f[j - 1], j)]
    BY <2>1, <2>2
  <2> QED
    BY <1>0, <2>3
<1>5. ASSUME NEW h, IsDivision(h, m, n + 1)
      PROVE  h[n + 1] = Step(x, n + 1)
  <2>1. \A j \in 0..(n + 1) : h[j] = IF j = 0 THEN Crc!Ones ELSE Step(h[j - 1], j)
    BY <1>0, <1>5
  <2> DEFINE f == [j \in 0..n |-> h[j]]
  <2>2. ASSUME NEW j \in 0..n
        PROVE  f[j] = IF j = 0 THEN Crc!Ones ELSE Step(f[j - 1], j)
    <3>1. j \in 0..(n + 1) /\ (j # 0 => j - 1 \in 0..n)
      OBVIOUS
    <3>2. f[j] = h[j] /\ (j # 0 => f[j - 1] = h[j - 1])
      BY <3>1
    <3> HIDE DEF f
    <3> QED
      BY <2>1, <3>1, <3>2
  <2>3. f = [j \in 0..n |-> f[j]] /\ f[n] = h[n]
    BY <1>3
  <2> HIDE DEF f
  <2>4. f = [j \in 0..n |-> IF j = 0 THEN Crc!Ones ELSE Step(f[j - 1], j)]
    BY <2>2, <2>3
  <2>5. h[n] = x
    BY <1>0, <1>2, <2>3, <2>4
  <2> QED
    BY <1>3, <2>1, <2>5
<1> QED
  BY <1>4, <1>5 DEF Leaves, Step

(* Over the eight bits of a byte.                                          *)
LEMMA ByteDivided ==
    ASSUME NEW m, NEW n \in Nat, NEW x, Leaves(m, 8 * n, x)
    PROVE  Leaves(m, 8 * (n + 1), Over(x, Crc!Bits(m[n + 1])))
<1> DEFINE b == Crc!Bits(m[n + 1])
           D(y, j) == Crc!Divide(y, j \in b)
<1>1. ASSUME NEW j \in 0..7, NEW y, Leaves(m, 8 * n + j, y)
      PROVE  Leaves(m, 8 * n + (j + 1), D(y, j))
  <2>1. PICK k \in Nat : k = 8 * n + j
    OBVIOUS
  <2>2. /\ ((k + 1) - 1) % 8 = j /\ 1 + ((k + 1) - 1) \div 8 = n + 1
        /\ k + 1 = 8 * n + (j + 1)
    BY <2>1
  <2>3. Crc!MessageBit(m, k + 1) = (j \in b)
    BY <2>2 DEF Crc!MessageBit
  <2>4. Leaves(m, k + 1, Crc!Divide(y, Crc!MessageBit(m, k + 1)))
    BY <1>1, <2>1, DivisionGrows
  <2>5. Leaves(m, k + 1, D(y, j))
    BY <2>3, <2>4
  <2> HIDE DEF D
  <2> QED
    BY <2>2, <2>5
<1>2. Over(x, b) = D(D(D(D(D(D(D(D(x, 0), 1), 2), 3), 4), 5), 6), 7)
  BY DEF Over
<1>3. 8 * n + 0 = 8 * n /\ 8 * n + 8 = 8 * (n + 1)
  OBVIOUS
<1> HIDE DEF b, D
<1>4. PICK x1, x2, x3, x4 :
        /\ x1 = D(x, 0) /\ x2 = D(x1, 1) /\ x3 = D(x2, 2) /\ x4 = D(x3, 3)
  OBVIOUS
<1>5. PICK x5, x6, x7, x8 :
        /\ x5 = D(x4, 4) /\ x6 = D(x5, 5) /\ x7 = D(x6, 6) /\ x8 = D(x7, 7)
  OBVIOUS
<1>6. Leaves(m, 8 * n + 0, x)
  BY <1>3
<1>7. Leaves(m, 8 * n + 1, x1)
  BY <1>1, <1>4, <1>6
<1>8. Leaves(m, 8 * n + 2, x2)
  BY <1>1, <1>4, <1>7
<1>9. Leaves(m, 8 * n + 3, x3)
  BY <1>1, <1>4, <1>8
<1>10. Leaves(m, 8 * n + 4, x4)
  BY <1>1, <1>4, <1>9
<1>11. Leaves(m, 8 * n + 5, x5)
  BY <1>1, <1>5, <1>10
<1>12. Leaves(m, 8 * n + 6, x6)
  BY <1>1, <1>5, <1>11
<1>13. Leaves(m, 8 * n + 7, x7)
  BY <1>1, <1>5, <1>12
<1>14. Leaves(m, 8 * n + 8, x8)
  BY <1>1, <1>5, <1>13
<1>15. x8 = Over(x, b)
  BY <1>2, <1>4, <1>5
<1> QED
  BY <1>3, <1>14, <1>15 DEF b

(* What the program has after a file's first bytes, and at the end.        *)
CrcInv ==
    /\ file \in Seq(0..255)
    /\ pos \in 1..(Len(file) + 1)
    /\ out \in [crc : Words, printed : BOOLEAN]
    /\ ~out.printed => Leaves(file, 8 * (pos - 1), out.crc)
    /\ out.printed =>
         /\ pos = Len(file) + 1
         /\ \E x : Leaves(file, 8 * Len(file), x) /\ out.crc = Crc!Xor(x, Crc!Ones)

(* At the start,                                                           *)
LEMMA CrcInvInit == Crc!Init => CrcInv
<1> SUFFICES ASSUME Crc!Init
             PROVE  CrcInv
  OBVIOUS
<1>1. file \in Seq(0..255) /\ pos = 1 /\ out = [crc |-> Crc!Ones, printed |-> FALSE]
  BY FilesAssumption DEF Crc!Init
<1>2. Len(file) \in Nat /\ Crc!Ones \in Words
  BY <1>1, LenProperties DEF Crc!Ones, Words
<1>3. out.crc = Crc!Ones /\ ~out.printed /\ out \in [crc : Words, printed : BOOLEAN]
  BY <1>1, <1>2
<1>4. Leaves(file, 8 * (pos - 1), out.crc)
  BY <1>1, <1>3, NothingDivided
<1> QED
  BY <1>1, <1>2, <1>3, <1>4 DEF CrcInv

(* through a byte or the end of the file,                                  *)
LEMMA CrcInvNext ==
    ASSUME CrcInv, [Crc!Next]_<<file, pos, out>>
    PROVE  CrcInv'
<1>0. PICK m \in Seq(0..255) : m = file /\ Len(m) \in Nat
  BY LenProperties DEF CrcInv
<1>1. CASE Crc!Fold /\ ~out.printed
  <2>1. PICK n \in Nat : n = pos - 1 /\ pos = n + 1
    BY <1>0 DEF CrcInv
  <2>2. n + 1 \in 1..Len(m) /\ pos' = (n + 1) + 1 /\ file' = m
    BY <1>0, <1>1, <2>1 DEF Crc!Fold
  <2>3. PICK c \in 0..255 : c = m[n + 1]
    BY <2>2, ElementOfSeq
  <2>4. PICK r \in Words : r = out.crc
    BY DEF CrcInv
  <2> DEFINE y == Crc!Xor(Crc!ShiftRight(r, 8),
                          Crc!crc32_tab[Crc!Byte(Crc!Xor(r, Crc!Bits(c)))])
  <2>5. out' = [out EXCEPT !.crc = y]
    BY <1>0, <1>1, <2>1, <2>3, <2>4 DEF Crc!Fold
  <2>6. y = Over(r, Crc!Bits(c)) /\ y \in Words
    BY FoldDivides
  <2> HIDE DEF y
  <2>7. out'.crc = y /\ out'.printed = out.printed /\ out' \in [crc : Words, printed : BOOLEAN]
    BY <2>5, <2>6 DEF CrcInv
  <2>8. Leaves(m, 8 * n, r)
    BY <1>0, <1>1, <2>1, <2>4 DEF CrcInv
  <2>9. Leaves(m, 8 * (n + 1), y)
    BY <2>3, <2>6, <2>8, ByteDivided
  <2>10. pos' - 1 = n + 1 /\ pos' \in 1..(Len(m) + 1)
    BY <1>0, <2>2
  <2> QED
    BY <1>0, <1>1, <2>2, <2>7, <2>9, <2>10 DEF CrcInv
<1>2. CASE Crc!Fold /\ out.printed
  BY <1>0, <1>2 DEF CrcInv, Crc!Fold
<1>3. CASE Crc!Report
  <2>1. pos = Len(m) + 1 /\ pos' = pos /\ file' = m /\ ~out.printed
        /\ out' = [crc |-> Crc!Xor(out.crc, Crc!Ones), printed |-> TRUE]
    BY <1>0, <1>3 DEF CrcInv, Crc!Report
  <2>2. Leaves(m, 8 * Len(m), out.crc)
    BY <1>0, <2>1 DEF CrcInv
  <2>3. out'.crc = Crc!Xor(out.crc, Crc!Ones) /\ out'.printed
    BY <2>1
  <2>4. out' \in [crc : Words, printed : BOOLEAN]
    <3>1. Crc!Ones \in Words /\ out.crc \in Words
      BY DEF CrcInv, Crc!Ones, Words
    <3> QED
      BY <2>1, <3>1, XorWords
  <2> QED
    BY <1>0, <2>1, <2>2, <2>3, <2>4 DEF CrcInv
<1>4. CASE UNCHANGED <<file, pos, out>>
  BY <1>4 DEF CrcInv
<1> QED
  BY <1>1, <1>2, <1>3, <1>4 DEF Crc!Next, Crc!vars

(* and what that says of the result.                                       *)
LEMMA CrcInvDivides == CrcInv => Crc!CrcIsDivision
<1> SUFFICES ASSUME CrcInv, out.printed
             PROVE  out.crc = Crc!Xor(Crc!Ones, Crc!Remainder(file))
  BY DEF Crc!CrcIsDivision
<1>1. PICK x : Leaves(file, 8 * Len(file), x) /\ out.crc = Crc!Xor(x, Crc!Ones)
  BY DEF CrcInv
<1>2. Crc!Remainder(file) = x
  BY <1>1, RemainderIs
<1> QED
  BY <1>1, <1>2 DEF Crc!Xor

(* Hw10: for every file, what calculate_crc has folded with its table is   *)
(* what division bit by bit by the polynomial of CRC-32 leaves.            *)
THEOREM FileIsDivided == ProgramsSpec => []CrcIsDivision
<1> DEFINE Run == program = "crc" => CrcInv
<1>1. ProgramsInit => Run
  BY CrcInvInit DEF ProgramsInit
<1>2. Run /\ [ProgramsNext]_programVars => Run'
  <2> SUFFICES ASSUME Run, [ProgramsNext]_programVars, program' = "crc"
               PROVE  CrcInv'
    OBVIOUS
  <2>1. program = "crc" /\ [Crc!Next]_<<file, pos, out>>
    BY DEF ProgramsNext, FileNext, programVars
  <2> QED
    BY <2>1, CrcInvNext
<1>3. Run => CrcIsDivision
  BY CrcInvDivides DEF CrcIsDivision
<1> QED
  BY <1>1, <1>2, <1>3, PTL DEF ProgramsSpec

-----------------------------------------------------------------------------
(* The archive check.  Where the directory of an archive begins, and where *)
(* it ends.                                                                *)
DirStart(s) == s.before + 2 * Len(s.names)
DirEnd(s) == DirStart(s) + Len(s.directory)

(* What an archive is made of,                                             *)
LEMMA ShapeIs ==
    ASSUME NEW s \in Archives
    PROVE  /\ s.before \in Nat /\ s.comment \in Nat /\ s.names \in Seq(Names)
           /\ Len(s.names) \in Nat /\ Len(s.directory) \in Nat
           /\ DirStart(s) \in Nat /\ DirEnd(s) \in Nat
           /\ Len(s.names) = 0 <=> Len(s.directory) = 0
           /\ Len(s.directory) # 0 => s.directory[1].kind = "none"
<1> DEFINE Kinds == [kind : {"none", "record"}, arg : Names]
<1>1. /\ s.before \in Nat /\ s.comment \in Nat /\ s.names \in Seq(Names)
      /\ s.directory \in Seq(Kinds)
  BY ArchivesAssumption
<1>2. /\ s.names = <<>> <=> s.directory = <<>>
      /\ s.directory # <<>> => s.directory[1].kind = "none"
  BY ArchivesAssumption
<1> HIDE DEF Kinds
<1>3. Len(s.names) \in Nat /\ Len(s.directory) \in Nat
  BY <1>1, LenProperties
<1>4. /\ Len(s.names) = 0 <=> s.names = <<>>
      /\ Len(s.directory) = 0 <=> s.directory = <<>>
  BY <1>1, EmptySeq
<1> QED
  BY <1>1, <1>2, <1>3, <1>4 DEF DirStart, DirEnd

(* what is at each place,                                                  *)
LEMMA PlaceIs ==
    ASSUME NEW s \in Archives, NEW p \in Int, p > 0, p <= DirEnd(s) + 1 + s.comment
    PROVE  LET place == Archive!Archive(s).places[p]
           IN  /\ p > DirEnd(s) + 1 => place.kind = "none"
               /\ p = DirEnd(s) + 1 => place.kind = "end" /\ place.arg = Len(s.directory)
               /\ p = DirStart(s) + 1 /\ Len(s.names) # 0 => place.kind = "none"
               /\ p <= s.before => place.kind = "none"
               /\ \A j \in 0..(Len(s.names) - 1) :
                    /\ p = DirStart(s) - 2 * j => place.kind = "none"
                    /\ p = DirStart(s) - 2 * j - 1 =>
                         place.kind = "record" /\ place.arg = s.names[Len(s.names) - j]
<1> DEFINE b == s.before
           n == Len(s.names)
           d == Len(s.directory)
           front == DirStart(s)
           last == DirEnd(s)
           place == Archive!Archive(s).places[p]
<1>1. /\ b \in Nat /\ n \in Nat /\ d \in Nat /\ front = b + 2 * n /\ last = front + d
      /\ s.comment \in Nat /\ (n = 0 <=> d = 0)
      /\ d # 0 => s.directory[1].kind = "none"
  BY ShapeIs DEF DirStart, DirEnd
<1> DEFINE E == p \in (b + 1)..front /\ (p - b) % 2 = 1
           D == p \in (front + 1)..last
           L == p = last + 1
           entry == Archive!Record(s.names[(p - b + 1) \div 2])
           end == Archive!EndOfCentral(d)
<1>2. place = CASE E -> entry [] D -> s.directory[p - front] [] L -> end
                [] OTHER -> Archive!Nothing
  <2>1. p \in 1..(last + 1 + s.comment)
    BY <1>1
  <2> QED
    BY <2>1 DEF Archive!Archive, DirStart, DirEnd
<1>3. ~(E /\ D) /\ ~(E /\ L) /\ ~(D /\ L)
  BY <1>1
<1>4. Archive!Nothing.kind = "none" /\ end.kind = "end" /\ end.arg = d
      /\ entry.kind = "record" /\ entry.arg = s.names[(p - b + 1) \div 2]
  BY DEF Archive!Nothing, Archive!EndOfCentral, Archive!Record
<1> HIDE DEF place, end, entry
<1>5. /\ E => place = entry
      /\ D => place = s.directory[p - front]
      /\ L => place = end
      /\ ~E /\ ~D /\ ~L => place = Archive!Nothing
  <2> HIDE DEF E, D, L
  <2> QED
    BY <1>2, <1>3
<1> HIDE DEF front, last, n, d, b
<1>6. p > last + 1 => place.kind = "none"
  BY <1>1, <1>4, <1>5
<1>7. p = last + 1 => place.kind = "end" /\ place.arg = d
  BY <1>4, <1>5
<1>8. p = front + 1 /\ n # 0 => place.kind = "none"
  <2>1. p = front + 1 /\ n # 0 => D /\ p - front = 1
    BY <1>1
  <2> QED
    BY <1>1, <1>5, <2>1
<1>9. p <= b => place.kind = "none"
  BY <1>1, <1>4, <1>5
<1>10. ASSUME NEW j \in 0..(n - 1), p = front - 2 * j
       PROVE  place.kind = "none"
  <2>1. p - b = 2 * (n - j) /\ p <= front
    BY <1>1, <1>10
  <2>2. ~E /\ ~D /\ ~L
    BY <1>1, <2>1
  <2> QED
    BY <1>4, <1>5, <2>2
<1>11. ASSUME NEW j \in 0..(n - 1), p = front - 2 * j - 1
       PROVE  place.kind = "record" /\ place.arg = s.names[n - j]
  <2>1. p - b = 2 * (n - j) - 1 /\ p <= front /\ p > b
    BY <1>1, <1>11
  <2>2. E /\ (p - b + 1) \div 2 = n - j
    BY <1>1, <2>1
  <2> QED
    BY <1>4, <1>5, <2>2
<1> QED
  BY <1>6, <1>7, <1>8, <1>9, <1>10, <1>11 DEF place, front, last, n, d, b

(* and how many places there are.                                          *)
LEMMA LayoutIs ==
    ASSUME NEW s \in Archives
    PROVE  /\ Archive!Archive(s).names = s.names
           /\ Len(Archive!Archive(s).places) = DirEnd(s) + 1 + s.comment
<1> DEFINE m == DirEnd(s) + 1 + s.comment
           q == Archive!Archive(s).places
           S == {q[p] : p \in 1..m}
<1>1. m \in Nat
  BY ShapeIs
<1>2. q = [p \in 1..m |-> q[p]]
  BY DEF Archive!Archive, DirEnd, DirStart
<1>3. Archive!Archive(s).names = s.names
  BY DEF Archive!Archive
<1> HIDE DEF q, m
<1>4. q \in Seq(S)
  BY <1>1, <1>2
<1>5. DOMAIN q = 1..m
  BY <1>2
<1> HIDE DEF S
<1>6. Len(q) = m
  BY <1>1, <1>4, <1>5, LenProperties
<1> QED
  BY <1>3, <1>6 DEF q, m

(* How far the scan is, at place p with o listed: behind the directory     *)
(* with nothing listed, or below it.  There the entries that have been     *)
(* listed lie above p, and the next one at p or below.                     *)
Scanned(s, p, o) ==
    \/ /\ p > DirEnd(s) /\ p <= DirEnd(s) + 1 + s.comment
       /\ o = <<>>
    \/ /\ Len(s.names) # 0
       /\ Len(o) <= Len(s.names)
       /\ \A k \in 1..Len(o) : o[k] = s.names[Len(s.names) + 1 - k]
       /\ p <= DirStart(s) - 2 * Len(o) + (IF Len(o) = 0 THEN 1 ELSE 0)
       /\ Len(o) < Len(s.names) => p >= DirStart(s) - 2 * Len(o) - 1

(* An empty archive is scanned as far as its end record.                   *)
ArchiveInv ==
    /\ pos \in Int /\ out \in Seq(Names)
    /\ \E s \in Archives : file = Archive!Archive(s) /\ Scanned(s, pos, out)

(* At the start nothing has been listed, and all is behind the directory.  *)
LEMMA ArchiveInvInit == Archive!Init => ArchiveInv
<1> SUFFICES ASSUME Archive!Init
             PROVE  ArchiveInv
  OBVIOUS
<1>1. PICK s \in Archives : file = Archive!Archive(s)
  BY DEF Archive!Init
<1>2. pos = DirEnd(s) + 1 + s.comment /\ out = <<>>
  BY <1>1, LayoutIs DEF Archive!Init
<1>3. out \in Seq(Names)
  BY <1>2
<1>4. DirEnd(s) \in Nat /\ s.comment \in Nat
  BY ShapeIs
<1>5. Scanned(s, pos, out)
  BY <1>2, <1>4 DEF Scanned
<1> QED
  BY <1>1, <1>2, <1>3, <1>4, <1>5 DEF ArchiveInv

(* What the second part of Scanned says of a place, without the archive.   *)
LEMMA BelowDirectory ==
    ASSUME NEW b \in Nat, NEW n \in Nat, NEW j \in Nat, NEW p \in Int, NEW front,
           front = b + 2 * n, j <= n,
           p <= front - 2 * j + (IF j = 0 THEN 1 ELSE 0),
           j < n => p >= front - 2 * j - 1
    PROVE  \/ j < n /\ p = front - 2 * j - 1
           \/ j < n /\ p = front - 2 * j
           \/ j < n /\ p = front + 1 /\ j = 0
           \/ j = n /\ n # 0 /\ p <= b
           \/ n = 0
  OBVIOUS

(* A step of the scan: at an entry, behind one, in front of the first one, *)
(* at the end record, and where the directory has been jumped over.        *)
LEMMA ArchiveInvNext ==
    ASSUME ArchiveInv, Archive!EndRecord \/ Archive!Entry \/ Archive!Other
    PROVE  ArchiveInv' /\ (Archive!HasEntries => pos' < pos)
<1>1. PICK s \in Archives : file = Archive!Archive(s) /\ Scanned(s, pos, out)
  BY DEF ArchiveInv
<1> DEFINE names == s.names
           n == Len(s.names)
           d == Len(s.directory)
           c == s.comment
           j == Len(out)
           b == s.before
           front == DirStart(s)
           last == DirEnd(s)
           place == file.places[pos]
<1>2. /\ n \in Nat /\ b \in Nat /\ d \in Nat /\ c \in Nat
      /\ front = b + 2 * n /\ last = front + d
      /\ (n = 0 <=> d = 0)
  BY ShapeIs DEF DirStart, DirEnd
<1>3. j \in Nat /\ out \in Seq(Names) /\ pos \in Int /\ names \in Seq(Names)
  BY ShapeIs, LenProperties DEF ArchiveInv
<1>4. pos > 0 /\ file' = file
  BY DEF Archive!EndRecord, Archive!Entry, Archive!Other
<1>5. Archive!HasEntries <=> n # 0
  <2>1. file.names = names
    BY <1>1, LayoutIs
  <2>2. n = 0 <=> names = <<>>
    BY <1>3, EmptySeq
  <2> QED
    BY <2>1, <2>2 DEF Archive!HasEntries
<1>6. \/ /\ pos > last /\ pos <= last + 1 + c
         /\ out = <<>>
      \/ /\ n # 0 /\ j <= n
         /\ \A k \in 1..j : out[k] = names[n + 1 - k]
         /\ pos <= front - 2 * j + (IF j = 0 THEN 1 ELSE 0)
         /\ j < n => pos >= front - 2 * j - 1
  BY <1>1 DEF Scanned
<1>7. ASSUME NEW o, NEW p,
             \/ /\ p > last /\ p <= last + 1 + c
                /\ o = <<>>
             \/ /\ n # 0 /\ Len(o) <= n
                /\ \A k \in 1..Len(o) : o[k] = names[n + 1 - k]
                /\ p <= front - 2 * Len(o) + (IF Len(o) = 0 THEN 1 ELSE 0)
                /\ Len(o) < n => p >= front - 2 * Len(o) - 1
      PROVE  Scanned(s, p, o)
  BY <1>7 DEF Scanned
<1>8. ASSUME NEW o \in Seq(Names), NEW p \in Int, pos' = p, out' = o, Scanned(s, p, o)
      PROVE  ArchiveInv'
  BY <1>1, <1>4, <1>8 DEF ArchiveInv
<1>9. ASSUME pos <= last + 1 + c
      PROVE  /\ pos > last + 1 => place.kind = "none"
             /\ pos = last + 1 => place.kind = "end" /\ place.arg = d
             /\ pos = front + 1 /\ n # 0 => place.kind = "none"
             /\ pos <= b => place.kind = "none"
             /\ \A i \in 0..(n - 1) :
                  /\ pos = front - 2 * i => place.kind = "none"
                  /\ pos = front - 2 * i - 1 =>
                       place.kind = "record" /\ place.arg = names[n - i]
  <2>1. place = Archive!Archive(s).places[pos]
    BY <1>1
  <2>2. pos \in Int /\ pos > 0 /\ pos <= DirEnd(s) + 1 + s.comment
    BY <1>3, <1>4, <1>9
  <2> HIDE DEF place
  <2> QED
    BY <2>1, <2>2, PlaceIs
<1>10. place.kind = "none" => pos' = pos - 1 /\ out' = out
  BY DEF Archive!EndRecord, Archive!Entry, Archive!Other
<1>11. place.kind = "end" => pos' = pos - place.arg /\ out' = out
  BY DEF Archive!EndRecord, Archive!Entry, Archive!Other
<1>12. place.kind = "record" => pos' = pos - 1 /\ out' = Append(out, place.arg)
  BY DEF Archive!EndRecord, Archive!Entry, Archive!Other
<1> HIDE DEF names, n, d, c, j, b, front, last, place
<1>13. CASE pos > last
  <2>1. pos <= last + 1 + c /\ out = <<>> /\ j = 0
    BY <1>2, <1>3, <1>6, <1>13 DEF j
  <2>2. CASE pos > last + 1
    <3>1. pos' = pos - 1 /\ out' = out /\ pos' < pos /\ pos' \in Int
      BY <1>3, <1>9, <1>10, <2>1, <2>2
    <3>2. pos' > last /\ pos' <= last + 1 + c
      BY <1>2, <1>3, <2>1, <2>2, <3>1
    <3>3. Scanned(s, pos', out')
      BY <1>7, <2>1, <3>1, <3>2
    <3> QED
      BY <1>3, <1>8, <3>1, <3>3
  <2>3. CASE pos = last + 1
    <3>1. pos' = pos - d /\ out' = out
      BY <1>9, <1>11, <2>1, <2>3
    <3>2. pos' \in Int /\ pos' = front + 1 /\ (n # 0 => pos' < pos)
      BY <1>2, <1>3, <2>3, <3>1
    <3>3. CASE n = 0
      <4>1. pos' > last /\ pos' <= last + 1 + c
        BY <1>2, <3>2, <3>3
      <4> QED
        BY <1>7, <1>3, <1>5, <1>8, <2>1, <3>1, <3>2, <3>3, <4>1
    <3>4. CASE n # 0
      <4>1. /\ Len(out') = 0 /\ 0 <= n
            /\ pos' <= front - 2 * 0 + 1 /\ pos' >= front - 2 * 0 - 1
        BY <1>2, <2>1, <3>1, <3>2 DEF j
      <4>2. Scanned(s, pos', out')
        BY <1>7, <3>4, <4>1
      <4> QED
        BY <1>3, <1>8, <3>1, <3>2, <3>4, <4>2
    <3> QED
      BY <3>3, <3>4
  <2> QED
    BY <1>2, <1>3, <1>13, <2>2, <2>3
<1>14. CASE pos <= last
  <2>1. /\ n # 0 /\ j <= n
        /\ \A k \in 1..j : out[k] = names[n + 1 - k]
        /\ pos <= front - 2 * j + (IF j = 0 THEN 1 ELSE 0)
        /\ j < n => pos >= front - 2 * j - 1
    BY <1>2, <1>3, <1>6, <1>14
  <2>2. pos <= last + 1 + c
    BY <1>2, <1>3, <1>14
  <2>3. \/ j < n /\ pos = front - 2 * j - 1
        \/ j < n /\ pos = front - 2 * j
        \/ j < n /\ pos = front + 1 /\ j = 0
        \/ j = n /\ pos <= b
    BY <1>2, <1>3, <2>1, BelowDirectory
  <2>4. CASE j < n /\ pos = front - 2 * j - 1
    <3>1. j \in 0..(n - 1) /\ n - j \in 1..n
      BY <1>2, <1>3, <2>4
    <3>2. place.kind = "record" /\ place.arg = names[n - j]
      BY <1>9, <2>2, <2>4, <3>1
    <3>3. pos' = pos - 1 /\ out' = Append(out, names[n - j])
      BY <1>12, <3>2
    <3>4. names[n - j] \in Names
      BY <1>3, <3>1, ElementOfSeq DEF n, names
    <3>5. /\ out' \in Seq(Names) /\ Len(out') = j + 1
          /\ \A k \in 1..j : out'[k] = out[k]
          /\ out'[j + 1] = names[n - j]
      BY <1>3, <3>3, <3>4, AppendProperties DEF j
    <3>6. ASSUME NEW k \in 1..(j + 1)
          PROVE  out'[k] = names[n + 1 - k]
      <4>1. CASE k = j + 1
        <5>1. n + 1 - k = n - j
          BY <1>2, <1>3, <4>1
        <5> QED
          BY <3>5, <4>1, <5>1
      <4>2. CASE k # j + 1
        <5>1. k \in 1..j
          BY <1>3, <4>2
        <5> QED
          BY <2>1, <3>5, <5>1
      <4> QED
        BY <4>1, <4>2
    <3>7. /\ pos' \in Int /\ pos' < pos /\ j + 1 <= n
          /\ pos' <= front - 2 * (j + 1) + (IF j + 1 = 0 THEN 1 ELSE 0)
          /\ j + 1 < n => pos' >= front - 2 * (j + 1) - 1
      BY <1>2, <1>3, <2>4, <3>3
    <3>8. Scanned(s, pos', out')
      BY <1>7, <2>1, <3>5, <3>6, <3>7
    <3> QED
      BY <1>8, <3>5, <3>7, <3>8
  <2>5. CASE \/ j < n /\ pos = front - 2 * j
             \/ j < n /\ pos = front + 1 /\ j = 0
             \/ j = n /\ pos <= b
    <3>1. place.kind = "none"
      <4>1. j < n => j \in 0..(n - 1)
        BY <1>2, <1>3
      <4> QED
        BY <1>9, <2>1, <2>2, <2>5, <4>1
    <3>2. pos' = pos - 1 /\ out' = out
      BY <1>10, <3>1
    <3>3. /\ pos' \in Int /\ pos' < pos
          /\ pos' <= front - 2 * j + (IF j = 0 THEN 1 ELSE 0)
          /\ j < n => pos' >= front - 2 * j - 1
      BY <1>2, <1>3, <2>1, <2>5, <3>2
    <3>4. Scanned(s, pos', out')
      BY <1>7, <2>1, <3>2, <3>3 DEF j
    <3> QED
      BY <1>3, <1>8, <3>2, <3>3, <3>4
  <2> QED
    BY <2>3, <2>4, <2>5
<1> QED
  BY <1>2, <1>3, <1>13, <1>14

(* What that says of the list.                                             *)
LEMMA ArchiveInvLists == ArchiveInv => Archive!LastFirst
<1> SUFFICES ASSUME ArchiveInv
             PROVE  Archive!LastFirst
  OBVIOUS
<1>1. PICK s \in Archives : file = Archive!Archive(s) /\ Scanned(s, pos, out)
  BY DEF ArchiveInv
<1> DEFINE n == Len(s.names)
           j == Len(out)
           front == DirStart(s)
           last == DirEnd(s)
<1>2. n \in Nat /\ last \in Nat /\ front = s.before + 2 * n /\ s.before \in Nat
  BY ShapeIs DEF DirStart
<1>3. file.names = s.names /\ j \in Nat /\ pos \in Int
  BY <1>1, LayoutIs, LenProperties DEF ArchiveInv
<1>4. \/ pos > last /\ out = <<>>
      \/ /\ j <= n
         /\ \A k \in 1..j : out[k] = s.names[n + 1 - k]
         /\ j < n => pos >= front - 2 * j - 1
  BY <1>1 DEF Scanned
<1>5. Archive!LastFirst <=> /\ j <= n
                            /\ \A k \in 1..j : out[k] = s.names[n + 1 - k]
                            /\ pos <= 0 => j = n
  BY <1>3 DEF Archive!LastFirst
<1>6. out = <<>> => j = 0
  BY DEF j
<1> HIDE DEF n, j, front, last
<1>7. CASE pos > last /\ out = <<>>
  BY <1>2, <1>3, <1>5, <1>6, <1>7
<1>8. CASE /\ j <= n
           /\ \A k \in 1..j : out[k] = s.names[n + 1 - k]
           /\ j < n => pos >= front - 2 * j - 1
  <2>1. pos <= 0 => j = n
    BY <1>2, <1>3, <1>8
  <2> QED
    BY <1>5, <1>8, <2>1
<1> QED
  BY <1>4, <1>7, <1>8

(* What holds of a run of the archive check.                               *)
ArchiveRun == program = "archive" => ArchiveInv

(* It holds at the start,                                                  *)
LEMMA ArchiveRunInit == ProgramsInit => ArchiveRun
  BY ArchiveInvInit DEF ProgramsInit, ArchiveRun

(* and after each step, whichever program runs.                            *)
LEMMA ArchiveRunNext ==
    ASSUME ArchiveRun, [ProgramsNext]_programVars
    PROVE  ArchiveRun'
<1>1. program' = program
  BY DEF ProgramsNext, programVars
<1>2. CASE program = "archive"
  <2>1. Archive!Next \/ UNCHANGED <<file, pos, out>>
    BY <1>2 DEF ProgramsNext, FileNext, programVars
  <2>2. CASE Archive!EndRecord \/ Archive!Entry \/ Archive!Other
    BY <1>2, <2>2, ArchiveInvNext DEF ArchiveRun
  <2>3. CASE UNCHANGED <<file, pos, out>>
    BY <1>2, <2>3 DEF ArchiveRun, ArchiveInv
  <2> QED
    BY <2>1, <2>2, <2>3 DEF Archive!Next
<1>3. CASE program # "archive"
  BY <1>1, <1>3 DEF ArchiveRun
<1> QED
  BY <1>2, <1>3

(* Hw01: at any time the program is at a place of the archive that what it *)
(* has listed says.                                                        *)
THEOREM ScanInvariance == ProgramsSpec => []ArchiveRun
<1>1. ArchiveRun /\ [ProgramsNext]_programVars => ArchiveRun'
  BY ArchiveRunNext
<1> QED
  BY <1>1, ArchiveRunInit, PTL DEF ProgramsSpec

(* Hw01: whatever lies in front of an archive, in its comment and, past    *)
(* its beginning, in its directory, the names that have been listed are    *)
(* those of its last entries, the last one first; behind the loop they are *)
(* all there.                                                              *)
THEOREM EntriesInOrder == ProgramsSpec => []EntriesAreListed
<1>1. ArchiveRun => EntriesAreListed
  BY ArchiveInvLists DEF EntriesAreListed, ArchiveRun
<1> QED
  BY <1>1, ScanInvariance, PTL

(* Hw01: in an archive with entries no turn of the loop stands still: each *)
(* step of the scan, the jump over the directory too, brings the program   *)
(* nearer to the start of the file.  (A formula of the form [][A]_v would  *)
(* allow a step that changes nothing, so it is stated of ProgramsNext.)    *)
THEOREM ScanAdvances ==
    ASSUME ArchiveRun, ProgramsNext, program = "archive", Archive!HasEntries,
           pos > 0
    PROVE  pos' < pos
<1>1. Archive!Next
  BY DEF ProgramsNext, FileNext
<1>2. Archive!EndRecord \/ Archive!Entry \/ Archive!Other
  <2>1. ~(pos <= 0)
    BY DEF ArchiveRun, ArchiveInv
  <2> QED
    BY <1>1, <2>1 DEF Archive!Next
<1> QED
  BY <1>2, ArchiveInvNext DEF ArchiveRun

=============================================================================
