------------------------------ MODULE Programs ------------------------------
(***************************************************************************)
(* The programs that go through one input, each by itself: a behaviour is  *)
(* a run of one of them on one file, one answer or one conversation.       *)
(***************************************************************************)
EXTENDS TelehackClient, WeatherBuffer

CONSTANTS
    Names,       \* Hw01: the names of entries,
    Archives,    \* and archives, which ArchiveCheck lays out
    Sources,     \* Hw02: files and their encodings
    Codes,       \* Hw03: what a text is made of,
    Blank,       \* one that is no letter,
    Texts,       \* and files
    Messages     \* Hw10: files

ASSUME FilesAssumption ==
    /\ Sources \subseteq [encoding : {"cp1251", "iso-8859-5", "koi8-r"},
                          bytes : Seq(0..255)]
    /\ Texts \subseteq Seq(Codes)
    /\ Messages \subseteq Seq(0..255)

(* What an archive may be made of.  A directory does not begin with what   *)
(* looks like an entry, and it is empty if there are none.                 *)
ASSUME ArchivesAssumption ==
    /\ Archives \subseteq [before : Nat, names : Seq(Names), comment : Nat,
                           directory : Seq([kind : {"none", "record"}, arg : Names])]
    /\ \A s \in Archives :
         /\ s.names = <<>> <=> s.directory = <<>>
         /\ s.directory # <<>> => s.directory[1].kind = "none"

VARIABLES program, file, pos, out

Archive == INSTANCE ArchiveCheck

Text == INSTANCE EncodingConverter

Count == INSTANCE WordCount

Crc == INSTANCE Crc32

-----------------------------------------------------------------------------

NoFile == file = <<>> /\ pos = 0 /\ out = <<>>
NoTalk ==
    /\ pc = "ended" /\ peer = "open" /\ ok = FALSE /\ split = FALSE
    /\ unsent = <<>> /\ arrived = <<>> /\ printed = <<>>

ProgramsInit ==
    /\ BufferInit
    /\ \/ program = "telehack" /\ Init /\ NoFile
       \/ program = "weather" /\ NoTalk /\ NoFile
       \/ program = "archive" /\ NoTalk /\ Archive!Init
       \/ program = "encoding" /\ NoTalk /\ Text!Init
       \/ program = "words" /\ NoTalk /\ Count!Init
       \/ program = "crc" /\ NoTalk /\ Crc!Init

FileNext ==
    \/ program = "archive" /\ Archive!Next
    \/ program = "encoding" /\ Text!Next
    \/ program = "words" /\ Count!Next
    \/ program = "crc" /\ Crc!Next

ProgramsNext ==
    \/ program = "telehack" /\ Next /\ UNCHANGED <<program, file, pos, out, buffer>>
    \/ program = "weather" /\ BufferNext /\ UNCHANGED <<program, file, pos, out, vars>>
    \/ FileNext /\ UNCHANGED <<program, vars, buffer>>

programVars == <<program, file, pos, out, vars, buffer>>

ProgramsSpec == ProgramsInit /\ [][ProgramsNext]_programVars

(* A program that goes through a file goes on by itself; for the telnet    *)
(* client as in FairSpec.                                                  *)
ProgramsFairSpec ==
    /\ ProgramsSpec
    /\ WF_programVars(FileNext /\ UNCHANGED <<program, vars, buffer>>)
    /\ WF_programVars(program = "telehack" /\ Client
                        /\ UNCHANGED <<program, file, pos, out, buffer>>)
    /\ WF_programVars(program = "telehack" /\ Arrive
                        /\ UNCHANGED <<program, file, pos, out, buffer>>)

-----------------------------------------------------------------------------
(* The properties of the programs, each of its own runs.                   *)

(* Hw01: what is listed are the entries, the last one first, and of the    *)
(* directory nothing is taken for one.                                     *)
EntriesAreListed == program = "archive" => Archive!LastFirst

(* Hw01: and the scan comes to the start of the file, whatever it jumps    *)
(* over -- unless the archive is empty: the jump over a directory of size  *)
(* 0 leads back to the end record, for ever.                               *)
ScanEnds == program = "archive" /\ Archive!HasEntries => <>(pos <= 0)

(* Hw02: what is written is the text, in UTF-8, and nothing is confused.   *)
TextIsKept == program = "encoding" => Text!TextIsKept

(* Hw03: each word is counted as often as it occurs.                       *)
CountsExact == program = "words" => Count!CountsExact

(* Hw10: the result is the CRC-32 of the file.                             *)
CrcIsDivision == program = "crc" => Crc!CrcIsDivision

=============================================================================
