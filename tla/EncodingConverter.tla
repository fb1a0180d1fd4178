------------------------- MODULE EncodingConverter -------------------------
(***************************************************************************)
(* Hw02: main of encoding_converter reads a file byte by byte, looks each  *)
(* byte up in the table of the file's encoding and writes the symbol in    *)
(* UTF-8; a symbol that does not fit into 12 bits is dropped.              *)
(***************************************************************************)
EXTENDS Integers, Sequences, SequencesExt

CONSTANT Sources       \* files: [encoding, bytes]

VARIABLES
    file,    \* the file
    pos,     \* where in it the program is
    out      \* the bytes written

Encodings == {"cp1251", "iso-8859-5", "koi8-r"}

-----------------------------------------------------------------------------
(* The tables.  All of them are ASCII up to 127.                           *)

Cp1251From128 ==
    <<\h402, \h403, \h201A, \h453, \h201E, \h2026, \h2020, \h2021,
      \h20AC, \h2030, \h409, \h2039, \h40A, \h40C, \h40B, \h40F,
      \h452, \h2018, \h2019, \h201C, \h201D, \h2022, \h2013, \h2014,
      0, \h2122, \h459, \h203A, \h45A, \h45C, \h45B, \h45F,
      \hA0, \h40E, \h45E, \h408, \hA4, \h490, \hA6, \hA7,
      \h401, \hA9, \h404, \hAB, \hAC, \hAD, \hAE, \h407,
      \hB0, \hB1, \h406, \h456, \h491, \hB5, \hB6, \hB7,
      \h451, \h2116, \h454, \hBB, \h458, \h405, \h455, \h457>>

cp_1252_symbols == [c \in 0..255 |->
    CASE c < 128 -> c [] c \in 128..191 -> Cp1251From128[c - 127]
      [] OTHER -> (\h410 + c) - 192]

iso8859_5_symbols == [c \in 0..255 |->
    CASE c <= \hA0 \/ c = \hAD -> c [] c = \hF0 -> \h2116 [] c = \hFD -> \hA7
      [] OTHER -> (\h400 + c) - \hA0]

Koi8From128 ==
    <<\h2500, \h2502, \h250C, \h2510, \h2514, \h2518, \h251C, \h2524,
      \h252C, \h2534, \h253C, \h2580, \h2584, \h2588, \h258C, \h2590,
      \h2591, \h2592, \h2593, \h2320, \h25A0, \h2219, \h221A, \h2248,
      \h2264, \h2265, \hA0, \h2321, \hB0, \hB2, \hB7, \hF7,
      \h2550, \h2551, \h2552, \h451, \h2553, \h2554, \h2555, \h2556,
      \h2557, \h2558, \h2559, \h255A, \h255B, \h255C, \h255D, \h255E,
      \h255F, \h2560, \h2561, \h401, \h2562, \h2563, \h2564, \h2565,
      \h2566, \h2567, \h2568, \h2569, \h256A, \h256B, \h256C, \hA9>>

(* The letters in the order of KOI8, counted from a.                       *)
Koi8Letters ==
    <<30, 0, 1, 22, 4, 5, 20, 3, 21, 8, 9, 10, 11, 12, 13, 14,
      15, 31, 16, 17, 18, 19, 6, 2, 28, 27, 7, 24, 29, 25, 23, 26>>

koi8_symbols == [c \in 0..255 |->
    CASE c < 128 -> c [] c \in 128..191 -> Koi8From128[c - 127]
      [] c \in 192..223 -> \h430 + Koi8Letters[c - 191]
      [] OTHER -> \h410 + Koi8Letters[c - 223]]

converter == [e \in Encodings |-> CASE e = "cp1251" -> cp_1252_symbols
                                    [] e = "iso-8859-5" -> iso8859_5_symbols
                                    [] e = "koi8-r" -> koi8_symbols]

-----------------------------------------------------------------------------
(* Seeded faults, not part of the program.                                 *)

(* Symbols of more than 12 bits go into two bytes as well.                 *)
utf8TooWide(symbol) ==
    IF symbol < 128 THEN symbol
    ELSE \hC000 + ((symbol \div 64) % 64) * 256 + 128 + (symbol % 64)

-----------------------------------------------------------------------------

(* The two bytes of a symbol are packed into one number.  From 0x800 on    *)
(* that is no UTF-8, but no table has such a symbol.                       *)
unicode_to_utf8(symbol) ==
    IF symbol < 128 THEN symbol
    ELSE IF symbol < \h1000
    THEN \hC000 + (symbol \div 64) * 256 + 128 + (symbol % 64)
    ELSE -1

(* The number is taken apart; its leading zero bytes are not written.      *)
Written(utf) ==
    LET byte(j) == (utf \div 256 ^ j) % 256
        put(j) == IF byte(j) # 0 \/ j = 0 THEN <<byte(j)>> ELSE <<>>
    IN  put(3) \o put(2) \o put(1) \o put(0)

Converted(e, c) ==
    LET utf == unicode_to_utf8(converter[e][c])
    IN  IF utf = -1 THEN <<>> ELSE Written(utf)

Init == file \in Sources /\ pos = 1 /\ out = <<>>

Convert ==
    /\ pos <= Len(file.bytes)
    /\ out' = out \o Converted(file.encoding, file.bytes[pos])
    /\ pos' = pos + 1
    /\ UNCHANGED file

Next == Convert \/ (pos > Len(file.bytes) /\ UNCHANGED <<file, pos, out>>)

Spec == Init /\ [][Next]_<<file, pos, out>>

-----------------------------------------------------------------------------
(* Properties.                                                             *)

(* UTF-8, for what fits into two bytes.                                    *)
Utf8(c) == IF c < 128 THEN <<c>> ELSE <<192 + c \div 64, 128 + (c % 64)>>

Symbols == [k \in 1..(pos - 1) |-> converter[file.encoding][file.bytes[k]]]

(* What has been written is UTF-8, and it is the symbols of the file in    *)
(* their order; those above 0xFFF -- dashes, quotes, the numero sign, what *)
(* KOI8 draws boxes with -- are missing.                                   *)
WrittenIsUtf8 ==
    out = FlattenSeq([k \in 1..(pos - 1) |->
             IF Symbols[k] < \h1000 THEN Utf8(Symbols[k]) ELSE <<>>])

(* No two bytes of an encoding are converted to the same output, so that   *)
(* a text can be had back -- except for what is dropped, and for 0x98 in   *)
(* cp1251, no symbol there, which becomes a NUL.                           *)
NothingIsConfused ==
    pos = 2 /\ Len(file.bytes) = 1 /\ out # <<>> =>
        \A c \in 0..255 \ {file.bytes[1]} :
            Converted(file.encoding, c) = out =>
                file.encoding = "cp1251" /\ {c, file.bytes[1]} = {0, \h98}

(* The output is the text of the file.                                     *)
TextIsKept == WrittenIsUtf8 /\ NothingIsConfused

=============================================================================
