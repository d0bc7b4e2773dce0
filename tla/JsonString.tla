----------------------------- MODULE JsonString -----------------------------
(***************************************************************************)
(* Strings between quotes in cJSON: print_string_ptr, parse_string and     *)
(* utf16_literal_to_utf8.  Characters are bytes, as numbers; beyond them,  *)
(* Convert has characters of its own that stand for whole names.           *)
(***************************************************************************)
EXTENDS Integers, SequencesExt

Quote     == 34
Backslash == 92
LetterU   == 117

\* The second character of an escape, and the character it stands for.
Escapes == [b |-> <<98, 8>>, f |-> <<102, 12>>, n |-> <<110, 10>>,
            r |-> <<114, 13>>, t |-> <<116, 9>>,
            quote |-> <<34, 34>>, backslash |-> <<92, 92>>]

ShortEscapes == {Escapes[e] : e \in DOMAIN Escapes}

Plain(c) == c > 31 /\ c # Quote /\ c # Backslash

HasShort(c) == \E e \in ShortEscapes : e[2] = c
ShortOf(c)  == (CHOOSE e \in ShortEscapes : e[2] = c)[1]

\* "%x" of one digit
HexChar(d) == IF d < 10 THEN 48 + d ELSE 87 + d

Escape(c) ==
    IF Plain(c) THEN <<c>>
    ELSE IF HasShort(c) THEN <<Backslash, ShortOf(c)>>
    ELSE <<Backslash, LetterU, 48, 48, HexChar(c \div 16), HexChar(c % 16)>>

\* Fault: no escape for characters that need none by the grammar of C.
PrintStringPlainly(s) == s \o <<Quote>>

\* print_string_ptr, without the opening quote.
PrintString(s) == FlattenSeq([i \in DOMAIN s |-> Escape(s[i])]) \o <<Quote>>

\* Fault: the four digits of a code point are forgotten.
OutputLengthShort(s) ==
    Len(s) + Cardinality({i \in DOMAIN s : HasShort(s[i])})
           + Cardinality({i \in DOMAIN s : ~Plain(s[i]) /\ ~HasShort(s[i])})

\* output_length of print_string_ptr, counted before anything is written.
OutputLength(s) ==
    Len(s) + Cardinality({i \in DOMAIN s : HasShort(s[i])})
           + 5 * Cardinality({i \in DOMAIN s : ~Plain(s[i]) /\ ~HasShort(s[i])})
-----------------------------------------------------------------------------
\* parse_hex4: 0 for four characters that are no digits.
HexDigit(c) ==
    CASE c \in 48..57  -> c - 48
      [] c \in 65..70  -> c - 55
      [] c \in 97..102 -> c - 87
      [] OTHER         -> -1

ParseHex4(raw, i) ==
    LET d(k) == HexDigit(raw[i + k])
    IN  IF \E k \in 0..3 : d(k) = -1 THEN 0
        ELSE 4096 * d(0) + 256 * d(1) + 16 * d(2) + d(3)

\* The first code point that takes more than 16 bits.
Plane == 16 * 4096

Utf8(cp) ==
    LET rest(unit) == 128 + ((cp \div unit) % 64)
    IN  IF cp < 128 THEN <<cp>>
        ELSE IF cp < 2048 THEN <<192 + (cp \div 64), rest(1)>>
        ELSE IF cp < Plane THEN <<224 + (cp \div 4096), rest(64), rest(1)>>
        ELSE <<240 + (cp \div (64 * 4096)), rest(4096), rest(64), rest(1)>>

\* What one step of parse_string reads and writes; it fails where it reads nothing.
Piece(reads, bytes) == [reads |-> reads, bytes |-> bytes]
Failure             == Piece(0, <<>>)

High(code) == code \div 1024 = 54       \* D800..DBFF
Low(code)  == code \div 1024 = 55       \* DC00..DFFF

\* utf16_literal_to_utf8 of what there is up to the closing quote: room for so many bytes,
\* a first code, and after a high one, if there are \u and a second code, that one.
Utf16(room, first, pair, second) ==
    IF room < 6 \/ Low(first) THEN Failure
    ELSE IF ~High(first) THEN Piece(6, Utf8(first))
    ELSE IF room < 12 \/ ~pair \/ ~Low(second) THEN Failure
    ELSE Piece(12, Utf8(Plane + 1024 * (first % 1024) + (second % 1024)))

\* The same at raw[i], the backslash, where end is the closing quote.
Utf16Literal(raw, i, end) ==
    Utf16(end - i, ParseHex4(raw, i + 2),
          raw[i + 6] = Backslash /\ raw[i + 7] = LetterU, ParseHex4(raw, i + 8))

\* One turn of the second loop of parse_string.
ReadPiece(raw, i, end) ==
    IF raw[i] # Backslash THEN Piece(1, <<raw[i]>>)
    ELSE IF raw[i + 1] = 47 THEN Piece(2, <<47>>)
    ELSE IF raw[i + 1] = LetterU THEN Utf16Literal(raw, i, end)
    ELSE IF \E e \in ShortEscapes : e[1] = raw[i + 1]
         THEN Piece(2, <<(CHOOSE e \in ShortEscapes : e[1] = raw[i + 1])[2]>>)
    ELSE Failure

\* The first loop: the place of the closing quote, 0 if there is none, and how many
\* backslashes come before.
Closing(raw) ==
    LET scan[i \in 1 .. Len(raw) + 2] ==
            IF i > Len(raw) THEN [end |-> 0, skipped |-> 0]
            ELSE IF raw[i] = Quote THEN [end |-> i, skipped |-> 0]
            ELSE IF raw[i] = Backslash
                 THEN [scan[i + 2] EXCEPT !.skipped = @ + 1]
            ELSE scan[i + 1]
    IN  scan[1]

\* Where the string fails to parse.
NoString == [ok |-> FALSE, bytes |-> <<>>]

\* parse_string, of what follows the opening quote.
ParseString(raw) ==
    LET end == Closing(raw).end
        read[i \in 1 .. Len(raw) + 12] ==
            IF i >= end THEN [ok |-> TRUE, bytes |-> <<>>]
            ELSE LET p == ReadPiece(raw, i, end)
                 IN  IF p.reads = 0 THEN NoString
                     ELSE [read[i + p.reads] EXCEPT !.bytes = p.bytes \o @]
    IN  IF end = 0 THEN NoString ELSE read[1]

\* allocation_length + sizeof("") of parse_string.
Allocated(raw) == Closing(raw).end - Closing(raw).skipped + 1

\* What strcpy copies of the bytes, since \u0000 and four characters that are no digits
\* put a zero there.
CString(bytes) ==
    LET zero == SelectInSeq(bytes, LAMBDA b : b = 0)
    IN  IF zero = 0 THEN bytes ELSE SubSeq(bytes, 1, zero - 1)
=============================================================================
