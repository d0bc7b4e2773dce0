---------------------------- MODULE PrintBuffer -----------------------------
(***************************************************************************)
(* The printbuffer of cJSON.c: the bytes of a text in the making, that may *)
(* have to grow before the next piece of it is written.                    *)
(***************************************************************************)
EXTENDS Integers, SequencesExt

CONSTANT SizeLimit      \* INT_MAX, as a number of bytes

ASSUME SizeAssumption == SizeLimit \in Nat \ {0}

Nul  == 0       \* ends a string
Junk == -1      \* a byte that was never written

JunkBytes(n) == [i \in 1 .. n |-> Junk]

\* noalloc and hooks.reallocate are flags; ok is FALSE once a function has failed, and fault is
\* TRUE once a byte outside the buffer, or one never written, has been used.
Buffer(length, noalloc, reallocate) ==
    [bytes |-> JunkBytes(length), offset |-> 0, noalloc |-> noalloc, reallocate |-> reallocate,
     ok |-> TRUE, fault |-> FALSE]

Refused(b) == [b EXCEPT !.ok = FALSE]

\* A larger buffer: realloc keeps what there was, and the memcpy of offset + 1 bytes less.
Grown(b, newsize) ==
    LET kept == IF b.reallocate THEN Len(b.bytes) ELSE b.offset + 1
    IN  [b EXCEPT !.fault = @ \/ kept > Len(b.bytes),
                  !.bytes = SubSeq(@, 1, kept) \o JunkBytes(newsize - kept)]

\* Fault: what is in the buffer already is not counted.
EnsureForgets(b, needed) ==
    IF ~b.ok \/ needed + 1 <= Len(b.bytes) THEN b
    ELSE IF b.noalloc THEN Refused(b)
    ELSE Grown(b, 2 * (needed + 1))

\* ensure: room for needed bytes and one more behind the offset.  malloc does not fail here.
Ensure(b, needed) ==
    LET size == needed + b.offset + 1
    IN  IF ~b.ok THEN b
        ELSE IF Len(b.bytes) > 0 /\ b.offset >= Len(b.bytes) THEN Refused(b)
        ELSE IF needed > SizeLimit THEN Refused(b)
        ELSE IF size <= Len(b.bytes) THEN b
        ELSE IF b.noalloc THEN Refused(b)
        ELSE IF size <= SizeLimit \div 2 THEN Grown(b, 2 * size)
        ELSE IF size <= SizeLimit THEN Grown(b, SizeLimit)
        ELSE Refused(b)

\* Text written where the last piece ended, and the offset moved on.
Put(b, text, forward) ==
    IF ~b.ok THEN b
    ELSE [b EXCEPT !.fault  = @ \/ b.offset + Len(text) > Len(b.bytes),
                   !.bytes  = SubSeq(@, 1, b.offset) \o text
                              \o SubSeq(@, b.offset + Len(text) + 1, Len(@)),
                   !.offset = @ + forward]

\* strlen of what is behind the offset; -1 if that does not end.
RestLength(b) ==
    LET rest == SubSeq(b.bytes, b.offset + 1, Len(b.bytes))
        i    == SelectInSeq(rest, LAMBDA x : x \in {Nul, Junk})
    IN  IF i = 0 \/ rest[i] = Junk THEN -1 ELSE i - 1

\* update_offset
UpdateOffset(b) ==
    IF ~b.ok THEN b
    ELSE IF RestLength(b) < 0 THEN [b EXCEPT !.fault = TRUE, !.ok = FALSE]
    ELSE [b EXCEPT !.offset = @ + RestLength(b)]

-----------------------------------------------------------------------------
\* A chunk: the bytes ensure is asked for, the text, and how far the offset moves; or a call of
\* update_offset.
Chunk(needed, text, forward) == [needed |-> needed, text |-> text, forward |-> forward]
Update == Chunk(-1, <<>>, 0)

\* What a chunk does to the buffer.
Step(b, c) ==
    IF c = Update THEN UpdateOffset(b) ELSE Put(Ensure(b, c.needed), c.text, c.forward)

\* cJSON_PrintBuffered, cJSON_PrintPreallocated and, with 256 bytes, cJSON_Print.
PrintInto(buffer, chunks) ==
    LET after[k \in 0 .. Len(chunks)] ==
            IF k = 0 THEN buffer ELSE Step(after[k - 1], chunks[k])
    IN  after[Len(chunks)]

\* What the caller gets.
Printed(b) == SubSeq(b.bytes, 1, SelectInSeq(b.bytes, LAMBDA x : x = Nul) - 1)
-----------------------------------------------------------------------------
\* What a chunk says: its text without the end of a string; and what all of them say.
Ends(text) == text # <<>> /\ text[Len(text)] = Nul
Body(c)    == IF Ends(c.text) THEN SubSeq(c.text, 1, Len(c.text) - 1) ELSE c.text

Plainly(chunks) ==
    LET upto[k \in 0 .. Len(chunks)] ==
            IF k = 0 THEN <<>> ELSE upto[k - 1] \o Body(chunks[k])
    IN  upto[Len(chunks)]

\* How the printers use the buffer.  Each asks for the bytes it writes, or one more; the offset
\* moves behind them unless they end a string and update_offset, or nothing, comes next;
\* update_offset comes only where a string has ended, and the last chunk ends one.
Orderly(chunks) ==
    /\ chunks # <<>> /\ Ends(chunks[Len(chunks)].text)
    /\ \A k \in 1 .. Len(chunks) :
          LET c == chunks[k]
              n == Len(Body(c))
          IN  IF c = Update THEN k > 1 /\ Ends(chunks[k - 1].text)
              ELSE /\ c.needed \in {n, n + 1}
                   /\ \A i \in 1 .. n : Body(c)[i] \notin {Nul, Junk}
                   /\ \/ c.forward = n
                      \/ /\ c.forward = 0 /\ Ends(c.text)
                         /\ k < Len(chunks) => chunks[k + 1] = Update
=============================================================================
