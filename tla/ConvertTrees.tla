---------------------------- MODULE ConvertTrees -----------------------------
(***************************************************************************)
(* What cJSON does with a tree that it has parsed: printing it into a      *)
(* buffer, byte by byte, and comparing it with another one.                *)
(***************************************************************************)
EXTENDS Convert, JsonPrint

CONSTANT Little     \* bound: the tokens of a payload whose items are printed and compared

ASSUME TreesAssumption == Little \in Nat

\* A little payload of another client, which has not all that a sample needs, as a tree.
LittleTrees ==
    IF pc = "crash" /\ ~Own /\ Len(payload) <= Little THEN {Parse(payload)} \ {NullItem} ELSE {}

\* A buffer of any first length, whether malloc and free or realloc make it grow and whether it
\* may, gets the whole text or the call fails: nothing is written outside, and no piece in
\* the wrong place.  It fails only for sizes beyond int, or in a given buffer with less than
\* two bytes to spare (cJSON.h:163 has 5).  The pieces are ones for which that can be proved.
PrintsWhole ==
    \A tree \in LittleTrees, format \in BOOLEAN :
        \A chunks \in {Chunks(tree, 0, format)} :
            LET text    == Plainly(chunks)
                Lengths == 1 .. Len(text) + 3
                Given   == {Buffer(n, TRUE, TRUE) : n \in {0} \union Lengths}
                Growing == {Buffer(n, FALSE, r) : n \in Lengths, r \in BOOLEAN}
            IN  /\ Orderly(chunks)
                /\ \A b \in Given \union Growing :
                    \A p \in {PrintInto(b, chunks)} :
                        /\ ~p.fault
                        /\ p.ok => Printed(p) = text
                        /\ IF b.noalloc THEN Len(b.bytes) >= Len(text) + 2 => p.ok
                           ELSE Len(text) + 2 <= SizeLimit => p.ok

\* The same but for one element or member: gone, there twice, or another one.
Variants(item) ==
    LET c == item.child
    IN  {item, [item EXCEPT !.child = Reverse(c)]}
        \union {[item EXCEPT !.child = RemoveAt(c, i)] : i \in DOMAIN c}
        \union {[item EXCEPT !.child = Append(c, c[i])] : i \in DOMAIN c}
        \union {[item EXCEPT !.child[i].item = x] : i \in DOMAIN c, x \in {Item("Null"), Number(1)}}

NamesDiffer(item) ==
    \A x \in {item} \union {m.item : m \in ToSet(item.child)} :
        x.type = "Object" =>
            \A i, j \in DOMAIN x.child : x.child[i].name = x.child[j].name => i = j

\* cJSON_Compare is symmetric, though it looks up the members of one object in the other, and
\* says of items with members of different names whether they are equal (cJSON.h:254), in
\* whatever order.
ComparesAsEqual ==
    \A tree \in LittleTrees : \A other \in Variants(tree) :
        \A same \in {Compare(tree, other)} :
            /\ same = Compare(other, tree)
            /\ tree.type = "Object" /\ NamesDiffer(tree) /\ NamesDiffer(other) =>
                  (same <=> ToSet(tree.child) = ToSet(other.child))
=============================================================================
