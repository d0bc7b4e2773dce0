----------------------------- MODULE JsonPrint ------------------------------
(***************************************************************************)
(* How cJSON prints an item into a buffer, byte by byte, with format or    *)
(* without; and cJSON_Compare.                                             *)
(***************************************************************************)
EXTENDS JsonText, PrintBuffer

Tabs(n)     == [i \in 1 .. n |-> 9]
Begun(text) == Chunk(Len(text) + 1, text, Len(text))

\* print_string_ptr
StringChunk(s) ==
    Chunk(OutputLength(s) + 3, <<Quote>> \o PrintString(s) \o <<Nul>>, 0)

\* print_number: only how many digits there are.
NumberChunk(n) ==
    LET length == Characters(n)
    IN  Chunk(length + 1, [i \in 1 .. length |-> 48] \o <<Nul>>, length)

Comma(format)  == IF format THEN <<44, 32>> ELSE <<44>>

\* print_value: the chunks of an item at a depth.  Where the item is NULL it fails.
RECURSIVE Chunks(_, _, _)

\* print_array
ArrayChunks(c, depth, format) ==
    <<Chunk(1, <<91>>, 1)>>
    \o FlattenSeq([i \in DOMAIN c |->
           Append(Chunks(c[i].item, depth + 1, format), Update)
           \o IF i = Len(c) THEN <<>>
              ELSE <<Chunk(Len(Comma(format)) + 1, Append(Comma(format), Nul), Len(Comma(format)))>>])
    \o <<Chunk(2, <<93, Nul>>, 0)>>

\* print_object; depth + 1 tabs before a member.
ObjectChunks(c, depth, format) ==
    LET open  == IF format THEN <<123, 10>> ELSE <<123>>
        colon == IF format THEN <<58, 9>> ELSE <<58>>
        After(i) == (IF i < Len(c) THEN <<44>> ELSE <<>>) \o (IF format THEN <<10>> ELSE <<>>)
    IN  <<Begun(open)>>
        \o FlattenSeq([i \in DOMAIN c |->
               (IF format THEN <<Chunk(depth + 1, Tabs(depth + 1), depth + 1)>> ELSE <<>>)
               \o <<StringChunk(c[i].name), Update, Chunk(Len(colon), colon, Len(colon))>>
               \o Append(Chunks(c[i].item, depth + 1, format), Update)
               \o <<Chunk(Len(After(i)) + 1, Append(After(i), Nul), Len(After(i)))>>])
        \o <<IF format THEN Chunk(depth + 2, Tabs(depth) \o <<125, Nul>>, 0)
             ELSE Chunk(2, <<125, Nul>>, 0)>>

Chunks(item, depth, format) ==
    CASE item.type = "Null"   -> <<Chunk(5, <<110, 117, 108, 108, Nul>>, 0)>>
      [] item.type = "False"  -> <<Chunk(6, <<102, 97, 108, 115, 101, Nul>>, 0)>>
      [] item.type = "True"   -> <<Chunk(5, <<116, 114, 117, 101, Nul>>, 0)>>
      [] item.type = "Number" -> <<NumberChunk(item.number)>>
      [] item.type = "String" -> <<StringChunk(item.string)>>
      [] item.type = "Array"  -> ArrayChunks(item.child, depth, format)
      [] item.type = "Object" -> ObjectChunks(item.child, depth, format)
-----------------------------------------------------------------------------
\* get_object_item with case_sensitive.
GetExactly(members, name) ==
    LET i == SelectInSeq(members, LAMBDA m : m.name = name)
    IN  IF i = 0 THEN NullItem ELSE members[i].item

RECURSIVE Compare(_, _)

\* Fault: that b has no other members is not looked at.
CompareMembersOnce(c, d) ==
    \A i \in DOMAIN c :
        \E j \in DOMAIN d : d[j].name = c[i].name /\ Compare(c[i].item, GetExactly(d, c[i].name))

\* cJSON_Compare of objects: both ways.
CompareMembers(c, d) ==
    LET Within(x, y) ==
            \A i \in DOMAIN x :
                /\ \E j \in DOMAIN y : y[j].name = x[i].name
                /\ Compare(x[i].item, GetExactly(y, x[i].name))
    IN  Within(c, d) /\ Within(d, c)

\* cJSON_Compare with case_sensitive, of two items at two places.
Compare(a, b) ==
    /\ a.type = b.type
    /\ CASE a.type \in {"Null", "False", "True"} -> TRUE
         [] a.type = "Number" -> CompareDouble(a.number, b.number)
         [] a.type = "String" -> a.string = b.string
         [] a.type = "Array"  ->
               /\ Len(a.child) = Len(b.child)
               /\ \A i \in DOMAIN a.child : Compare(a.child[i].item, b.child[i].item)
         [] a.type = "Object" -> CompareMembers(a.child, b.child)
         [] OTHER -> FALSE
=============================================================================
