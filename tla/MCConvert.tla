----------------------------- MODULE MCConvert ------------------------------
(* Instances of Convert for TLC. *)
EXTENDS ConvertTrees

Zero == [f \in Fields |-> IF f \in Strings THEN <<>> ELSE 0]

\* A letter of each kind of treatment: a n u " \ newline, a control character, a byte of UTF-8;
\* and a word that fills its field.
Words == SeqOf({97, 110, 117, 34, 92, 10, 27, 195}, 2)
             \union {[i \in 1 .. FieldLen - 1 |-> 97]}

\* Every value of every number, and every word as one string or the other.
EverySample ==
    UNION {{[Zero EXCEPT ![f] = v] : v \in Values(f)} : f \in ToSet(Numbers)}
    \union {[Zero EXCEPT ![f] = w, !["int8_test"] = -1] : f \in Strings, w \in Words}

LongSample ==
    {[Zero EXCEPT !["message"] = <<97, 97>>, !["example_stru"] = <<97>>, !["int64_test"] = 500]}
-----------------------------------------------------------------------------
\* A payload with everything.
AllMembers ==
    [i \in 1..11 |->
        Member(Spelled(Order[i]),
               CASE Order[i] = "message" -> String(<<97, 110>>)
                 [] Order[i] = "example_stru" ->
                        Object(<<Member(Spelled("message"), String(<<117>>))>>)
                 [] OTHER -> Number(1))]

TextOf(members) == PrintText(Object(members))

Others ==
    {Item(t) : t \in {"Null", "False", "True"}} \union
    {Number(n) : n \in -40..40 \union {-600, 600}} \union
    {String(<<97>>), Object(<<>>), Item("Array")}

\* One member is another, is missing, is there twice, or has a name in capitals.
OtherMembers ==
    {TextOf([AllMembers EXCEPT ![i].item = item]) : i \in 1..11, item \in Others} \union
    {TextOf(RemoveAt(AllMembers, i)) : i \in 1..11} \union
    {TextOf(<<Member(AllMembers[i].name, item)>> \o AllMembers) : i \in 1..11, item \in Others} \union
    {TextOf([AllMembers EXCEPT ![i].name = Capitals(Order[i])]) : i \in 1..11}

\* One token is another, is missing or is there twice; the text ends early or goes on.
Tokens == {Mark(k) : k \in {"{", "}", "[", "]", ":", ",", "true", "other"}}
              \union {NumberToken(1), StringToken(<<97>>)}

Whole == TextOf(AllMembers)

OtherTokens ==
    {[Whole EXCEPT ![i] = t] : i \in DOMAIN Whole, t \in Tokens} \union
    {RemoveAt(Whole, i) : i \in DOMAIN Whole} \union
    {InsertAt(Whole, i, Whole[i]) : i \in DOMAIN Whole} \union
    {SubSeq(Whole, 1, i) : i \in 0..Len(Whole)} \union
    {Whole \o [i \in 1..4 |-> t] : t \in Tokens}

\* Escapes: \u00e9, \u20ac, both halves of a pair alone, \u of no digits, \/, \x, a letter.
Pieces == {<<92, 117, 48, 48, 101, 57>>, <<92, 117, 50, 48, 65, 67>>,
           <<92, 117, 68, 56, 51, 68>>, <<92, 117, 68, 69, 48, 48>>,
           <<92, 117, 120, 48, 48, 48>>, <<92, 47>>, <<92, 120>>, <<97>>}

\* The message has up to two of these.
OtherStrings ==
    {[Whole EXCEPT ![36] = RawToken(p \o q \o <<Quote>>)] :
        p \in Pieces \union {<<>>}, q \in Pieces}

\* A first member that is nested to some depth.
Nested ==
    {<<Mark("{"), StringToken(<<97>>), Mark(":")>>
        \o [i \in 1..2*d |-> IF i > d THEN Mark("]") ELSE Mark("[")]
        \o <<Mark(",")>> \o Tail(Whole) : d \in 1..5}

\* Trees of up to three levels, with up to two items in each, and no number that is rounded.
Leaves == {Item("Null"), Item("False"), Number(-10), String(<<97, 10, 34, 7>>)}

\* Arrays and objects of one or two such items, the first from some, the others leaves.
Around(some) ==
    UNION {{Parent("Array", <<Member(Unnamed, x)>>), Object(<<Member(<<97>>, x)>>)} : x \in some}
    \union UNION {{Parent("Array", <<Member(Unnamed, x), Member(Unnamed, y)>>),
                   Object(<<Member(<<97>>, x), Member(<<98>>, y)>>),
                   Object(<<Member(<<97>>, x), Member(<<97>>, y)>>)} : x \in some, y \in Leaves}

Shallow == Leaves \union Around(Leaves) \union {Object(<<>>), Parent("Array", <<>>)}

LittleTexts == {PrintText(t) : t \in Shallow \union Around(Shallow \ Leaves)}

EveryForeign == LittleTexts \union OtherMembers \union OtherTokens \union OtherStrings \union Nested

\* The payload of README.md:58-70: both 64-bit numbers are beyond int.
Readme ==
    {TextOf([AllMembers EXCEPT ![7].item = Number(20), ![8].item = Number(77)])}

None == {}
=============================================================================
