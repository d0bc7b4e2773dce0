------------------------------ MODULE JsonText ------------------------------
(***************************************************************************)
(* cJSON_Print and cJSON_Parse between trees of items and texts.  A text   *)
(* is a sequence of tokens: white space is left out.                       *)
(***************************************************************************)
EXTENDS Number, JsonString

CONSTANT NestingLimit       \* CJSON_NESTING_LIMIT

\* A sample is an object in an object.
ASSUME NestingAssumption == NestingLimit \in Nat /\ NestingLimit >= 2

\* struct cJSON: valuedouble, valuestring and child, of which an item uses one at most.
\* Members of an object have names, those of an array have none.
Item(type)         == [type |-> type, number |-> 0, string |-> <<>>, child |-> <<>>]
Number(n)          == [Item("Number") EXCEPT !.number = n]
String(s)          == [Item("String") EXCEPT !.string = s]
Parent(type, c)    == [Item(type) EXCEPT !.child = c]
Object(members)    == Parent("Object", members)
NullItem           == Item("NULL")
Member(name, item) == [name |-> name, item |-> item]
Unnamed            == <<>>

\* Punctuation, null, false and true are tokens of their own kind; "other" is anything that
\* begins no token.
Kinds == {"{", "}", "[", "]", ":", ",", "null", "false", "true", "number", "string", "other"}

Mark(kind)      == [kind |-> kind, number |-> 0, raw |-> <<>>]
NumberToken(n)  == [Mark("number") EXCEPT !.number = n]
RawToken(raw)   == [Mark("string") EXCEPT !.raw = raw]
StringToken(s)  == RawToken(PrintString(s))

\* The tokens around what an item contains.
Brackets == [Array |-> <<"[", "]">>, Object |-> <<"{", "}">>]
Literals == [null |-> "Null", false |-> "False", true |-> "True"]
-----------------------------------------------------------------------------
\* print_array and print_object, where PrintItem prints an item inside.
Joined(members, PrintItem(_)) ==
    FlattenSeq([i \in DOMAIN members |->
        (IF members[i].name = Unnamed THEN <<>>
         ELSE <<StringToken(members[i].name), Mark(":")>>)
        \o PrintItem(members[i].item)
        \o (IF i < Len(members) THEN <<Mark(",")>> ELSE <<>>)])

\* print_value
PrintValue(item, PrintItem(_)) ==
    CASE item.type = "Number" -> <<NumberToken(PrintNumber(item.number))>>
      [] item.type = "String" -> <<StringToken(item.string)>>
      [] item.type \in DOMAIN Brackets ->
            <<Mark(Brackets[item.type][1])>> \o Joined(item.child, PrintItem)
            \o <<Mark(Brackets[item.type][2])>>
      [] OTHER -> <<Mark(CHOOSE l \in DOMAIN Literals : Literals[l] = item.type)>>

\* cJSON_Print of trees of up to three levels, as HelloWorld_to_MQTT builds them.
PrintLeaf(item)  == PrintValue(item, LAMBDA i : <<Mark("other")>>)
PrintInner(item) == PrintValue(item, PrintLeaf)
PrintText(item)  == PrintValue(item, PrintInner)
-----------------------------------------------------------------------------
\* The parser: for each array or object it is in, what it has of it and the name of the next
\* member; what it expects next; and the item, when it is done.
Parser(stack, expect, item) == [stack |-> stack, expect |-> expect, item |-> item]
Level(type)                 == [type |-> type, members |-> <<>>, name |-> Unnamed]

Start  == Parser(<<>>, "value", NullItem)
Failed == Parser(<<>>, "nothing", NullItem)

Top(p) == Last(p.stack)

\* A value is complete: the end, or a member.
Complete(p, item) ==
    IF p.stack = <<>> THEN Parser(<<>>, "nothing", item)
    ELSE LET full == [Top(p) EXCEPT !.members = Append(@, Member(Top(p).name, item))]
         IN  Parser(Append(Front(p.stack), full), "end", NullItem)

Close(p) == Complete([p EXCEPT !.stack = Front(@)], Parent(Top(p).type, Top(p).members))

\* Fault: one level too many.
OpenDeeper(p, type) ==
    IF Len(p.stack) > NestingLimit THEN Failed
    ELSE Parser(Append(p.stack, Level(type)), "first", NullItem)

\* parse_array and parse_object at their opening bracket.
Open(p, type) ==
    IF Len(p.stack) >= NestingLimit THEN Failed
    ELSE Parser(Append(p.stack, Level(type)), "first", NullItem)

\* parse_string of a value, and of the name of a member.
CompleteString(p, s) == IF s.ok THEN Complete(p, String(s.bytes)) ELSE Failed

NameMember(p, s) ==
    IF s.ok THEN [p EXCEPT !.stack[Len(p.stack)].name = s.bytes, !.expect = "colon"] ELSE Failed

\* parse_value
FeedValue(p, t) ==
    CASE t.kind \in DOMAIN Literals -> Complete(p, Item(Literals[t.kind]))
      [] t.kind = "number" -> Complete(p, Number(Double(t.number)))
      [] t.kind = "string" -> CompleteString(p, ParseString(t.raw))
      [] t.kind = "[" -> Open(p, "Array")
      [] t.kind = "{" -> Open(p, "Object")
      [] OTHER -> Failed

FeedName(p, t) == IF t.kind = "string" THEN NameMember(p, ParseString(t.raw)) ELSE Failed

AtMember(p)  == p.expect \in {"first", "member"}
Closes(p, t) == p.expect \in {"first", "end"} /\ t.kind = Brackets[Top(p).type][2]

\* The next token.  What follows the value is not looked at.
Feed(p, t) ==
    IF Closes(p, t) THEN Close(p)
    ELSE IF p.expect = "value" \/ (AtMember(p) /\ Top(p).type = "Array") THEN FeedValue(p, t)
    ELSE IF AtMember(p) THEN FeedName(p, t)
    ELSE CASE p.expect = "nothing" -> p
           [] p.expect = "colon" /\ t.kind = ":" -> [p EXCEPT !.expect = "value"]
           [] p.expect = "end" /\ t.kind = "," -> [p EXCEPT !.expect = "member"]
           [] OTHER -> Failed

\* cJSON_Parse: the item; NULL where the text ends early or is none, which the look-up of a
\* member does not tell from a null.
Parse(text) ==
    LET fed[i \in 0..Len(text)] == IF i = 0 THEN Start ELSE Feed(fed[i - 1], text[i])
        p == fed[Len(text)]
    IN  IF p.expect = "nothing" THEN p.item ELSE NullItem
=============================================================================
