------------------------------ MODULE Convert -------------------------------
(***************************************************************************)
(* HelloWorldMQTTTypes.c: a sample becomes the payload of a message, and a *)
(* payload, this one or that of some other client, becomes a sample again. *)
(* Both functions work on data of their own thread, so each is one step.   *)
(***************************************************************************)
EXTENDS JsonText

CONSTANTS
    Samples,      \* samples that dds_take may return
    Foreign,      \* payloads of other clients
    Frame,        \* characters of a text without its numbers and strings
    PayloadLen,   \* 256, the length every payload is published with
    FieldLen,     \* 256, the length of both strings of a sample
    MallocFails,  \* whether an allocation may fail
    Stale         \* what a number or a byte of a string held before; nothing else is it

VARIABLES
    pc,           \* what comes next, or "done", "crash" or "overrun"
    sample,       \* *m1 of HelloWorld_to_MQTT, or NoSample
    payload,      \* the message's payload, a sequence of tokens
    out           \* *m2 of MQTT_to_HelloWorld

vars == <<pc, sample, payload, out>>

Numbers == <<"int8_test", "uint8_test", "int16_test", "uint16_test", "int32_test",
             "uint32_test", "int64_test", "uint64_test", "example_enum">>
Strings == {"message", "example_stru"}
Fields  == ToSet(Numbers) \union Strings

\* The characters of a string: bytes, and names, each of which is one character (see Spelled).
Letters == (1 .. 255) \union (1001 .. 1011) \union (2001 .. 2011)
Texts   == Seq([kind : Kinds, number : Int, raw : Seq(Letters)])

\* A string's value is what comes before its zero, for which its field has room.
CStrings == {s \in Seq(Letters) : Len(s) < FieldLen}

\* Values a field of the type holds.  The compiler makes test_enum an unsigned int.
Values(f) ==
    CASE f = "int8_test"   -> Signed(Max8)
      [] f = "uint8_test"  -> Unsigned(Max8)
      [] f = "int16_test"  -> Signed(Max16)
      [] f = "uint16_test" -> Unsigned(Max16)
      [] f = "int32_test"  -> Signed(Max32)
      [] f \in {"uint32_test", "example_enum"} -> Unsigned(Max32)
      [] f = "int64_test"  -> Signed(Max64)
      [] f = "uint64_test" -> Unsigned(Max64)
      [] OTHER -> CStrings

\* Fault: assigned as if every field were as wide as an int.
AssignedAsIs(f, i) == i

\* valueint assigned to a field.
Assigned(f, i) ==
    CASE f = "int8_test"   -> ToSigned(i, Max8)
      [] f = "uint8_test"  -> ToUnsigned(i, Max8)
      [] f = "int16_test"  -> ToSigned(i, Max16)
      [] f = "uint16_test" -> ToUnsigned(i, Max16)
      [] f \in {"int32_test", "int64_test"} -> i
      [] f \in {"uint32_test", "example_enum"} -> ToUnsigned(i, Max32)
      [] f = "uint64_test" -> ToUnsigned(i, Max64)

ASSUME ConvertAssumption ==
    /\ \A s \in Samples : DOMAIN s = Fields /\ \A f \in Fields : s[f] \in Values(f)
    /\ Foreign \subseteq Texts /\ Stale \notin Int
    /\ FieldLen \in Nat \ {0}
    /\ {Frame, PayloadLen} \subseteq Nat /\ MallocFails \in BOOLEAN

\* The conversion starts with a payload from some other client.
NoSample == <<>>
Own      == DOMAIN sample # {}
-----------------------------------------------------------------------------
\* In the order in which HelloWorld_to_MQTT adds them.
Order == SubSeq(Numbers, 1, 8) \o <<"message", "example_enum", "example_stru">>

\* A name is one character; another one is the name in capitals.
Spelled(f)  == <<1000 + CHOOSE i \in DOMAIN Order : Order[i] = f>>
Capitals(f) == <<Spelled(f)[1] + 1000>>
ToLower(c)  == IF c > 2000 THEN c - 1000 ELSE c

\* What is added for a field; the string of example_stru is in an object of its own.
Added(f) ==
    CASE f = "message" -> String(sample[f])
      [] f = "example_stru" ->
            Object(<<Member(Spelled("message"), String(sample[f]))>>)
      [] OTHER -> Number(Double(sample[f]))

\* The object with the members of the given fields.
Members(fs) ==
    FlattenSeq([i \in DOMAIN Order |->
        IF Order[i] \in fs THEN <<Member(Spelled(Order[i]), Added(Order[i]))>> ELSE <<>>])

\* The length of the text of the sample.
Size ==
    Frame + FoldSet(LAMBDA f, n : n + IF f \in Strings THEN OutputLength(sample[f])
                                      ELSE Characters(Double(sample[f])),
                    0, Fields)

\* The payload, PayloadLen characters (m2->len = 256): the text, or what is left of it
\* without its last brace at least.  What follows a shorter text is not parsed.
Published ==
    LET text == PrintText(Object(Members(Fields)))
    IN  IF Size > PayloadLen THEN Front(text) ELSE text

\* HelloWorld_to_MQTT and what is published of it.
HelloWorldToMqtt ==
    /\ pc = "to_mqtt"
    /\ payload' = Published
    /\ pc' = "to_dds"
    /\ UNCHANGED <<sample, out>>

\* A malloc fails: an item that is not created, or whose key is not copied, is left out
\* without a sign, and so is the string of the inner object.  What is shorter by a member
\* may still be cut.
HelloWorldToMqttFails ==
    /\ pc = "to_mqtt"
    /\ MallocFails
    /\ \/ \E f \in Fields : payload' = PrintText(Object(Members(Fields \ {f})))
       \/ payload' = PrintText(Object([Members(Fields) EXCEPT ![11].item = Object(<<>>)]))
    /\ pc' = "to_dds"
    /\ UNCHANGED <<sample, out>>

\* Without the outer object or the text str is NULL, and the publication copies PayloadLen
\* characters from there.
HelloWorldToMqttCrashes ==
    /\ pc = "to_mqtt"
    /\ MallocFails
    /\ pc' = "crash"
    /\ UNCHANGED <<sample, payload, out>>
-----------------------------------------------------------------------------
\* case_insensitive_strcmp
SameName(s, t) == Len(s) = Len(t) /\ \A i \in DOMAIN s : ToLower(s[i]) = ToLower(t[i])

\* cJSON_GetObjectItem: the first of that name.  Only an object has members with names.
GetObjectItem(object, name) ==
    LET members == IF object.type = "Object" THEN object.child ELSE <<>>
        i       == SelectInSeq(members, LAMBDA m : SameName(m.name, name))
    IN  IF i = 0 THEN NullItem ELSE members[i].item

\* The item that MQTT_to_HelloWorld reads a field from.
Source(object, f) ==
    LET item == GetObjectItem(object, Spelled(f))
    IN  IF f = "example_stru" THEN GetObjectItem(item, Spelled("message")) ELSE item

\* item->valueint: parse_value sets it for numbers and for true only.
ItemInt(item) ==
    IF item.type = "Number" THEN ValueInt(item.number)
    ELSE IF item.type = "True" THEN 1
    ELSE 0

\* item->valuestring, copied by strcpy, is there for strings only.
Readable(f, item) ==
    IF f \in Strings THEN item.type = "String" ELSE item.type # "NULL"

\* strcpy of s: its characters and a zero; the rest of the array stays.
Strcpy(array, s) ==
    [i \in 1..FieldLen |-> IF i <= Len(s) THEN s[i]
                           ELSE IF i = Len(s) + 1 THEN 0
                           ELSE array[i]]

\* A field with what it held before, filled from an item.
Filled(f, old, item) ==
    IF f \in Strings THEN Strcpy(old, CString(item.string)) ELSE Assigned(f, ItemInt(item))

Complies(object) == \A f \in Fields : Readable(f, Source(object, f))

\* The string and its zero are no longer than the field.
Fits(f, item) == f \in Strings => CString(item.string) \in CStrings

\* Nothing bounds strcpy: a longer string that is reached is written past its field.
Overruns(object) ==
    \E i \in DOMAIN Order :
        /\ \A j \in 1..i : Readable(Order[j], Source(object, Order[j]))
        /\ ~Fits(Order[i], Source(object, Order[i]))

\* Fault: a member that is missing is passed over.
MqttToHelloWorldLenient ==
    /\ pc = "to_dds"
    /\ \E object \in {Parse(payload)} :
           /\ ~Overruns(object)
           /\ out' = [f \in Fields |-> IF Readable(f, Source(object, f))
                                       THEN Filled(f, out[f], Source(object, f))
                                       ELSE out[f]]
    /\ pc' = "done"
    /\ UNCHANGED <<sample, payload>>

\* MQTT_to_HelloWorld on a payload that has all it reads, with strings that fit.
MqttToHelloWorld ==
    /\ pc = "to_dds"
    /\ \E object \in {Parse(payload)} :
           /\ Complies(object)
           /\ \A f \in Strings : Fits(f, Source(object, f))
           /\ out' = [f \in Fields |-> Filled(f, out[f], Source(object, f))]
    /\ pc' = "done"
    /\ UNCHANGED <<sample, payload>>

\* It follows a NULL pointer where one is missing, or an allocation of cJSON_Parse fails.
MqttToHelloWorldCrashes ==
    /\ pc = "to_dds"
    /\ \E object \in {Parse(payload)} :
           MallocFails \/ (~Complies(object) /\ ~Overruns(object))
    /\ pc' = "crash"
    /\ UNCHANGED <<sample, payload, out>>

\* A string that is too long: what follows its field in the sample, or the sample in
\* memory, is overwritten, and the program is not followed further.
MqttToHelloWorldOverruns ==
    /\ pc = "to_dds"
    /\ Overruns(Parse(payload))
    /\ pc' = "overrun"
    /\ UNCHANGED <<sample, payload, out>>
-----------------------------------------------------------------------------
\* The sample that is filled has all its fields from another time.
Before == [f \in Fields |-> IF f \in Strings THEN [i \in 1..FieldLen |-> Stale] ELSE Stale]

Init ==
    /\ out = Before
    /\ \/ pc = "to_mqtt" /\ sample \in Samples /\ payload = <<>>
       \/ pc = "to_dds" /\ sample = NoSample /\ payload \in Foreign

\* The sample goes on to dds_write, or the process has ended.
Ended == pc \in {"done", "crash", "overrun"} /\ UNCHANGED vars

Next ==
    \/ HelloWorldToMqtt
    \/ HelloWorldToMqttFails
    \/ HelloWorldToMqttCrashes
    \/ MqttToHelloWorld
    \/ MqttToHelloWorldCrashes
    \/ MqttToHelloWorldOverruns
    \/ Ended

Spec == Init /\ [][Next]_vars
-----------------------------------------------------------------------------
Clamp(n) == IF n > Max32 THEN Max32 ELSE IF n < -Max32 - 1 THEN -Max32 - 1 ELSE n

\* Type invariant: a number of the sample has a value of its type, or what it held before,
\* and a string is an array of characters.
TypeOK ==
    /\ pc \in {"to_mqtt", "to_dds", "done", "crash", "overrun"}
    /\ Own => \A f \in Fields : sample[f] \in Values(f)
    /\ \A f \in Fields :
          IF f \in Strings THEN out[f] \in [1..FieldLen -> Letters \union {0, Stale}]
          ELSE out[f] = Stale \/ out[f] \in Values(f)

\* A sample that is written was filled from one payload (MQTT_to_HelloWorld), whatever the
\* payload lacks: no number is what the shared sample held before, and a byte of one of its
\* strings is only where strcpy does not reach, behind the zero.  There it is written to DDS
\* with the sample.
StaleBehindZeroOnly ==
    pc = "done" => /\ \A f \in ToSet(Numbers) : out[f] # Stale
                   /\ \A f \in Strings : \A i \in 1..FieldLen :
                          out[f][i] = Stale => \E j \in 1 .. i - 1 : out[f][j] = 0

\* A sample that is published and comes back as a sample has its strings, up to their zeros,
\* and every number cut to the range of int (valueint), exactly: double, digits and the
\* widths of the fields lose nothing else, and an allocation that failed loses the sample.
ArrivesClamped ==
    pc = "done" /\ Own =>
        \A f \in Fields : IF f \in Strings THEN CString(out[f]) = sample[f]
                          ELSE out[f] = Clamp(sample[f])

\* The digits print_number takes keep the order of numbers, though it chooses their
\* precision number by number.
TextInOrder ==
    Own => \A f \in ToSet(Numbers) : Text(sample[f]) <= Text(sample[f] + 1)

\* A published number is exact below 10^15 and otherwise off by at most four parts in 2^53:
\* one for each of two doubles, two for compare_double.
TextIsClose ==
    Own => \A f \in ToSet(Numbers) :
        LET n == sample[f]
        IN  /\ Abs(n) < Short => Text(n) = n
            /\ Abs(Text(n) - n) * Mantissa <= 4 * Abs(n)

\* The text of a sample, parsed, is the tree that was printed, up to the digits of numbers:
\* cJSON's printer and parser agree on every name, string and bracket.
ParsesAsPrinted ==
    pc = "to_mqtt" =>
        Parse(PrintText(Object(Members(Fields)))) =
        Object([i \in 1..11 |->
            LET m == Members(Fields)[i]
            IN  IF m.item.type = "Number" THEN [m EXCEPT !.item.number = Double(PrintNumber(@))]
                ELSE m])

\* In the buffers of cJSON, print_string_ptr writes as many characters as it has counted, and
\* parse_string no more than it has allocated, whatever the string.  Of the sample that
\* strcpy writes to, this says nothing.
StringsFit ==
    /\ Own => \A f \in Strings : Len(PrintString(sample[f])) = OutputLength(sample[f]) + 1
    /\ \A t \in ToSet(payload) : t.kind = "string" /\ ParseString(t.raw).ok =>
            Len(ParseString(t.raw).bytes) < Allocated(t.raw)

\* How many arrays and objects the text is in behind its i-th token.
Depth(text, i) ==
    LET Count(kinds) == Cardinality({j \in 1..i : text[j].kind \in kinds})
    IN  Count({"[", "{"}) - Count({"]", "}"})

\* A payload that is written was nested no deeper than CJSON_NESTING_LIMIT (parse_array,
\* parse_object), counted over the brackets of the text up to the end of its value.
DepthIsLimited ==
    pc = "done" => \A i \in DOMAIN payload :
        (\A j \in 1 .. i - 1 : Depth(payload, j) > 0) => Depth(payload, i) <= NestingLimit

\* Claim of README.md:58-70, which publishes 6820785120 for int64_test and 25855901936 for
\* uint64_test: a number that the field's type has is what the sample gets.
FieldsArrive ==
    pc = "done" /\ ~Own =>
        \A f \in ToSet(Numbers) :
            LET item == Source(Parse(payload), f)
            IN  item.type = "Number" /\ item.number \in Values(f) => out[f] = item.number

\* Claim of dds2mqtt.config:4, that messages from DDS are sent to the MQTT network: what
\* is published of a sample has all its fields.
PublishedIsWhole == pc = "to_dds" /\ Own => Complies(Parse(payload))
=============================================================================
