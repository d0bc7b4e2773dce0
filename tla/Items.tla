------------------------------- MODULE Items --------------------------------
(***************************************************************************)
(* The items of cJSON.c and the calls of cJSON.h that create, link, copy,  *)
(* replace and delete them, by one client.  A call that fails and leaves   *)
(* all as it was is not an action.  The client keeps to what cJSON.h asks  *)
(* of it: it adds what it owns, and deletes what it owns; and what it      *)
(* builds with references neither leads back to itself nor loses what a    *)
(* reference points to.                                                    *)
(***************************************************************************)
EXTENDS ItemList

CONSTANTS
    Count,          \* bound: the numbers given to cJSON_CreateIntArray
    MaxStrings,     \* bound: the strings allocated
    MaxReferences   \* bound: the references there are

ASSUME ItemsAssumption == {Count, MaxStrings, MaxReferences} \subseteq Nat

VARIABLES
    mem,        \* the memory
    owned       \* the items the client has to delete

vars == <<mem, owned>>

Init == mem = NoMemory /\ owned = {}
-----------------------------------------------------------------------------
\* The items that lead on from item x.
AfterDelete(m, x) == {m.items[x].next} \cup IF m.items[x].isref THEN {} ELSE {m.items[x].child}
AfterWalk(m, x)   == {m.items[x].next, m.items[x].child}

\* Those that lead on from c in any number of steps.
Walked(m, c) ==
    LET at[d \in 0 .. Cardinality(Cells)] ==
            IF d = 0 THEN {c} \cap Live(m)
            ELSE LET near == at[d - 1]
                 IN  near \cup (UNION {AfterWalk(m, x) : x \in near} \cap Live(m))
    IN  at[Cardinality(Cells)]

Doomed(m, c) ==
    LET at[d \in 0 .. Cardinality(Cells)] ==
            IF d = 0 THEN {c} \cap Live(m)
            ELSE LET near == at[d - 1]
                 IN  near \cup (UNION {AfterDelete(m, x) : x \in near} \cap Live(m))
    IN  at[Cardinality(Cells)]

StringsOf(m, cells) == MapThenSumSet(LAMBDA c : OwnStrings(m.items[c]), cells)

\* cJSON_Delete: the item, those after it, and all below them but not through a reference.
Delete(m, c) ==
    LET gone == Doomed(m, c)
    IN  [items   |-> Restrict(m.items, Live(m) \ gone),
         strings |-> m.strings - StringsOf(m, gone)]

\* cJSON_New_Item; which free cell malloc gives makes no difference.
Free(m)          == Cells \ Live(m)
Fresh(m)         == CHOOSE c \in Free(m) : TRUE
Create(m, item)  == [items   |-> (Fresh(m) :> item) @@ m.items,
                     strings |-> m.strings + OwnStrings(item)]

\* create_reference, called with an item.
Reference(m, i) ==
    [m.items[i] EXCEPT !.name = NoName, !.isref = TRUE, !.next = NULL, !.prev = NULL]

\* cJSON_CreateIntArray and its likes for as long as malloc succeeds: the memory, the array
\* and the last item.
FilledArray(m, count, text) ==
    LET filled[k \in 0 .. count] ==
            IF k = 0 THEN <<Create(m, NewItem(FALSE)), Fresh(m), Fresh(m)>>
            ELSE LET s == filled[k - 1]
                     n == Fresh(s[1])
                     c == Create(s[1], NewItem(text))
                 IN  IF k = 1 THEN <<[c EXCEPT !.items[s[2]].child = n], s[2], n>>
                     ELSE <<SuffixObject(c, s[3], n), s[2], n>>
    IN  filled[count]
-----------------------------------------------------------------------------
\* cJSON_Duplicate when malloc succeeds left times, and no more: the memory, what is left
\* and the copy.
RECURSIVE Duplicate(_, _, _, _)

\* What its loop does with the copy d of an element: t.last is the copy of the one before.
Linked(t, d) ==
    [t EXCEPT !.last = d.copy, !.left = d.left,
              !.m = IF t.last # NULL THEN SuffixObject(d.m, t.last, d.copy)
                    ELSE [d.m EXCEPT !.items[t.copy].child = d.copy]]

\* Fault: an element that is not copied is passed over.
CopyElementGoesOn(t, child) ==
    LET d == Duplicate(t.m, child, TRUE, t.left)
    IN  IF t.failed THEN t ELSE IF d.copy = NULL THEN [t EXCEPT !.m = d.m] ELSE Linked(t, d)

CopyElement(t, child) ==
    LET d == Duplicate(t.m, child, TRUE, t.left)
    IN  IF t.failed THEN t
        ELSE IF d.copy = NULL THEN [t EXCEPT !.failed = TRUE, !.m = d.m]
        ELSE Linked(t, d)

Duplicate(m, c, recurse, left) ==
    LET x       == m.items[c]
        new     == Fresh(m)
        texts   == IF x.text THEN 1 ELSE 0
        needed  == 1 + texts + OwnName(x)
        bare    == [NewItem(x.text /\ left > 1) EXCEPT !.const = x.const]
        named   == [bare EXCEPT !.name = x.name]
        begun   == Create(m, IF left < needed THEN bare ELSE named)
        elements == IF recurse THEN Chain(m, x.child) ELSE <<>>
        filled  == FoldLeft(CopyElement,
                       [m |-> begun, copy |-> new, last |-> NULL, left |-> left - needed,
                        failed |-> left < needed],
                       elements)
        ended   == IF filled.last = NULL THEN filled.m
                   ELSE [filled.m EXCEPT !.items[filled.m.items[new].child].prev = filled.last]
    IN  IF left = 0 \/ Free(m) = {} THEN [m |-> m, left |-> 0, copy |-> NULL]
        ELSE IF filled.failed THEN [m |-> Delete(filled.m, new), left |-> 0, copy |-> NULL]
        ELSE [m |-> ended, left |-> filled.left, copy |-> new]
-----------------------------------------------------------------------------
\* What the client sees to: a reference points to an item that is there, and does not lead
\* back to itself.
SoundReferences(m) ==
    \A r \in Live(m) :
        m.items[r].isref /\ m.items[r].child # NULL =>
            m.items[r].child \in Live(m) /\ r \notin Walked(m, m.items[r].child)

Bounded(m) ==
    /\ m.strings <= MaxStrings
    /\ Cardinality({r \in Live(m) : m.items[r].isref}) <= MaxReferences

Becomes(m, now) ==
    /\ SoundReferences(m) /\ Bounded(m)
    /\ mem' = m
    /\ owned' = now

\* The items that can be given elements, and what can be added to p.
Parents    == {p \in Live(mem) : ~mem.items[p].isref /\ ~mem.items[p].text}
Givable(p) == {i \in owned : p \notin Doomed(mem, i)}

\* cJSON_CreateNull and the others; cJSON_CreateString and cJSON_CreateRaw have a text.
CreateItem(text) ==
    /\ Free(mem) # {}
    /\ Becomes(Create(mem, NewItem(text)), owned \cup {Fresh(mem)})

\* cJSON_CreateStringReference
CreateStringReference ==
    /\ Free(mem) # {}
    /\ Becomes(Create(mem, [NewItem(TRUE) EXCEPT !.isref = TRUE]), owned \cup {Fresh(mem)})

\* cJSON_CreateArrayReference and cJSON_CreateObjectReference
CreateReference(child) ==
    /\ Free(mem) # {}
    /\ Becomes(Create(mem, [NewItem(FALSE) EXCEPT !.isref = TRUE, !.child = child]),
               owned \cup {Fresh(mem)})

\* cJSON_CreateIntArray, cJSON_CreateFloatArray, cJSON_CreateDoubleArray and, with texts,
\* cJSON_CreateStringArray.
CreateIntArray(count, text) ==
    LET s     == FilledArray(mem, count, text)
        array == s[2]
        first == s[1].items[array].child
    IN  /\ Cardinality(Free(mem)) > count
        /\ Becomes(IF first = NULL THEN s[1] ELSE [s[1] EXCEPT !.items[first].prev = s[3]],
                   owned \cup {array})

\* The same when malloc fails after some items: the array is deleted.
CreateIntArrayFails(given, text) ==
    /\ Cardinality(Free(mem)) > given
    /\ Becomes(Delete(FilledArray(mem, given, text)[1], FilledArray(mem, given, text)[2]), owned)

\* cJSON_AddItemToArray
AddToArray(p, i) == Becomes(AddItemToArray(mem, p, i), owned \ {i})

\* cJSON_AddItemToObject and cJSON_AddItemToObjectCS
AddToObject(p, key, i, constant) ==
    Becomes(AddItemToArray(SetName(mem, i, key, constant), p, i), owned \ {i})

\* cJSON_AddNullToObject and the others.
AddNewToObject(p, key, text) ==
    LET new == Fresh(mem)
    IN  /\ Free(mem) # {}
        /\ Becomes(AddItemToArray(SetName(Create(mem, NewItem(text)), new, key, FALSE), p, new),
                   owned)

\* cJSON_AddItemReferenceToArray
AddItemReferenceToArray(p, i) ==
    /\ Free(mem) # {}
    /\ Becomes(AddItemToArray(Create(mem, Reference(mem, i)), p, Fresh(mem)), owned)

\* cJSON_AddItemReferenceToObject: without memory for the name the reference stays behind.
AddItemReferenceToObject(p, key, i) ==
    LET new     == Fresh(mem)
        created == Create(mem, Reference(mem, i))
    IN  /\ Free(mem) # {}
        /\ \/ Becomes(AddItemToArray(SetName(created, new, key, FALSE), p, new), owned)
           \/ Becomes(created, owned)

\* cJSON_DetachItemFromArray
DetachItemFromArray(p, which) ==
    LET i == GetArrayItem(mem, p, which)
    IN  i # NULL /\ Becomes(Detach(mem, p, i), owned \cup {i})

\* cJSON_DeleteItemFromArray
DeleteItemFromArray(p, which) ==
    LET i == GetArrayItem(mem, p, which)
    IN  i # NULL /\ Becomes(Delete(Detach(mem, p, i), i), owned)

\* cJSON_DetachItemFromObject, or cJSON_DetachItemFromObjectCaseSensitive; i is the member found.
DetachItemFromObject(p, i) == i # NULL /\ Becomes(Detach(mem, p, i), owned \cup {i})

\* cJSON_DeleteItemFromObject, or cJSON_DeleteItemFromObjectCaseSensitive.
DeleteItemFromObject(p, i) == i # NULL /\ Becomes(Delete(Detach(mem, p, i), i), owned)

\* cJSON_InsertItemInArray
InsertItemInArray(p, which, i) == Becomes(Insert(mem, p, which, i), owned \ {i})

\* Fault: what is replaced stays behind.
ReplaceViaPointerKeeps(m, p, i, r) == Exchange(m, p, i, r)

\* cJSON_ReplaceItemViaPointer, called with an element and another item that is in no list.
ReplaceViaPointer(m, p, i, r) == Delete(Exchange(m, p, i, r), i)

\* cJSON_ReplaceItemInArray
ReplaceItemInArray(p, which, r) ==
    LET i == GetArrayItem(mem, p, which)
    IN  i # NULL /\ Becomes(ReplaceViaPointer(mem, p, i, r), owned \ {r})

\* replace_item_in_object: r is renamed first, and is without a name when strdup fails, even
\* where there is no such member.
ReplaceItemInObject(p, key, r, sensitive) ==
    \E given \in BOOLEAN :
        LET bare  == [SetName(mem, r, NoName, TRUE) EXCEPT !.items[r].const = FALSE]
            named == IF given THEN SetName(bare, r, key, FALSE) ELSE bare
            i     == IF sensitive THEN GetMember(named, p, key)
                     ELSE GetMemberAnyCase(named, p, key)
        IN  IF i = NULL THEN Becomes(named, owned)
            ELSE Becomes(ReplaceViaPointer(named, p, i, r), owned \ {r})

\* cJSON_Delete
DeleteItem(i) == Becomes(Delete(mem, i), owned \ {i})

\* More than any copy takes: three for each item.
Plenty == 3 * Cardinality(Cells)

\* cJSON_Duplicate
DuplicateItem(i, recurse, left) ==
    LET d == Duplicate(mem, i, recurse, left)
    IN  Becomes(d.m, IF d.copy = NULL THEN owned ELSE owned \cup {d.copy})

\* Every position, and the first beyond.
Positions(p) == 0 .. Len(Elements(mem, p))

Found(p, key) == {GetMember(mem, p, key), GetMemberAnyCase(mem, p, key)}

Next ==
    \/ \E text \in BOOLEAN : CreateItem(text)
    \/ CreateStringReference
    \/ \E child \in Live(mem) : CreateReference(child)
    \/ \E count \in 0 .. Count, text \in BOOLEAN :
          CreateIntArray(count, text) \/ CreateIntArrayFails(count, text)
    \/ \E i \in owned : DeleteItem(i)
    \/ \E i \in Live(mem), recurse \in BOOLEAN, left \in {Plenty} :
          DuplicateItem(i, recurse, left)
    \/ \E p \in Parents :
          \/ \E which \in Positions(p) : DetachItemFromArray(p, which) \/ DeleteItemFromArray(p, which)
          \/ \E i \in Givable(p) :
                \/ AddToArray(p, i)
                \/ \E which \in Positions(p) :
                      InsertItemInArray(p, which, i) \/ ReplaceItemInArray(p, which, i)
          \/ \E i \in Live(mem) : AddItemReferenceToArray(p, i)
          \/ \E key \in Keys :
                \/ \E text \in BOOLEAN : AddNewToObject(p, key, text)
                \/ \E i \in Live(mem) : AddItemReferenceToObject(p, key, i)
                \/ \E i \in Found(p, key) : DetachItemFromObject(p, i) \/ DeleteItemFromObject(p, i)
                \/ \E i \in Givable(p), constant \in BOOLEAN : AddToObject(p, key, i, constant)
                \/ \E i \in Givable(p), sensitive \in BOOLEAN :
                      ReplaceItemInObject(p, key, i, sensitive)

Spec == Init /\ [][Next]_vars
-----------------------------------------------------------------------------
\* Every item is one, and the client has those that are there.
TypeOK ==
    /\ Live(mem) \subseteq Cells
    /\ mem.items \in [Live(mem) ->
          [next : Cells \cup {NULL}, prev : Cells \cup {NULL}, child : Cells \cup {NULL},
           isref : BOOLEAN, const : BOOLEAN, name : Keys \cup {NoName}, text : BOOLEAN]]
    /\ mem.strings \in Nat
    /\ owned \subseteq Live(mem)

\* The elements of every item are doubly linked, prev of the first is the last, and none is in
\* two lists; what is in no list is linked to nothing (cJSON.h:106).
ListsIntact ==
    /\ \A p \in {q \in Live(mem) : ~mem.items[q].isref} :
          LET s == Elements(mem, p)
          IN  /\ ToSet(s) \subseteq Live(mem) \ owned /\ IsInjective(s)
              /\ \A k \in DOMAIN s :
                    /\ mem.items[s[k]].next = IF k = Len(s) THEN NULL ELSE s[k + 1]
                    /\ mem.items[s[k]].prev = s[IF k = 1 THEN Len(s) ELSE k - 1]
              /\ \A q \in Live(mem) \ {p} :
                    ~mem.items[q].isref => ToSet(s) \cap ToSet(Elements(mem, q)) = {}
    /\ \A c \in owned : mem.items[c].next = NULL /\ mem.items[c].prev = NULL

\* The client can delete every item there is, unless it is a reference whose name could not be
\* allocated: nothing else is left behind by a call that fails or replaces.
OnlyReferencesLeak ==
    \A c \in Live(mem) \ UNION {Doomed(mem, i) : i \in owned} : mem.items[c].isref

\* As many strings are allocated as the items will free: none leaks and none is freed twice,
\* whatever is renamed, shared, copied or replaced.
StringsBalance == mem.strings = StringsOf(mem, Live(mem))

\* What item c says, and those below it to a depth.  A copy is no reference, and of nobody's
\* strings.
Says(m, c) ==
    LET says[x \in Live(m), depth \in 0 .. Cardinality(Cells)] ==
            <<m.items[x].name, m.items[x].text,
              IF depth = 0 THEN <<>>
              ELSE LET below == Chain(m, m.items[x].child)
                   IN  [k \in DOMAIN below |-> says[below[k], depth - 1]]>>
    IN  says[c, Cardinality(Cells)]

\* The copy of any item says the same, shares no item and is linked to nothing, next and prev
\* being zero (cJSON.h:251-253); one that malloc fails at any point leaves the memory as it was.
CopyIsIdentical ==
    \A c \in Live(mem), left \in 0 .. Plenty :
        LET d == Duplicate(mem, c, TRUE, left)
            x == d.m.items[d.copy]
        IN  IF d.copy = NULL THEN d.m = mem
            ELSE /\ Says(d.m, d.copy) = Says(mem, c)
                 /\ \A i \in Live(mem) : d.m.items[i] = mem.items[i]
                 /\ Doomed(d.m, d.copy) = Live(d.m) \ Live(mem)
                 /\ x.next = NULL /\ x.prev = NULL /\ ~x.isref

\* The calls leave trees of items, as Trees has them.  A reference has no members of its own.
Abstract == INSTANCE Trees WITH
    alive   <- Live(mem),
    members <- [c \in Cells |->
                   IF c \in Live(mem) /\ ~mem.items[c].isref THEN Elements(mem, c) ELSE <<>>]

Implements == Abstract!Spec
=============================================================================
