------------------------------ MODULE ItemList ------------------------------
(***************************************************************************)
(* The lists of items of cJSON.c.  An item's elements are linked by next   *)
(* and prev; prev of the first is the last, which is how the end of a list *)
(* is found; next of the last is NULL.  Nothing is assumed of the lists    *)
(* here: every operator does what the C function does to any memory.       *)
(***************************************************************************)
EXTENDS Naturals, SequencesExt, TLC

CONSTANTS
    Cells,    \* the addresses of items
    NULL,     \* the null pointer
    Keys,     \* the names of members
    NoName    \* item->string is NULL

ASSUME ItemListAssumption ==
    /\ IsFiniteSet(Cells) /\ NULL \notin Cells
    /\ NoName \notin Keys

\* struct cJSON.  isref and const are the flags cJSON_IsReference and cJSON_StringIsConst of
\* type, name is string, and text is whether there is a valuestring.
NewItem(text) ==
    [next |-> NULL, prev |-> NULL, child |-> NULL, isref |-> FALSE, const |-> FALSE,
     name |-> NoName, text |-> text]

\* The memory m: the items there are, and how many strings are allocated.
NoMemory == [items |-> <<>>, strings |-> 0]
Live(m)  == DOMAIN m.items

\* What the list that starts with c holds, as a sequence; it ends at a pointer to no item.  The
\* loops over elements follow next: from[n][x] is what they see from x on in n turns.
Chain(m, c) ==
    LET from[n \in 0 .. Cardinality(Cells) + 1] ==
            [x \in Cells \cup {NULL} |->
                IF x = NULL \/ n = 0 THEN <<>>
                ELSE <<x>> \o IF x \in Live(m) THEN from[n - 1][m.items[x].next] ELSE <<>>]
    IN  from[Cardinality(Cells) + 1][c]

Elements(m, p) == Chain(m, m.items[p].child)

\* get_array_item; positions start with 0.
GetArrayItem(m, p, which) ==
    IF which < Len(Elements(m, p)) THEN Elements(m, p)[which + 1] ELSE NULL

\* get_object_item with case_sensitive: an item without a name ends the search.
GetMember(m, p, key) ==
    LET i == SelectInSeq(Elements(m, p), LAMBDA x : m.items[x].name \in {key, NoName})
    IN  IF i = 0 \/ m.items[Elements(m, p)[i]].name = NoName THEN NULL
        ELSE Elements(m, p)[i]

\* get_object_item without: case_insensitive_strcmp passes over it.
GetMemberAnyCase(m, p, key) ==
    LET i == SelectInSeq(Elements(m, p), LAMBDA x : m.items[x].name = key)
    IN  IF i = 0 THEN NULL ELSE Elements(m, p)[i]
-----------------------------------------------------------------------------
SuffixObject(m, p, i) == [m EXCEPT !.items[p].next = i, !.items[i].prev = p]

\* Fault: prev of the first is not moved on to the new last.
AddItemToArrayLoses(m, p, i) ==
    LET first == m.items[p].child
    IN  IF first = NULL
        THEN [m EXCEPT !.items[p].child = i, !.items[i].prev = i, !.items[i].next = NULL]
        ELSE SuffixObject(m, m.items[first].prev, i)

\* add_item_to_array
AddItemToArray(m, p, i) ==
    LET first == m.items[p].child
        last  == m.items[first].prev
    IN  IF first = NULL
        THEN [m EXCEPT !.items[p].child = i, !.items[i].prev = i, !.items[i].next = NULL]
        ELSE IF last = NULL THEN m
        ELSE [SuffixObject(m, last, i) EXCEPT !.items[first].prev = i]

\* Fault: a constant name is freed too.
OwnNameAny(item) == IF item.name # NoName THEN 1 ELSE 0

\* What cJSON_Delete frees of an item besides the item: a name that is not constant and a
\* valuestring that is not another's.
OwnName(item)    == IF item.name # NoName /\ ~item.const THEN 1 ELSE 0
OwnStrings(item) == OwnName(item) + IF item.text /\ ~item.isref THEN 1 ELSE 0

\* Fault: the name an item had is not freed.
SetNameLeaks(m, i, key, constant) ==
    [m EXCEPT !.items[i].name = key, !.items[i].const = constant,
              !.strings = @ + (IF constant THEN 0 ELSE 1)]

\* add_item_to_object: the old name goes, unless it is constant, and key or a copy of it comes.
SetName(m, i, key, constant) ==
    [m EXCEPT !.items[i].name = key, !.items[i].const = constant,
              !.strings = @ + (IF constant THEN 0 ELSE 1) - OwnName(m.items[i])]

\* Fault: the item keeps its links.
DetachKeepsLinks(m, p, i) ==
    IF i = m.items[p].child THEN [m EXCEPT !.items[p].child = m.items[i].next]
    ELSE [m EXCEPT !.items[m.items[i].prev].next = m.items[i].next]

\* cJSON_DetachItemViaPointer
Detach(m, p, i) ==
    LET x       == m.items[i]
        first   == m.items[p].child
        forward == IF i # first THEN [m EXCEPT !.items[x.prev].next = x.next] ELSE m
        back    == IF x.next # NULL THEN [forward EXCEPT !.items[x.next].prev = x.prev]
                   ELSE forward
        parent  == IF i = first THEN [back EXCEPT !.items[p].child = x.next]
                   ELSE IF x.next = NULL THEN [back EXCEPT !.items[first].prev = x.prev]
                   ELSE back
    IN  [parent EXCEPT !.items[i].prev = NULL, !.items[i].next = NULL]

\* cJSON_InsertItemInArray
Insert(m, p, which, i) ==
    LET after  == GetArrayItem(m, p, which)
        before == m.items[after].prev
        linked == [m EXCEPT !.items[i].next = after, !.items[i].prev = before,
                            !.items[after].prev = i]
    IN  IF after = NULL THEN AddItemToArray(m, p, i)
        ELSE IF after = m.items[p].child THEN [linked EXCEPT !.items[p].child = i]
        ELSE [linked EXCEPT !.items[before].next = i]

\* cJSON_ReplaceItemViaPointer up to the deletion of i, which is cut off.
Exchange(m, p, i, r) ==
    LET x      == m.items[i]
        taken  == [m EXCEPT !.items[r].next = x.next, !.items[r].prev = x.prev]
        back   == IF x.next # NULL THEN [taken EXCEPT !.items[x.next].prev = r] ELSE taken
        first  == m.items[p].child
        only   == back.items[first].prev = first
        parent == IF first = i
                  THEN [back EXCEPT !.items[r].prev = IF only THEN r ELSE @,
                                    !.items[p].child = r]
                  ELSE [back EXCEPT !.items[x.prev].next = r,
                                    !.items[first].prev = IF x.next = NULL THEN r ELSE @]
    IN  [parent EXCEPT !.items[i].next = NULL, !.items[i].prev = NULL]
=============================================================================
