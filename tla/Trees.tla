------------------------------- MODULE Trees --------------------------------
(***************************************************************************)
(* What cJSON.h offers: items, each with a sequence of members, that form  *)
(* trees.  Nothing here can be in two trees, be lost or stay behind.       *)
(* Items.tla implements this.                                              *)
(***************************************************************************)
EXTENDS Naturals, SequencesExt

CONSTANT Cells

VARIABLES
    alive,      \* the items there are
    members     \* members[c]: those of item c, in order

Members(c) == ToSet(members[c])

Root(c) == c \in alive /\ \A p \in alive : c \notin Members(p)

\* The items of the tree of c.
Tree(c) ==
    LET level[d \in 0 .. Cardinality(Cells)] ==
            IF d = 0 THEN {c}
            ELSE LET above == level[d - 1] IN above \cup UNION {Members(x) : x \in above}
    IN  level[Cardinality(Cells)]

Init ==
    /\ alive = {}
    /\ members = [c \in Cells |-> <<>>]

\* The items in gone are no more, p gets the members given, and the others keep theirs.
Becomes(gone, p, given) ==
    /\ alive' = alive \ gone
    /\ members' = [c \in Cells |-> IF c \in gone THEN <<>> ELSE IF c = p THEN given ELSE members[c]]

\* A new tree, of one item or more, that shares nothing with those there are.
New ==
    LET new == alive' \ alive
    IN  /\ alive \subseteq alive' /\ new # {}
        /\ \A c \in Cells \ new : members'[c] = members[c]
        /\ \A c \in new : IsInjective(members'[c])
        /\ \E r \in new :
              /\ Root(r)' /\ Tree(r)' = new
              /\ \A c \in new \ {r} : Cardinality({p \in alive' : c \in Members(p)'}) = 1

\* A tree becomes a member of an item outside it.
Put(p, k, c) ==
    /\ Becomes({}, p, InsertAt(members[p], k, c))
    /\ Root(c) /\ p \notin Tree(c)

\* A new item becomes the last member, both or neither.
PutNew(p, c) ==
    /\ c \notin alive
    /\ alive' = alive \cup {c}
    /\ members' = [members EXCEPT ![p] = Append(@, c)]

Take(p, k) == Becomes({}, p, RemoveAt(members[p], k))

Destroy(c) == Root(c) /\ Becomes(Tree(c), c, <<>>)

DestroyMember(p, k) == Becomes(Tree(members[p][k]), p, RemoveAt(members[p], k))

\* The member that c replaces is destroyed.
Replace(p, k, c) ==
    /\ Becomes(Tree(members[p][k]), p, ReplaceAt(members[p], k, c))
    /\ Root(c) /\ p \notin Tree(c)

Gone    == alive \ alive'
Changed == {p \in alive : members'[p] # members[p]}

Next ==
    \/ New
    \/ \E c \in Gone : Destroy(c)
    \/ \E p \in Changed :
          \/ \E c \in alive' \ alive : PutNew(p, c)
          \/ \E c \in Members(p)', k \in DOMAIN members'[p] : Put(p, k, c)
          \/ \E k \in DOMAIN members[p] :
                \/ Take(p, k)
                \/ DestroyMember(p, k)
                \/ \E c \in Members(p)' : Replace(p, k, c)

Spec == Init /\ [][Next]_<<alive, members>>
=============================================================================
