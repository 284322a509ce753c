------------------------------ MODULE NameTrie -------------------------------
(***************************************************************************)
(* The search tree of src/src/namespace.c behind the path index and the    *)
(* class index: one node per character, siblings in one list kept in       *)
(* character order.                                                        *)
(*                                                                         *)
(* A node is named by the string that leads to it, <<>> being the root;    *)
(* its record holds the Value that ends there and the characters of its    *)
(* Child list in list order.  Characters are numbers.  A Value of 0 is     *)
(* "no key ends here".                                                     *)
(***************************************************************************)
EXTENDS Integers, Sequences, SequencesExt, FiniteSets

CONSTANTS Keys,     \* the strings that are registered
          Strings,  \* the strings that are looked up
          Values,   \* what they stand for: instances, classes
          MaxDepth  \* the size of NSDelete's path arrays, 512 in the code

ConstantsOK ==
    /\ Keys \subseteq Strings /\ Strings \subseteq Seq(Nat) \ {<<>>}
    /\ Values \subseteq Nat \ {0} /\ MaxDepth \in Nat
    /\ \A k \in Keys : Len(k) <= MaxDepth

VARIABLES trie,   \* the nodes
          alive,  \* nsAlive
          named   \* history: what each key was last registered as, or 0

vars == <<trie, alive, named>>

Init ==
    /\ trie = [p \in {<<>>} |-> [value |-> 0, kids |-> <<>>]] /\ alive = 1
    /\ named = [k \in Keys |-> 0]

TypeOK ==
    /\ <<>> \in DOMAIN trie /\ alive \in Nat
    /\ \A p \in DOMAIN trie :
           /\ trie[p].value \in Values \cup {0}
           /\ \A j \in DOMAIN trie[p].kids : Append(p, trie[p].kids[j]) \in DOMAIN trie
    /\ named \in [Keys -> Values \cup {0}]

-----------------------------------------------------------------------------
\* Faulty variant: a new character goes to the end of the list.
AddSiblingLast(kids, c) == IF c \in Range(kids) THEN kids ELSE Append(kids, c)

\* A character's place in a Child list: before the first one not below it.
AddSibling(kids, c) ==
    LET at == Min({j \in DOMAIN kids : kids[j] >= c} \cup {Len(kids) + 1})
    IN  IF at <= Len(kids) /\ kids[at] = c THEN kids ELSE InsertAt(kids, at, c)

\* The level re-links around the node that is freed.
DelSibling(kids, c) == RemoveAt(kids, CHOOSE j \in DOMAIN kids : kids[j] = c)

Kids(p)  == IF p \in DOMAIN trie THEN trie[p].kids ELSE <<>>
Value(p) == IF p \in DOMAIN trie THEN trie[p].value ELSE 0

\* The crawl of NSInsert adds the nodes that are missing on the way.
NSInsert(s, v) ==
    [p \in DOMAIN trie \cup Prefixes(s) |->
        [value |-> IF p = s THEN v ELSE Value(p),
         kids  |-> IF IsStrictPrefix(p, s) THEN AddSibling(Kids(p), s[Len(p) + 1])
                                           ELSE Kids(p)]]

\* One round of NSSearch's loop at node p: the node whose subtree it goes on
\* with, or nothing.  When the walk along the siblings stops at a LARGER
\* character the code goes on with that one's children all the same.
Stop == <<-1>>
SearchStep(p, c) ==
    LET kids == Kids(p)
        ends == {j \in DOMAIN kids : kids[j] >= c}
    IN  IF p = Stop \/ kids = <<>> \/ ends = {} THEN Stop
        ELSE IF kids[1] > c THEN Stop
        ELSE Append(p, kids[Min(ends)])

NSSearch(s) ==
    LET at[i \in 0 .. Len(s)] == IF i = 0 THEN <<>> ELSE SearchStep(at[i - 1], s[i])
        end == at[Len(s)]
    IN  IF end # Stop /\ Last(end) = Last(s) THEN Value(end) ELSE 0

\* A node that ends another key than s, or leads to one, is not freed.
Carries(p, s) ==
    \/ p = <<>>
    \/ p # s /\ Value(p) # 0
    \/ Len(Kids(p)) > (IF p = s THEN 0 ELSE 1)

\* NSDelete clears the value and frees, from the end of the string upwards,
\* every node that neither ends another key nor leads to one.
NSDelete(s) ==
    LET keep == CHOOSE p \in Prefixes(s) :
                    Carries(p, s) /\ \A q \in Prefixes(s) : Carries(q, s) => Len(q) <= Len(p)
        gone == {p \in Prefixes(s) : Len(p) > Len(keep)}
    IN  [p \in DOMAIN trie \ gone |->
            [value |-> IF p = s THEN 0 ELSE Value(p),
             kids  |-> IF p = keep /\ keep # s
                       THEN DelSibling(Kids(p), s[Len(p) + 1])
                       ELSE Kids(p)]]

-----------------------------------------------------------------------------
Register(k, v) ==
    /\ trie' = NSInsert(k, v)
    /\ alive' = alive + Cardinality(Prefixes(k) \ DOMAIN trie)
    /\ named' = [named EXCEPT ![k] = v]

\* A string that is not a key, or is too long to follow, deletes nothing.
Unregister(k) ==
    /\ Len(k) <= MaxDepth /\ k \in DOMAIN trie /\ Value(k) # 0
    /\ trie' = NSDelete(k)
    /\ alive' = alive - Cardinality(DOMAIN trie \ DOMAIN trie')
    /\ named' = [named EXCEPT ![k] = 0]

Next == \E k \in Keys : Unregister(k) \/ \E v \in Values : Register(k, v)

Spec == Init /\ [][Next]_vars

-----------------------------------------------------------------------------
(* Properties *)

\* Every registered name is found under what it was registered as last,
\* whichever other names were registered and deleted around it.
KeysFound == \A k \in Keys : named[k] # 0 => NSSearch(k) = named[k]

\* The tree holds the characters of the registered names and no more: every
\* node that a deletion leaves behind still leads to a name, and nsAlive
\* counts them.
NoLeftovers ==
    /\ DOMAIN trie = {<<>>} \cup UNION {Prefixes(k) : k \in {n \in Keys : named[n] # 0}}
    /\ alive = Cardinality(DOMAIN trie)

\* Registering and deleting keep the tree exact.
TreeExact == KeysFound /\ NoLeftovers

\* A string that is not registered is not found.
MissesReported ==
    \A s \in Strings : (s \notin Keys \/ named[s] = 0) => NSSearch(s) = 0
==============================================================================
