----------------------------- MODULE PathIndex -------------------------------
(***************************************************************************)
(* Where instances are and what they are called: the Name and Container    *)
(* properties, the path index and the containers' Members lists            *)
(* (src/src/object.c), and the bridge commands and script verbs that       *)
(* create, rename, move and delete (src/objects/bridge/bridge.c,           *)
(* src/objects/script/script.c).                                           *)
(*                                                                         *)
(* A path is the sequence of its names, and a name is a sequence of        *)
(* letters, because RepathSubtree compares paths as strings.  The index is *)
(* taken to find exactly what was registered; NameTrie is about that.      *)
(*                                                                         *)
(* A container given as "" stands for the root view, and an alias may be   *)
(* asked for under a full path in its container, under a short name        *)
(* without a slash, which is a key to look it up by and no place, or under *)
(* no name.                                                                *)
(*                                                                         *)
(* `Rash` is what clients do although the code does not cope with it:      *)
(*   "taken"  create or move something onto a name that is taken;          *)
(*   "gone"   move something to a container that does not exist;           *)
(*   "inside" write a Container that lies inside the thing itself;         *)
(*   "spill"  destroy what holds something, other than by deleting it;     *)
(*   "canvas" put what is in the root view into "", or make an alias in "" *)
(*            and say what it is to be called;                             *)
(*   "short"  give a new thing a short name.                               *)
(* Nobody renames, moves or deletes the root view.                         *)
(***************************************************************************)
EXTENDS Naturals, Sequences, SequencesExt, FiniteSets

CONSTANTS Insts, Root, NULL,
          Controls, \* bound: the instances that may be made as aliases
          Names,    \* the names clients give
          Rash

ASSUME PathIndexAssumption ==
    /\ Root \in Insts /\ NULL \notin Insts /\ IsFiniteSet(Insts)
    /\ Controls \subseteq Insts
    /\ \A n \in Names : n \in Seq(Nat) /\ n # <<>>
    /\ Rash \subseteq {"taken", "gone", "inside", "spill", "canvas", "short"}

\* Who is live, the index, and of every instance its Name, its Container, its
\* Members, the instance its Value is linked to and its Target string.
VARIABLE ix

RootName == <<0>>

\* The path of a container that is "", and what the bridge takes it to mean.
Canvas == <<>>
Home(container) == IF container = Canvas THEN <<RootName>> ELSE container

\* A name without a slash in front; no name that is given is empty.
ShortKey(n) == <<<<>>, n>>
IsShort(p)  == p # <<>> /\ p[1] = <<>>

Init == ix = [live    |-> {Root},
              name    |-> [i \in Insts |-> IF i = Root THEN RootName ELSE <<>>],
              cont    |-> [i \in Insts |-> <<>>],
              key     |-> [p \in {<<RootName>>} |-> Root],
              members |-> [i \in Insts |-> {}],
              link    |-> [i \in Insts |-> NULL],
              target  |-> [i \in Insts |-> <<>>]]

-----------------------------------------------------------------------------
(* The index *)

ResolvePath(S, p) == IF p \in DOMAIN S.key THEN S.key[p] ELSE NULL

\* PathOfInstance: Container and Name give the path, if that leads back.
PathOf(S, i)  == Append(S.cont[i], S.name[i])
HasPath(S, i) == ResolvePath(S, PathOf(S, i)) = i

ContainerOfPath(S, p) == IF Len(p) = 1 THEN NULL ELSE ResolvePath(S, Front(p))

UnregisterPath(S, p) ==
    LET i == ResolvePath(S, p)
        c == ContainerOfPath(S, p)
    IN  [S EXCEPT !.key = Restrict(S.key, DOMAIN S.key \ {p}),
                  !.members = IF i # NULL /\ c # NULL THEN [S.members EXCEPT ![c] = @ \ {i}]
                              ELSE S.members]

\* RegisterPath: retire an older name and take the Name, enter the path over
\* whatever was there, take Container from it, and tell the container.  A short
\* key neither retires nor names anything.
RetireOlder(S, p, i) ==
    IF HasPath(S, i) /\ PathOf(S, i) # p THEN UnregisterPath(S, PathOf(S, i)) ELSE S

TakeName(S, p, i) ==
    IF IsShort(p) THEN S ELSE [RetireOlder(S, p, i) EXCEPT !.name[i] = Last(p)]

EnterPath(A, p, i) ==
    LET K == [x \in DOMAIN A.key \cup {p} |-> IF x = p THEN i ELSE A.key[x]]
        B == [A EXCEPT !.key = K]
        c == ContainerOfPath(B, p)
    IN  IF c = NULL THEN B
        ELSE [B EXCEPT !.cont[i] = Front(p), !.members[c] = @ \cup {i}]

RegisterPath(S, p, i) == EnterPath(TakeName(S, p, i), p, i)

\* DeleteInstance un-names what still has a path, unlinks its aliases, which
\* keep their Target string, and frees it.
DeleteInstance(S, i) ==
    LET A == IF HasPath(S, i) THEN UnregisterPath(S, PathOf(S, i)) ELSE S
    IN  [A EXCEPT !.live = @ \ {i}, !.name[i] = <<>>, !.cont[i] = <<>>, !.members[i] = {},
                  !.link = [j \in Insts |-> IF i \in {j, @[j]} THEN NULL ELSE @[j]],
                  !.target[i] = <<>>]

-----------------------------------------------------------------------------
(* Renames and moves *)

\* strncmp(cont, old, strlen(old)) = 0: old's last name may end inside a name.
StartsWith(cont, old) ==
    LET k == Len(old)
    IN  Len(cont) >= k /\ Front(old) = SubSeq(cont, 1, k - 1) /\ IsPrefix(Last(old), cont[k])

\* new followed by what comes after old in cont.
Swap(cont, old, new) ==
    LET k == Len(old)
        rest == SubSeq(cont[k], Len(Last(old)) + 1, Len(cont[k]))
    IN  Append(Front(new), Last(new) \o rest) \o SubSeq(cont, k + 1, Len(cont))

\* The instances whose path begins with p and a slash.
Inside(S, p) == {i \in S.live : HasPath(S, i) /\ IsStrictPrefix(p, PathOf(S, i))}

\* Faulty variants: the Container is left as it is; every descendant lands
\* directly under the new path.
RepathKeepsContainer(S, i, p, old, new) ==
    RegisterPath(UnregisterPath(S, p), new \o SubSeq(p, Len(old) + 1, Len(p)), i)
RepathFlat(S, i, p, old, new) ==
    RegisterPath(UnregisterPath(S, p), Append(new, Last(p)), i)

\* One round of Bridge_RepathSubtree's loop.
RepathOne(S, i, p, old, new) ==
    LET A == RegisterPath(UnregisterPath(S, p), new \o SubSeq(p, Len(old) + 1, Len(p)), i)
    IN  IF StartsWith(A.cont[i], old)
        THEN [A EXCEPT !.cont[i] = Swap(@, old, new)] ELSE A

\* The aliases that name something in the moved subtree.
Retarget(S, old, new) ==
    LET told(i) == i \in S.live /\ S.link[i] # NULL /\ HasPath(S, i) /\ IsPrefix(old, S.target[i])
    IN  [S EXCEPT !.target = [i \in Insts |->
            IF told(i) THEN new \o SubSeq(@[i], Len(old) + 1, Len(@[i])) ELSE @[i]]]

\* Descendants are collected first and come in the order of the registry: by
\* class, containers and contents mixed.
RepathSubtree(S, order, old, new) ==
    LET after[k \in 0 .. Len(order)] ==
            IF k = 0 THEN S
            ELSE RepathOne(after[k - 1], order[k], PathOf(S, order[k]), old, new)
    IN  Retarget(after[Len(order)], old, new)

\* The re-key both renames share; S has the new Name or Container already.
Rekey(S, i, old, new) == RegisterPath(UnregisterPath(S, old), new, i)

\* What both renames do after their checks.
Renamed(S, i, old, new) ==
    LET A == Rekey(S, i, old, new)
    IN  \E order \in SetToSeqs(Inside(A, old)) : ix' = RepathSubtree(A, order, old, new)

ContainmentCycle(p, container) == IsPrefix(p, container)

-----------------------------------------------------------------------------
(* Commands; p is the path a client names *)

Taken(S, p) == ResolvePath(S, p) # NULL

\* create-instance and the scripts' create: in a container that has a path,
\* under a free name; a taken one makes the bridge mint another, while scripts
\* and forced creates go ahead.  A short name names the thing in its container
\* and is entered as it is besides.
Create(i, c, n, short) ==
    LET p == Append(PathOf(ix, c), n)
        A == RegisterPath([ix EXCEPT !.live = @ \cup {i}, !.cont[i] = PathOf(ix, c)], p, i)
    IN  /\ i \notin ix.live /\ c \in ix.live /\ HasPath(ix, c)
        /\ Taken(ix, p) => "taken" \in Rash
        /\ short => "short" \in Rash /\ ~Taken(ix, ShortKey(n))
        /\ ix' = IF short THEN RegisterPath(A, ShortKey(n), i) ELSE A

\* What an alias may be asked to be called; <<>> is no name.
Asked(home) == {<<>>} \cup {Append(home, n) : n \in Names} \cup {ShortKey(n) : n \in Names}

\* create-alias: a control whose Value is the target's, or the one the target
\* stands for itself.  The engine makes it under a name it mints, one that is
\* free.  The bridge then writes the Container the client gave, and registers
\* the name that was asked for, or the minted one again if there is none or it
\* is taken.
CreateAlias(i, container, t, minted, as) ==
    LET c == ResolvePath(ix, Home(container))
        home == PathOf(ix, c)
        owner == IF ix.link[t] = NULL THEN t ELSE ix.link[t]
        A == RegisterPath([ix EXCEPT !.live = @ \cup {i}, !.cont[i] = home], Append(home, minted), i)
        B == [A EXCEPT !.link[i] = owner, !.cont[i] = container,
                       !.target[i] = IF HasPath(A, owner) THEN PathOf(A, owner) ELSE @]
        kept == as = <<>> \/ Taken(B, as)
    IN  /\ i \notin ix.live /\ t \in ix.live /\ c # NULL /\ HasPath(ix, c)
        /\ ~Taken(ix, Append(home, minted))
        /\ container = Canvas /\ ~kept => "canvas" \in Rash
        /\ IsShort(as) /\ ~kept => "short" \in Rash
        /\ ix' = RegisterPath(B, IF kept THEN Append(Home(container), minted) ELSE as, i)

\* set-property Name, of something whose path was found before the write.
SetName(p, n) ==
    LET i == ResolvePath(ix, p)
        old == PathOf(ix, i)
        new == Append(Home(Front(old)), n)
    IN  /\ i \notin {NULL, Root}
        /\ IF HasPath(ix, i)
           THEN new # old /\ ~Taken(ix, new) /\ Renamed([ix EXCEPT !.name[i] = n], i, old, new)
           ELSE ix' = [ix EXCEPT !.name[i] = n]

\* Bridge_Rename after the new Container has been written, "" as it is.
Rename(i, old, container) ==
    LET new == Append(Home(container), Last(old))
        S == [ix EXCEPT !.cont[i] = container]
    IN  /\ Taken(ix, new) /\ new # old => "taken" \in Rash
        /\ ~Taken(ix, Home(container)) => "gone" \in Rash
        /\ container = Canvas /\ new = old => "canvas" \in Rash
        /\ IF new = old THEN ix' = S ELSE Renamed(S, i, old, new)

\* move-instance: refused into itself, whatever path the client knew it by.
Move(p, container) ==
    LET i == ResolvePath(ix, p)
        old == IF HasPath(ix, i) THEN PathOf(ix, i) ELSE p
    IN  /\ i \notin {NULL, Root}
        /\ ~ContainmentCycle(old, container)
        /\ Rename(i, old, container)

\* set-property Container has no such check.
SetContainer(p, container) ==
    LET i == ResolvePath(ix, p)
    IN  /\ i \notin {NULL, Root}
        /\ IsPrefix(PathOf(ix, i), container) => "inside" \in Rash
        /\ IF HasPath(ix, i) THEN Rename(i, PathOf(ix, i), container)
           ELSE ix' = [ix EXCEPT !.cont[i] = container]

\* Faulty variant: the container goes and what it holds stays.
DoomedAlone(p) == {ResolvePath(ix, p)}

\* delete-instance takes the container and everything under its path.
Doomed(p) == {ResolvePath(ix, p)} \cup Inside(ix, p)

\* They are collected first and then un-named and freed one by one.  The
\* container was put in front of an empty list and comes last.
DeleteEach(S, order, p) ==
    LET path(i) == IF i = ResolvePath(S, p) THEN p ELSE PathOf(S, i)
        after[k \in 0 .. Len(order)] ==
            IF k = 0 THEN S
            ELSE DeleteInstance(UnregisterPath(after[k - 1], path(order[k])), order[k])
    IN  after[Len(order)]

Delete(p) ==
    /\ ResolvePath(ix, p) \notin {NULL, Root}
    /\ \E order \in SetToSeqs(Doomed(p)) :
          Last(order) = ResolvePath(ix, p) /\ ix' = DeleteEach(ix, order, p)

\* The scripts' destroy, and Widget_Destroy: one instance.
Destroy(p) ==
    LET i == ResolvePath(ix, p)
    IN  /\ i \notin {NULL, Root}
        /\ Inside(ix, p) # {} => "spill" \in Rash
        /\ ix' = DeleteInstance(UnregisterPath(ix, p), i)

\* The containers a client may name: all there are, one that has gone, and "".
Containers == DOMAIN ix.key \cup {<<RootName, <<9>>>>, Canvas}

Next ==
    \/ \E i, c \in Insts, n \in Names, short \in BOOLEAN : Create(i, c, n, short)
    \/ \E i \in Controls, t \in Insts, d \in Containers, m \in Names :
          \E as \in Asked(Home(d)) : CreateAlias(i, d, t, m, as)
    \/ \E p \in DOMAIN ix.key :
          \/ \E n \in Names : SetName(p, n)
          \/ \E d \in Containers : Move(p, d) \/ SetContainer(p, d)
          \/ Delete(p) \/ Destroy(p)

Spec == Init /\ [][Next]_ix

-----------------------------------------------------------------------------
(* Properties *)

\* Type correctness; no path is longer than the instances there are.
TypeOK ==
    /\ DOMAIN ix = {"live", "name", "cont", "key", "members", "link", "target"}
    /\ Root \in ix.live /\ ix.live \subseteq Insts
    /\ ix.name \in [Insts -> Seq(Nat)] /\ ix.members \in [Insts -> SUBSET Insts]
    /\ \A i \in Insts : Len(ix.cont[i]) < Cardinality(Insts)
    /\ \A p \in DOMAIN ix.key : ix.key[p] \in Insts
    /\ ix.link \in [Insts -> Insts \cup {NULL}]

\* Whatever was renamed, moved or deleted around it, every instance answers to
\* the path its Name and Container spell (object.c:207-221: "the thing goes
\* unaddressable while sitting in the index the whole time").
Addressable == \A i \in ix.live : HasPath(ix, i)

\* The index holds no name but those: no freed instance, no second name that no
\* mint would hand out again (object.c:163-177).
NoStaleKeys == \A p \in DOMAIN ix.key : ix.key[p] \in ix.live /\ PathOf(ix, ix.key[p]) = p

\* The index is the truth about names: each instance is found under its path
\* and nothing else is.
IndexTrue == Addressable /\ NoStaleKeys

ParentOf(i) == ResolvePath(ix, ix.cont[i])

\* Everything is in a container that exists, and following containers upwards
\* ends at the root, because paths get shorter: nothing is orphaned
\* (bridge.c:1577-1583, 2036-2043).
Contained == \A i \in ix.live \ {Root} : ParentOf(i) \in ix.live /\ HasPath(ix, ParentOf(i))

\* A Members list holds only live instances that say they are there (object.c,
\* AddMember, RemoveMember).
MembersReal ==
    \A c \in ix.live : \A i \in ix.members[c] : i \in ix.live /\ ParentOf(i) = c

\* The other way round: what is in a container is on its list (object.c:53-68:
\* "the answer is known at the moment it becomes true ... Containment remains
\* the Container property; this is an index of it").
MembersComplete ==
    \A i \in ix.live \ {Root} : ParentOf(i) # NULL => i \in ix.members[ParentOf(i)]

\* Nothing is in what is gone, and no Members list holds what is gone or is
\* elsewhere.  That the lists are complete is not part of it.
ContentsTrue == Contained /\ MembersReal

\* An alias says where the thing it stands for is now, however that was renamed
\* or carried along inside something else (bridge.c:1661-1669: "its control
\* can't bind, so it looks dead even though the engine link is fine").
TargetTracks ==
    \A i \in ix.live : ix.link[i] # NULL =>
        ix.link[i] \in ix.live /\ ix.target[i] = PathOf(ix, ix.link[i])

AtMostOneMoved ==
    Cardinality({i \in ix.live \cap ix'.live : ParentOf(i) # ParentOf(i)'}) <= 1

\* A command takes at most one thing from one container to another; what that
\* thing holds, however deep, stays inside what held it (bridge.c:1577-1583).
OneMoves == [][AtMostOneMoved]_ix
==============================================================================
