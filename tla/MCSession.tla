------------------------------- MODULE MCSession ------------------------------
(***************************************************************************)
(* The session for TLC: the path index as the commands use it, the search  *)
(* tree below it, and the taps of those who watch.  They share no state,   *)
(* so `of` says which of the three a behaviour is about.                   *)
(***************************************************************************)
EXTENDS MCPathIndex

CONSTANTS TrieKeys, Values, MaxDepth,
          Originals, Aliases, Conns, Written, Risks, MaxQueue, MaxTaps

VARIABLES of, trie, alive, named,
          live, link, val, subs, rel, taps, queue, shown, victims

\* Three characters: keys that end inside others and keys that part at the
\* first, second and third character.
MCTrieKeys == {<<1>>, <<2>>, <<3>>, <<1, 1>>, <<1, 3>>, <<2, 2>>, <<3, 1>>,
               <<1, 3, 2>>, <<1, 3, 3>>}

Trie == INSTANCE NameTrie WITH Keys <- TrieKeys, Strings <- TrieKeys

Taps == INSTANCE BridgeTaps

ASSUME SessionAssumption == Trie!ConstantsOK /\ Taps!ConstantsOK

trieVars == <<trie, alive, named>>
tapVars == <<live, link, val, subs, rel, taps, queue, shown, victims>>

\* A part that is not looked at has no state.
NoPaths == ix = <<>>
NoTrie  == trie = <<>> /\ alive = 0 /\ named = <<>>
NoTaps  == /\ live = {} /\ link = <<>> /\ val = <<>> /\ subs = {} /\ rel = {}
           /\ taps = <<>> /\ queue = <<>> /\ shown = <<>> /\ victims = {}

MCInit ==
    \/ of = "paths" /\ Init /\ NoTrie /\ NoTaps
    \/ of = "trie" /\ Trie!Init /\ NoPaths /\ NoTaps
    \/ of = "taps" /\ Taps!Init /\ NoPaths /\ NoTrie

PathStep == of = "paths" /\ Next /\ UNCHANGED <<of, trieVars, tapVars>>
TrieStep == of = "trie" /\ Trie!Next /\ UNCHANGED <<of, ix, tapVars>>
TapStep  == of = "taps" /\ Taps!Next /\ UNCHANGED <<of, ix, trieVars>>

MCNext == PathStep \/ TrieStep \/ TapStep

MCSpec == MCInit /\ [][MCNext]_<<of, ix, trieVars, tapVars>>

\* Originals may be exchanged, and so may controls.
SessionSymmetry ==
    InstSymmetry \cup Permutations(Originals) \cup Permutations(Aliases)

-----------------------------------------------------------------------------
(* The properties *)

\* Every instance answers to the path its Name and Container spell and the
\* index holds nothing else (object.c, RegisterPath; bridge.c,
\* Bridge_RepathSubtree).
NamesTrue == of = "paths" => IndexTrue

\* Everything is inside a container that exists, what is on a Members list lies
\* there, and an alias says where the thing it stands for is (bridge.c,
\* Bridge_Move, Bridge_Delete, Bridge_RepathSubtree; object.c, UnregisterPath).
\* That all that lies there is on the list is MembersComplete, which fails.
ContainersTrue == of = "paths" => ContentsTrue /\ TargetTracks

\* A command takes at most one thing from one container to another
\* (bridge.c, Bridge_RepathSubtree).
MovesOne == [][of = "paths" => AtMostOneMoved]_ix

\* Every registered key is found in the tree under what it was registered as
\* last, and the tree holds no other character (namespace.c, NSInsert,
\* NSSearch, NSDelete).
TrieExact == of = "trie" => Trie!TreeExact

\* Every tap is on a node that exists and carries the bridge's Subscriber
\* record (bridge.c, Bridge_Subscribe, Bridge_Relink, Bridge_FreeTaps).
TapsHeard == of = "taps" => Taps!TapsGrounded

\* Every connection ends up showing the value of what it asked for, under the
\* name it asked for (bridge.c, Bridge_TapOnIn, Bridge_TapEmit).
ViewsTrue == of = "taps" => Taps!ViewsTrue
==============================================================================
