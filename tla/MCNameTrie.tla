----------------------------- MODULE MCNameTrie ------------------------------
(***************************************************************************)
(* Three characters: names that end inside others, names that part at the  *)
(* first, second and third character, and every string of up to three      *)
(* characters to look up.                                                  *)
(***************************************************************************)
EXTENDS NameTrie

MCStrings == UNION {[1 .. n -> 1 .. 3] : n \in 1 .. 3}

MCKeys == {<<1>>, <<2>>, <<3>>, <<1, 1>>, <<1, 3>>, <<2, 2>>, <<3, 1>>,
           <<1, 3, 2>>, <<1, 3, 3>>}
==============================================================================
