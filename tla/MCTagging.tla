----------------------------- MODULE MCTagging -----------------------------
(***************************************************************************)
(* Small instances of Tagging: one significant word, which the first event *)
(* has in its title and the others do not.  Tags are interchangeable.      *)
(***************************************************************************)
EXTENDS Tagging, TLC

CONSTANTS work_, home, word

TwoTags == {work_, home}
OneWord == {word}
Titles  == [e \in Events |-> IF e = 1 THEN {word} ELSE {}]
Starts  == [e \in Events |-> e * e]
Lengths == [e \in Events |-> e]

TagSymmetry == Permutations(TwoTags)
=============================================================================
