-------------------------- MODULE MCAdministration --------------------------
(* A small instance of Administration for TLC. *)
EXTENDS Administration, TLC

CONSTANTS t1, s1, s2, n1, f1, f2, v1, v2

\* Nothing was saved yet, or everything was.
NothingOrAll == {[tenant |-> Unset, secret |-> Unset, name |-> Unset],
                 [tenant |-> t1, secret |-> s1, name |-> n1]}

\* Either field, with the value it may have already.
OneField == {[f \in {f1} |-> v1], [f \in {f2} |-> v2]}

\* The page as it was shown, a new secret alone, and a name alone.
PageSecretOrName == {[tenant |-> t1, secret |-> Masked, name |-> n1],
                     [tenant |-> None, secret |-> s2, name |-> None],
                     [tenant |-> None, secret |-> None, name |-> Unset]}

RequestSymmetry == Permutations(Requests)
=============================================================================
