------------------------------ MODULE MCAccounts ------------------------------
(***************************************************************************)
(* Two people: the first gives up a nickname, which the second takes.      *)
(***************************************************************************)
EXTENDS Accounts, TLC

CONSTANTS ann, bob, crow, dove

Person(email, nickname) == [email |-> email, nickname |-> nickname]

Renamed == {Person(ann, crow), Person(ann, dove), Person(bob, crow)}
NoLogin == {Person(bob, dove)}

Interchangeable == Permutations(Browsers)
=============================================================================
