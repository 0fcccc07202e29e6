----------------------------- MODULE MCAccounts -----------------------------
(* Two accounts that share no address, one person who has the second one's. *)
EXTENDS Accounts, TLC
CONSTANTS root, ann, person, j1, j2

MCEmailOf == [x \in {root, ann, person} |-> IF x = root THEN root ELSE ann]
Symmetry == Permutations(Cookies)
=============================================================================
