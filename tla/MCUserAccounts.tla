--------------------------- MODULE MCUserAccounts ---------------------------
(***************************************************************************)
(* Two spellings of one address and another person's, for TLC.             *)
(***************************************************************************)
EXTENDS UserAccounts, TLC

CONSTANTS jane, Jane, joe

MCAddress == {jane, Jane, joe}
MCFolded  == [a \in MCAddress |-> IF a = Jane THEN jane ELSE a]
(* The call slots are alike.                                               *)
Symmetry == Permutations(Call)
=============================================================================
