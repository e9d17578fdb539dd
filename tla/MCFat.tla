------------------------------- MODULE MCFat -------------------------------
(***************************************************************************)
(* Fat on cards of three or four clusters of one or two blocks of two      *)
(* bytes: files of up to three clusters, blocks that are written in part,  *)
(* tables of one and of two sectors, a card that two files can fill.       *)
(***************************************************************************)
EXTENDS Fat, TLC

CONSTANTS n1, n2
MCNames == {n1, n2}
MCOneName == {n1}
MCFds == {1, 2}
MCOneFd == {1}
MCLens == {1, 4}
MCSymmetry == Permutations(MCNames)

=============================================================================
