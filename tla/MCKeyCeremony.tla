---------------------------- MODULE MCKeyCeremony ----------------------------
(***************************************************************************)
(* Two pages and the command line over a group of seven elements.  The     *)
(* draws are the smallest set that deals a zero share, an auditor's key    *)
(* that is the disclosure key, one that is a keyholder's, and keys the     *)
(* constructor accepts.                                                    *)
(***************************************************************************)
EXTENDS KeyCeremony

CONSTANTS a, b

Pages == {a, b}
PageSymmetry == Permutations(Pages)
TwoDraws == {1, 3}
=============================================================================
