------------------------------ MODULE MCVoting -------------------------------
(***************************************************************************)
(* Voting with four validators of equal power, one of them faulty: quorums *)
(* of three, any two of which share an honest validator, but no honest     *)
(* validator is in all of them.                                            *)
(***************************************************************************)
EXTENDS Voting, FiniteSets, TLC

CONSTANTS v1, v2, v3, f

MCPowerOf == [S \in SUBSET {v1, v2, v3, f} |-> Cardinality(S)]

Symmetry == Permutations({v1, v2, v3}) \cup Permutations(Data)
=============================================================================
