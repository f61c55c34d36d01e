--------------------------- MODULE MCVoteExchange ----------------------------
(***************************************************************************)
(* Four validators with 7 of power, so that two thirds of it is not a      *)
(* whole number; f is faulty and signs for both values.  v1 can go either  *)
(* way, v2 and v3 have made up their minds, so both values can get a       *)
(* quorum, with the help of v1 and f.                                      *)
(***************************************************************************)
EXTENDS VoteExchange

CONSTANTS v1, v2, v3, f, x, y

Weight(v) == IF v = v3 THEN 1 ELSE 2
MCPowerOf == [S \in SUBSET {v1, v2, v3, f} |-> MapThenSumSet(Weight, S)]

Precommit(d, v) == NewVote(PrecommitType, 1, 0, d, Nil, v)

MCBallots == {Precommit(x, v1), Precommit(y, v1), Precommit(x, v2),
              Precommit(y, v3), Precommit(x, f), Precommit(y, f)}
=============================================================================
