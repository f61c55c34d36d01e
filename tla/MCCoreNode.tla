----------------------------- MODULE MCCoreNode ------------------------------
(***************************************************************************)
(* Small instances of CoreNode.  Three validators: s, the core under test, *)
(* has power 1, p has 2 and q has 1: 3 of 4 is a quorum, so p decides with *)
(* either of the others and nobody decides without p.                      *)
(***************************************************************************)
EXTENDS CoreNode

CONSTANTS s, p, q, o, x, y

MCNodes == {s, p, q, o}
FixedCommittee(height) == {s, p, q}

\* After height 1 o takes the place of s.
ChangingCommittee(height) == IF height = 1 THEN {s, p, q} ELSE {p, q, o}

Weight(v) == IF v = p THEN 2 ELSE 1
MCPowerOf == [S \in SUBSET MCNodes |-> MapThenSumSet(Weight, S)]

\* s proposes in the even rounds of height 1 and the odd ones of height 2.
MCProposer(height, round) == IF (height + round) % 2 = 1 THEN s ELSE p
MCDecidesProposal == [n \in MCNodes |-> IF n = s THEN x ELSE y]

VotesOf(types, heights, rounds, values, prevs, signers) ==
  {NewVote(t, h, r, d, b, v) : t \in types, h \in heights, r \in rounds,
                               d \in values, b \in prevs, v \in signers}

BothTypes == {PrevoteType, PrecommitType}

\* Two rounds of one height.  p, which every quorum needs, may prevote both
\* values in round 1; the precommits of round 0 can lock the core on x and still
\* take it to round 1, where y can win.  Round 2 is ahead of the watermark until
\* the core is in round 1.
OneHeightVotes ==
  VotesOf({PrevoteType}, {1}, {0, 1}, {x}, {Nil}, {p})
    \cup VotesOf({PrevoteType}, {1}, {1, 2}, {y}, {Nil}, {p})
    \cup VotesOf({PrevoteType}, {1}, {0, 1}, {y}, {Nil}, {q})
    \cup VotesOf({PrecommitType}, {1}, {0}, {x}, {Nil}, {p})
    \cup VotesOf({PrecommitType}, {1}, {0}, {Nil}, {Nil}, {q})
    \cup VotesOf({ProposalType}, {1}, {1}, {y}, {Nil}, {p})

\* Two heights on top of each other, committed in round 0 or 1 of height 1.  The
\* core is s, which leaves the committee in between, o, which joins, or q, which
\* stays.  The late precommits of height 1 include those of s, a member only
\* when it signed, and of o, a member only when they arrive; the core's own
\* precommits among them come back to it once it has signed them.
TwoHeightVotes ==
  VotesOf({ProposalType}, {1}, {0}, {x}, {Nil}, {s})
    \cup VotesOf(BothTypes, {1}, {0}, {x}, {Nil}, {p})
    \cup VotesOf({PrecommitType}, {1}, {0}, {x}, {Nil}, {s, q, o})
    \cup VotesOf({ProposalType}, {2}, {0}, {y}, {x}, {p})
    \cup VotesOf(BothTypes, {2}, {0}, {y}, {x}, {p})

CommitOf(height, round, d, b, signers) ==
  [ProposedData |-> d, Prev |-> b,
   Precommits |-> VotesOf({PrecommitType}, {height}, {round}, {d}, {b}, signers)]

\* Its own precommits come back to the core s, those of round 0 as ones of round 1.
TwoHeightCommits ==
  {CommitOf(1, 1, x, Nil, {p, q}), CommitOf(1, 1, x, Nil, {p, s}),
   CommitOf(2, 0, y, x, {p, q})}

\* What another node may answer to a request for the missing votes.
TwoHeightRsps ==
  {[Type |-> PrevoteType, Height |-> 1, Round |-> 0,
    MissingVotes |-> VotesOf(BothTypes, {1}, {0}, {x}, {Nil}, {p})
                       \cup VotesOf({PrecommitType}, {2}, {0}, {y}, {x}, {p})],
   [Type |-> PrecommitType, Height |-> 2, Round |-> 0,
    MissingVotes |-> VotesOf({PrecommitType}, {2}, {0}, {y}, {x}, {p, q})]}

\* A node that is stopped while height 1 is decided, or height 2 under way.
RestartVotes ==
  VotesOf(BothTypes, {1}, {0}, {x}, {Nil}, {p})
    \cup VotesOf({ProposalType, PrevoteType}, {2}, {0}, {y}, {x}, {p})

\* What the core signed before it was stopped comes back afterwards, and a Commit
\* with a missing precommit is one more reason for a restart.
RestartCommits ==
  {CommitOf(1, 0, x, Nil, {p, q}), CommitOf(1, 0, x, Nil, {p, s}),
   [CommitOf(1, 0, x, Nil, {p}) EXCEPT !.Precommits = @ \cup {None}]}

\* A request ValidateBasic lets pass.
NegativeRound ==
  {[Type |-> PrevoteType, Height |-> 1, Round |-> -1, Voters |-> {}, len |-> 0]}

\* The core locks x in round 0; in round 1 the others prevote nil.
NilVotes ==
  VotesOf({PrevoteType}, {1}, {0}, {x}, {Nil}, {p})
    \cup VotesOf({PrevoteType}, {1}, {1}, {Nil}, {Nil}, {p, q})
=============================================================================
