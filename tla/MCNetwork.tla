----------------------------- MODULE MCNetwork -------------------------------
EXTENDS Network

CONSTANTS a, b, f, o, x, y

\* The power of committees in which one member weighs as much as the others.
Powers(heavy) ==
  LET Weight(v) == IF v = heavy THEN 2 ELSE 1
  IN  [S \in SUBSET {a, b, f, o} |-> MapThenSumSet(Weight, S)]
MCPowerOf == Powers(b)
FirstProposerHeavy == Powers(a)

\* o, which shows nothing, takes the place of f at the second height.
MCCommitteeAt(height) == IF height = 1 THEN {a, b, f} ELSE {a, b, o}

MCProposer(height, round) == IF (height + round) % 2 = 1 THEN a ELSE b
MCDecidesProposal == [n \in {a, b, f, o} |-> IF n = a THEN x ELSE y]

FV(type, r, d) == NewVote(type, 1, r, d, Nil, f)
\* f helps a to a polka in round 0, and makes x chosen with a's precommit.  Later
\* it may show a's prevote of round 0 as one of round 1, where it makes a polka
\* with b's although a has not voted there.
SplitVotes == {FV(PrevoteType, 0, x), FV(PrecommitType, 0, x),
               NewVote(PrevoteType, 1, 1, x, Nil, a)}

EarlyCommit == {FV(PrecommitType, 0, x)}

\* A Commit nobody signed.  It passes ValidateBasic.
UnsignedCommit ==
  [ProposedData |-> y, Prev |-> Nil,
   Precommits |-> {[FV(PrecommitType, 0, y) EXCEPT !.sigOK = FALSE]}]
UnsignedCommits == {UnsignedCommit}
=============================================================================
