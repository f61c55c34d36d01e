---------------------------- MODULE HeightVoteSet ----------------------------
(***************************************************************************)
(* height_vote_set.go: the prevotes and the precommits of every tracked    *)
(* round of one height.                                                    *)
(***************************************************************************)
EXTENDS VoteSet

\* The two VoteSets of a round, indexed by vote type.
RoundVoteSets == [Prevote : VoteSets, Precommit : VoteSets]

\* The keys of the map are the tracked rounds.
IsHeightVoteSet(hvs) ==
  /\ hvs \in [height : Nat, base : DataOrNil, round : Nat,
              roundVoteSets : {hvs.roundVoteSets}]
  /\ DOMAIN hvs.roundVoteSets \subseteq Nat
  /\ hvs.roundVoteSets \in [DOMAIN hvs.roundVoteSets -> RoundVoteSets]

NewRoundVoteSet(height, round, base) ==
  [Prevote   |-> NewVoteSet(height, round, PrevoteType, base),
   Precommit |-> NewVoteSet(height, round, PrecommitType, base)]

\* addRound for every round of rounds that is not tracked yet.
addRounds(hvs, rounds) ==
  [hvs EXCEPT !.roundVoteSets =
     [r \in DOMAIN hvs.roundVoteSets \cup rounds |->
        IF r \in DOMAIN hvs.roundVoteSets THEN hvs.roundVoteSets[r]
        ELSE NewRoundVoteSet(hvs.height, r, hvs.base)]]

NewHeightVoteSet(height, base) ==
  [height |-> height, base |-> base, round |-> 0,
   roundVoteSets |-> [r \in {0} |-> NewRoundVoteSet(height, r, base)]]

\* SetRound panics unless it increments a round that was set before.
SetRoundPanics(hvs, round) == hvs.round # 0 /\ round < hvs.round + 1

SetRound(hvs, round) ==
  [addRounds(hvs, (hvs.round + 1)..round) EXCEPT !.round = round]

\* getVoteSet.  The code answers nil for an untracked round, and the queries for
\* majorities read a nil set as an empty one.  What else would be done with a nil
\* set is said where it is done (DereferencesNil in Core).
getVoteSet(hvs, round, type) ==
  IF round \in DOMAIN hvs.roundVoteSets
  THEN hvs.roundVoteSets[round][type]
  ELSE NewVoteSet(hvs.height, round, type, hvs.base)

Prevotes(hvs, round)   == getVoteSet(hvs, round, PrevoteType)
Precommits(hvs, round) == getVoteSet(hvs, round, PrecommitType)

\* AddVote starts to track the vote's round before anything is verified.
HeightVoteSet_AddVote(hvs, vote, members) ==
  LET tracked == addRounds(hvs, {vote.Round})
      res == VoteSet_AddVote(tracked.roundVoteSets[vote.Round][vote.Type],
                             vote, members)
  IN  [hvs   |-> [tracked EXCEPT !.roundVoteSets[vote.Round][vote.Type] = res.vs],
       added |-> res.added,
       err   |-> res.err]

\* POLInfo: the last tracked round with +2/3 prevotes, or -1.
POLRound(hvs) ==
  LET pols == {r \in 0..hvs.round : HasTwoThirdsMajority(Prevotes(hvs, r))}
  IN  IF pols = {} THEN -1
      ELSE CHOOSE r \in pols : \A q \in pols : q <= r
=============================================================================
