---------------------------- MODULE NetworkProofs ----------------------------
(***************************************************************************)
(* The cores of a network implement Voting, for every committee, every     *)
(* bound and every set of faulty validators with less than a third of the  *)
(* power; so they agree, as long as nobody shows a vote in another round   *)
(* than its signer's.  CoreProofs says what a handler keeps; here is what  *)
(* it may sign, and what the cores together make of it.                    *)
(***************************************************************************)
EXTENDS Network, CoreProofs

-----------------------------------------------------------------------------
(***************************************************************************)
(* What a function signs.                                                  *)
(***************************************************************************)

\* d is c at the same height, where it has signed in round R only.
Signed(c, d, R) ==
  /\ DOMAIN d = DOMAIN c
  /\ d.self = c.self /\ d.Height = c.Height /\ d.app = c.app
  /\ d.commits = c.commits /\ d.announced = c.announced
  /\ d.Round \in {c.Round, R}
  /\ c.sent \subseteq d.sent
  /\ \A w \in d.sent \ c.sent :
       w.Height = c.Height /\ w.Round = R /\ w.Address = c.self /\ w.sigOK

\* What an enter function does.
Casts(c, d, R) == Signed(c, d, R) /\ SameAnswers(c.Votes, d.Votes)

\* c has the fields of a core that a function sets.
HasFields(c) ==
  {"Round", "Step", "Proposal", "LockedRound", "LockedProposal", "Votes",
   "CommitRound", "LastCommit", "lastCommittedData", "hasRecvCommitRecords", "app",
   "msgQueue", "todo", "ticker", "sent", "fvr", "commits", "announced", "panicked",
   "Height"} \subseteq DOMAIN c

\* A core has its fields.
LEMMA CoreHasFields ==
  ASSUME NEW c, IsCore(c)
  PROVE  HasFields(c)
BY Fields DEF HasFields

\* One function after another.
LEMMA CastsTrans ==
  ASSUME NEW R, NEW c, NEW d, NEW e, Casts(c, d, R), Casts(d, e, R)
  PROVE  Casts(c, e, R)
<1>1. SameAnswers(c.Votes, e.Votes)
  BY DEF Casts, Signed, SameAnswers
<1> QED
  BY <1>1 DEF Casts, Signed

\* An early return.
LEMMA CastsRefl ==
  ASSUME NEW R, NEW c
  PROVE  Casts(c, c, R)
BY SameAnswersRefl DEF Casts, Signed

\* updateRoundStep signs nothing.
LEMMA StepCasts ==
  ASSUME NEW c, HasFields(c), NEW round, NEW step, NEW R, round \in {c.Round, R}
  PROVE  LET d == updateRoundStep(c, round, step)
         IN  Casts(c, d, R) /\ HasFields(d) /\ d.Round = round
BY SameAnswersRefl DEF Casts, Signed, HasFields, updateRoundStep

\* Neither does scheduleTimeout.
LEMMA TimeCasts ==
  ASSUME NEW c, HasFields(c), NEW height, NEW round, NEW step, NEW R
  PROVE  LET d == scheduleTimeout(c, height, round, step)
         IN  Casts(c, d, R) /\ HasFields(d) /\ d.Round = c.Round
BY SameAnswersRefl DEF Casts, Signed, HasFields, scheduleTimeout

\* Nor PanicSanity.
LEMMA PanicCasts ==
  ASSUME NEW c, HasFields(c), NEW R
  PROVE  Casts(c, PanicSanity(c), R)
BY SameAnswersRefl DEF Casts, Signed, HasFields, PanicSanity

\* signAddVote signs one vote at most.
LEMMA SignCasts ==
  ASSUME NEW c, HasFields(c), NEW type, NEW R, NEW data
  PROVE  LET d == signAddVote(c, type, R, data)
         IN  Casts(c, d, R) /\ HasFields(d) /\ d.Round = c.Round
BY SameAnswersRefl DEF Casts, Signed, HasFields, signAddVote, NewVote

\* enterPrevote signs in the round of the core.
LEMMA enterPrevoteCasts ==
  ASSUME NEW c, HasFields(c), c.Round \in Nat, NEW height, NEW round \in Nat,
         c.panicked \/ round <= c.Round
  PROVE  Casts(c, enterPrevote(c, height, round), c.Round)
<1>1. CASE Behind(c, height, round, RoundStepPrevote)
  BY <1>1, CastsRefl DEF enterPrevote
<1>2. CASE ~Behind(c, height, round, RoundStepPrevote)
  <2>1. round = c.Round
    BY <1>2 DEF Behind
  <2> DEFINE s == doPrevote(c)
             u == updateRoundStep(s, round, RoundStepPrevote)
             v == updateRoundStep(u, round, RoundStepPrevoteFetch)
             d == scheduleTimeout(v, height, round, RoundStepPrevoteFetch)
  <2>2. Casts(c, s, c.Round) /\ HasFields(s) /\ s.Round = c.Round
    BY SignCasts DEF doPrevote
  <2> HIDE DEF s
  <2>3. Casts(s, u, c.Round) /\ HasFields(u) /\ u.Round = round
    BY <2>1, <2>2, StepCasts
  <2> HIDE DEF u
  <2>4. Casts(u, v, c.Round) /\ HasFields(v)
    BY <2>1, <2>3, StepCasts
  <2> HIDE DEF v
  <2>5. Casts(v, d, c.Round)
    BY <2>4, TimeCasts
  <2>6. enterPrevote(c, height, round) = d
    BY <1>2 DEF enterPrevote, enterPrevoteFetch, d, v, u, s
  <2> QED
    BY <2>2, <2>3, <2>4, <2>5, <2>6, CastsTrans
<1> QED
  BY <1>1, <1>2

\* enterPropose may sign a proposal and a prevote, of the same round.
LEMMA enterProposeCasts ==
  ASSUME NEW c, HasFields(c), c.Round \in Nat, NEW height, NEW round \in Nat,
         NEW R \in Nat, R \in {c.Round, round}, c.Round <= R, round <= R
  PROVE  Casts(c, enterPropose(c, height, round), R)
<1>1. CASE Behind(c, height, round, RoundStepPropose)
  BY <1>1, CastsRefl DEF enterPropose
<1>2. CASE ~Behind(c, height, round, RoundStepPropose)
  <2>1. round = R
    BY <1>2 DEF Behind
  <2> DEFINE timed    == scheduleTimeout(c, height, round, RoundStepPropose)
             data     == IF timed.LockedRound > -1 /\ timed.LockedProposal # None
                         THEN timed.LockedProposal ELSE DecidesProposal[timed.self]
             signed   == signAddVote(timed, ProposalType, round, data)
             proposed == IF isValidator(c) /\ Proposer(c.Height, c.Round) = c.self
                         THEN [signed EXCEPT !.Proposal = data] ELSE timed
             done     == updateRoundStep(proposed, round, RoundStepPropose)
             d == IF isReadyToPrevote(done) THEN enterPrevote(done, height, done.Round)
                  ELSE done
  <2>2. Casts(c, timed, R) /\ HasFields(timed) /\ timed.Round = c.Round
    BY TimeCasts
  <2> HIDE DEF timed, data
  <2>3. Casts(timed, signed, R) /\ HasFields(signed) /\ signed.Round = c.Round
    BY <2>1, <2>2, SignCasts
  <2> HIDE DEF signed
  <2>4. /\ Casts(signed, [signed EXCEPT !.Proposal = data], R)
        /\ HasFields([signed EXCEPT !.Proposal = data])
        /\ [signed EXCEPT !.Proposal = data].Round = c.Round
    BY <2>3, SameAnswersRefl DEF Casts, Signed, HasFields
  <2>5. Casts(timed, proposed, R) /\ HasFields(proposed) /\ proposed.Round = c.Round
    BY <2>2, <2>3, <2>4, CastsTrans, CastsRefl
  <2> HIDE DEF proposed
  <2>6. Casts(proposed, done, R) /\ HasFields(done) /\ done.Round = R
    BY <2>1, <2>5, StepCasts
  <2> HIDE DEF done
  <2>7. Casts(done, d, R)
    BY <2>6, enterPrevoteCasts, CastsRefl
  <2>8. enterPropose(c, height, round) = d
    BY <1>2 DEF enterPropose, doPropose, d, done, proposed, signed, data, timed
  <2> QED
    BY <2>2, <2>5, <2>6, <2>7, <2>8, CastsTrans
<1> QED
  BY <1>1, <1>2

\* enterNewRound signs in the round it enters.
LEMMA enterNewRoundCasts ==
  ASSUME NoOverflow, NEW c, HasFields(c), c.Round \in Nat, VotesOK(c.Votes, committee(c)),
         committee(c) \in SUBSET Validators, NEW height, NEW round \in Nat,
         NEW R \in Nat, R \in {c.Round, round}, c.Round <= R, round <= R
  PROVE  Casts(c, enterNewRound(c, height, round), R)
<1>1. CASE Behind(c, height, round, RoundStepNewRound)
  BY <1>1, CastsRefl DEF enterNewRound
<1>2. CASE ~Behind(c, height, round, RoundStepNewRound)
  <2>1. round = R
    BY <1>2 DEF Behind
  <2> DEFINE u == updateRoundStep(c, round, RoundStepNewRound)
             fresh == [u EXCEPT !.Proposal = IF round = 0 THEN @ ELSE None,
                                !.Votes    = SetRound(@, round + 1)]
  <2>2. Casts(c, u, R) /\ HasFields(u) /\ u.Round = round
    BY <2>1, StepCasts
  <2> HIDE DEF u
  <2>3. Casts(u, fresh, R) /\ HasFields(fresh) /\ fresh.Round = round
    <3>1. u.Votes = c.Votes
      BY DEF u, updateRoundStep, HasFields
    <3>2. SameAnswers(u.Votes, SetRound(u.Votes, round + 1))
      <4>1. round + 1 \in Nat
        OBVIOUS
      <4>2. RoundsAdded(c.Votes, SetRound(c.Votes, round + 1), round + 1, committee(c))
        BY <4>1, SetRoundOK
      <4> QED
        BY <3>1, <4>2 DEF RoundsAdded, SameAnswers
    <3> QED
      BY <2>2, <3>2 DEF Casts, Signed, HasFields
  <2> HIDE DEF fresh
  <2>4. Casts(fresh, enterPropose(fresh, height, round), R)
    BY <2>1, <2>3, enterProposeCasts
  <2>5. Casts(c, PanicSanity(c), R)
    BY PanicCasts
  <2>6. enterNewRound(c, height, round) \in
          {PanicSanity(c), enterPropose(fresh, height, round)}
    BY <1>2 DEF enterNewRound, fresh, u
  <2> QED
    BY <2>2, <2>3, <2>4, <2>5, <2>6, CastsTrans
<1> QED
  BY <1>1, <1>2

\* enterPrecommit signs in the round of the core.
LEMMA enterPrecommitCasts ==
  ASSUME NEW c, HasFields(c), c.Round \in Nat, NEW height, NEW round \in Nat,
         c.panicked \/ round <= c.Round
  PROVE  Casts(c, enterPrecommit(c, height, round), c.Round)
<1>1. CASE Behind(c, height, round, RoundStepPrecommit)
  BY <1>1, CastsRefl DEF enterPrecommit
<1>2. CASE ~Behind(c, height, round, RoundStepPrecommit)
  <2>1. round = c.Round
    BY <1>2 DEF Behind
  <2> DEFINE lock == lockOnPolka(c, round, Prevotes(c.Votes, round).maj23)
             l == [c EXCEPT !.LockedRound = lock.round, !.LockedProposal = lock.data]
             s == signAddVote(l, PrecommitType, round, lock.precommit)
             u == updateRoundStep(s, round, RoundStepPrecommit)
             v == updateRoundStep(u, round, RoundStepPrecommitFetch)
             d == scheduleTimeout(v, height, round, RoundStepPrecommitFetch)
  <2> HIDE DEF lock
  <2>2. Casts(c, l, c.Round) /\ HasFields(l) /\ l.Round = c.Round
    BY SameAnswersRefl DEF Casts, Signed, HasFields
  <2> HIDE DEF l
  <2>3. Casts(l, s, c.Round) /\ HasFields(s) /\ s.Round = c.Round
    BY <2>1, <2>2, SignCasts
  <2> HIDE DEF s
  <2>4. Casts(s, u, c.Round) /\ HasFields(u) /\ u.Round = round
    BY <2>1, <2>3, StepCasts
  <2> HIDE DEF u
  <2>5. Casts(u, v, c.Round) /\ HasFields(v)
    BY <2>1, <2>4, StepCasts
  <2> HIDE DEF v
  <2>6. Casts(v, d, c.Round)
    BY <2>5, TimeCasts
  <2>7. enterPrecommit(c, height, round) \in {PanicSanity(c), d}
    BY <1>2 DEF enterPrecommit, enterPrecommitFetch, d, v, u, s, l, lock
  <2>8. Casts(c, d, c.Round)
    BY <2>2, <2>3, <2>4, <2>5, <2>6, CastsTrans
  <2> QED
    BY <2>7, <2>8, PanicCasts
<1> QED
  BY <1>1, <1>2

\* The waits sign nothing.
LEMMA WaitCasts ==
  ASSUME NEW c, HasFields(c), c.Round \in Nat, NEW height, NEW round \in Nat,
         c.panicked \/ round <= c.Round, NEW R
  PROVE  /\ Casts(c, enterPrevoteWait(c, height, round), R)
         /\ Casts(c, enterPrecommitWait(c, height, round), R)
<1> DEFINE d(step) == updateRoundStep(scheduleTimeout(c, height, round, step), round, step)
<1>1. ASSUME NEW step, ~Behind(c, height, round, step)
      PROVE  Casts(c, d(step), R)
  <2>1. round = c.Round
    BY <1>1 DEF Behind
  <2> DEFINE u == scheduleTimeout(c, height, round, step)
  <2>2. Casts(c, u, R) /\ HasFields(u) /\ u.Round = c.Round
    BY TimeCasts
  <2> HIDE DEF u
  <2>3. Casts(u, updateRoundStep(u, round, step), R)
    BY <2>1, <2>2, StepCasts
  <2> QED
    BY <2>2, <2>3, CastsTrans DEF u
<1> HIDE DEF d
<1>2. Casts(c, enterPrevoteWait(c, height, round), R)
  <2>1. CASE Behind(c, height, round, RoundStepPrevoteWait)
    BY <2>1, CastsRefl DEF enterPrevoteWait
  <2>2. CASE ~Behind(c, height, round, RoundStepPrevoteWait)
    <3>1. enterPrevoteWait(c, height, round) \in {PanicSanity(c), d(RoundStepPrevoteWait)}
      BY <2>2 DEF enterPrevoteWait, d
    <3> QED
      BY <1>1, <2>2, <3>1, PanicCasts
  <2> QED
    BY <2>1, <2>2
<1>3. Casts(c, enterPrecommitWait(c, height, round), R)
  <2>1. CASE Behind(c, height, round, RoundStepPrecommitWait)
    BY <2>1, CastsRefl DEF enterPrecommitWait
  <2>2. CASE ~Behind(c, height, round, RoundStepPrecommitWait)
    <3>1. enterPrecommitWait(c, height, round)
            \in {PanicSanity(c), d(RoundStepPrecommitWait)}
      BY <2>2 DEF enterPrecommitWait, d
    <3> QED
      BY <1>1, <2>2, <3>1, PanicCasts
  <2> QED
    BY <2>1, <2>2
<1> QED
  BY <1>2, <1>3

\* A request for missing votes signs nothing.
LEMMA fetchMissingVotesCasts ==
  ASSUME NEW c, HasFields(c), NEW R
  PROVE  Casts(c, fetchMissingVotes(c), R)
<1> DEFINE voteSet == IF c.Step = RoundStepPrevoteFetch THEN Prevotes(c.Votes, c.Round)
                      ELSE Precommits(c.Votes, c.Round)
           u == [c EXCEPT !.fvr = MakeFetchVotesReq(voteSet)]
<1> HIDE DEF voteSet
<1>1. Casts(c, u, R) /\ HasFields(u)
  BY SameAnswersRefl DEF Casts, Signed, HasFields
<1>2. fetchMissingVotes(c) \in {scheduleTimeout(u, c.Height, c.Round, c.Step), c}
  BY DEF fetchMissingVotes, u, voteSet
<1> HIDE DEF u
<1>3. Casts(u, scheduleTimeout(u, c.Height, c.Round, c.Step), R)
  BY <1>1, TimeCasts
<1> QED
  BY <1>1, <1>2, <1>3, CastsTrans, CastsRefl

\* A proposal that is accepted may bring the prevote of its round.
LEMMA defaultSetProposalCasts ==
  ASSUME NEW c, HasFields(c), c.Round \in Nat, NEW proposal
  PROVE  Casts(c, defaultSetProposal(c, proposal), c.Round)
<1> DEFINE u == [c EXCEPT !.Proposal = proposal.Proposed]
<1>1. Casts(c, u, c.Round) /\ HasFields(u) /\ u.Round = c.Round
  BY SameAnswersRefl DEF Casts, Signed, HasFields
<1>2. defaultSetProposal(c, proposal) \in {enterPrevote(u, c.Height, c.Round), c}
  BY DEF defaultSetProposal, u
<1> HIDE DEF u
<1>3. Casts(u, enterPrevote(u, c.Height, c.Round), c.Round)
  BY <1>1, enterPrevoteCasts
<1> QED
  BY <1>1, <1>2, <1>3, CastsTrans, CastsRefl

\* The release of a lock signs nothing.
LEMMA onPolkaCasts ==
  ASSUME NEW c, HasFields(c), NEW voteRound, NEW polkaData, NEW R
  PROVE  LET d == onPolka(c, voteRound, polkaData)
         IN  Casts(c, d, R) /\ HasFields(d) /\ d.Round = c.Round
BY SameAnswersRefl DEF onPolka, Casts, Signed, HasFields

-----------------------------------------------------------------------------
(***************************************************************************)
(* What a handler makes of a core: one turn at its height, or a turn, the  *)
(* commit it leads to, and a first turn at the next height.                *)
(***************************************************************************)

\* The core acts on votes that were known before the turn.
Turn(c, d, R, K) ==
  /\ Basics(c, d, K)
  /\ TotalsFit(c.Votes) => Guarded(c, d, c.Round, d.Round)
  /\ Signed(c, d, R) /\ c.Round <= R
  /\ VotesKnown(d.Votes, K \cup c.sent)

\* The core enters the next height, and announces nothing but what it commits.
Decides(c, d, K) ==
  /\ Keeps(c, d, K)
  /\ d.Height = c.Height + 1 /\ d.Round = 0
  /\ d.sent = c.sent /\ d.app.accepts = c.app.accepts
  /\ c.commits \subseteq d.commits
  /\ d.announced \subseteq c.announced \cup d.commits

\* A whole handler: a turn, and when it decides, the first turn of the next height.
Turns(c, d, R, K) ==
  \/ Turn(c, d, R, K)
  \/ \E x, y : /\ Turn(c, x, R, K) /\ Decides(x, y, K)
               /\ Turn(y, d, 0, K) /\ Keeps(y, d, K)

\* A function that keeps the core in order is a turn.
LEMMA KeepsTurn ==
  ASSUME NEW K, NEW c, NEW d, NEW R, Inv(c, K), Keeps(c, d, K), Casts(c, d, R),
         c.Round <= R
  PROVE  Turn(c, d, R, K)
<1>1. VotesKnown(d.Votes, K \cup c.sent)
  BY VotesStayKnown DEF Inv, Casts, Signed
<1> QED
  BY <1>1, KeepsHalves DEF Keeps, Turn, Casts

\* enterCommit, of a core whose application takes the commit.
LEMMA enterCommitDecides ==
  ASSUME Assumptions, NEW K, NEW c, Inv(c, K), ~c.panicked, c.app.accepts,
         NEW commitRound \in Nat,
         HasTwoThirdsMajority(Precommits(c.Votes, commitRound))
  PROVE  Decides(c, enterCommit(c, c.Height, commitRound), K)
<1> DEFINE d   == enterCommit(c, c.Height, commitRound)
           lc  == Precommits(c.Votes, commitRound)
           rec == MakeCommit(lc)
           u   == updateRoundStep([c EXCEPT !.CommitRound = commitRound],
                                  c.Round, RoundStepCommit)
           b   == IF u.hasRecvCommitRecords THEN u
                  ELSE [u EXCEPT !.announced = @ \cup {rec}]
           x   == Commit(b, rec)
           z   == [updateToAppState(x, x.app) EXCEPT !.hasRecvCommitRecords = FALSE]
<1>1. IsCore(c) /\ c.Step # RoundStepCommit /\ HasFields(c)
  BY CoreHasFields DEF Inv, NotCommitting
<1>2. Committed(c, d, lc)
  BY enterCommitResult
<1>3. Keeps(c, d, K)
  BY <1>2, CommittedKeeps DEF HasTwoThirdsMajority
<1>4. ~(c.panicked \/ c.Height # c.Height \/ RoundStepCommit <= c.Step)
  BY <1>1, Numbers DEF RoundStepCommit
<1>5. /\ HasFields(u) /\ u.announced = c.announced /\ u.Votes = c.Votes
      /\ u.CommitRound = commitRound /\ u.app = c.app
  BY <1>1 DEF updateRoundStep, HasFields
<1>6. d = scheduleRound0(z)
  BY <1>4, <1>5 DEF enterCommit, doCommit
<1> HIDE DEF u
<1>7. /\ HasFields(b) /\ b.announced \subseteq c.announced \cup {rec} /\ b.app = c.app
  BY <1>5 DEF HasFields
<1> HIDE DEF b
<1>8. c.app \in [LastHeight : Nat, LastProposedData : DataOrNil, accepts : BOOLEAN]
  BY <1>1, CoreType
<1>9. /\ HasFields(x) /\ x.announced = b.announced /\ x.app.accepts = c.app.accepts
  BY <1>7, <1>8 DEF Commit, HasFields
<1> HIDE DEF x
<1>10. /\ HasFields(updateToAppState(x, x.app))
       /\ updateToAppState(x, x.app).announced = x.announced
       /\ updateToAppState(x, x.app).app = x.app
  BY <1>9 DEF updateToAppState, updateRoundStep, PanicSanity, HasFields
<1>11. d.announced = x.announced /\ d.app = x.app
  BY <1>6, <1>10 DEF scheduleRound0, scheduleTimeout, HasFields
<1> QED
  BY <1>2, <1>3, <1>7, <1>9, <1>11 DEF Decides, Committed

\* A prevote that was added makes the core sign in its own round or the vote's.
LEMMA addedPrevoteCasts ==
  ASSUME Assumptions, NEW K, NEW c, Inv(c, K), NEW vote, vote.Round \in Nat
  PROVE  \E R \in {c.Round, vote.Round} :
           c.Round <= R /\ Casts(c, addedPrevote(c, vote), R)
<1> DEFINE prevotes == Prevotes(c.Votes, vote.Round)
           c1 == IF HasTwoThirdsMajority(prevotes)
                 THEN onPolka(c, vote.Round, prevotes.maj23) ELSE c
           d  == addedPrevote(c, vote)
<1>1. IsCore(c) /\ HasFields(c) /\ c.Round \in Nat /\ committee(c) \in SUBSET Validators
      /\ VotesOK(c.Votes, committee(c)) /\ NoOverflow
  BY CoreHasFields, Numbers, CommitteeType DEF Inv, Assumptions
<1>2. (\A R : Casts(c, c1, R)) /\ HasFields(c1) /\ c1.Round = c.Round
  BY <1>1, onPolkaCasts, CastsRefl
<1>3. c1.Votes = c.Votes /\ committee(c1) = committee(c)
  BY <1>1 DEF onPolka, HasFields, committee, Casts, Signed
<1>4. \/ c.Round < vote.Round /\ d = enterNewRound(c1, c.Height, vote.Round)
      \/ c.Round = vote.Round /\ d = enterPrecommit(c1, c.Height, vote.Round)
      \/ c.Round = vote.Round /\ d = enterPrevoteWait(c1, c.Height, vote.Round)
      \/ d = enterPrevote(c1, c.Height, c.Round)
      \/ d = c1
  BY DEF addedPrevote
<1> HIDE DEF c1, d
<1>5. CASE c.Round < vote.Round /\ d = enterNewRound(c1, c.Height, vote.Round)
  <2>1. c1.Round <= vote.Round /\ vote.Round <= vote.Round /\ c1.Round \in Nat
    BY <1>1, <1>2, <1>5
  <2>2. Casts(c1, d, vote.Round)
    BY <1>1, <1>2, <1>3, <1>5, <2>1, enterNewRoundCasts
  <2> QED
    BY <1>1, <1>2, <2>1, <2>2, CastsTrans DEF d
<1>6. CASE c.Round = vote.Round /\ d = enterPrecommit(c1, c.Height, vote.Round)
  <2>1. c1.Round \in Nat /\ vote.Round <= c1.Round
    BY <1>1, <1>2, <1>6
  <2>2. Casts(c1, d, c.Round)
    BY <1>2, <1>6, <2>1, enterPrecommitCasts
  <2> QED
    BY <1>1, <1>2, <2>1, <2>2, CastsTrans DEF d
<1>7. CASE c.Round = vote.Round /\ d = enterPrevoteWait(c1, c.Height, vote.Round)
  <2>1. c1.Round \in Nat /\ vote.Round <= c1.Round
    BY <1>1, <1>2, <1>7
  <2>2. Casts(c1, d, c.Round)
    BY <1>2, <1>7, <2>1, WaitCasts
  <2> QED
    BY <1>1, <1>2, <2>1, <2>2, CastsTrans DEF d
<1>8. CASE d = enterPrevote(c1, c.Height, c.Round)
  <2>1. c1.Round \in Nat /\ c.Round <= c1.Round
    BY <1>1, <1>2
  <2>2. Casts(c1, d, c.Round)
    BY <1>1, <1>2, <1>8, <2>1, enterPrevoteCasts
  <2> QED
    BY <1>1, <1>2, <2>1, <2>2, CastsTrans DEF d
<1>9. CASE d = c1
  BY <1>1, <1>2, <1>9 DEF d
<1> QED
  BY <1>4, <1>5, <1>6, <1>7, <1>8, <1>9

\* A precommit that was added makes the core sign in one round, and may make it
\* commit.
LEMMA addedPrecommitTurns ==
  ASSUME Assumptions, NEW K, NEW c, Inv(c, K), ~c.panicked, c.app.accepts,
         NEW vote, vote.Round \in Nat
  PROVE  LET d == addedPrecommit(c, vote)
         IN  \E R \in {c.Round, vote.Round} :
               /\ c.Round <= R
               /\ \/ Casts(c, d, R)
                  \/ \E x, y : /\ Keeps(c, x, K) /\ Casts(c, x, R)
                               /\ Decides(x, y, K)
                               /\ Turn(y, d, 0, K) /\ Keeps(y, d, K)
<1> DEFINE r  == vote.Round
           R  == IF c.Round <= r THEN r ELSE c.Round
           entered == enterNewRound(c, c.Height, r)
           pc   == enterPrecommit(entered, c.Height, r)
           done == enterCommit(pc, c.Height, r)
           next == enterNewRound(done, done.Height, 0)
           wait == enterPrecommitWait(entered, c.Height, r)
           d    == addedPrecommit(c, vote)
<1>1. IsCore(c) /\ HasFields(c) /\ c.Round \in Nat /\ committee(c) \in SUBSET Validators
      /\ VotesOK(c.Votes, committee(c)) /\ NoOverflow
  BY CoreHasFields, Numbers, CommitteeType DEF Inv, Assumptions
<1>2. R \in {c.Round, r} /\ R \in Nat /\ c.Round <= R /\ r <= R
  BY <1>1
<1> HIDE DEF R
<1>3. SUFFICES \/ Casts(c, d, R)
               \/ \E x, y : /\ Keeps(c, x, K) /\ Casts(c, x, R)
                            /\ Decides(x, y, K)
                            /\ Turn(y, d, 0, K) /\ Keeps(y, d, K)
  BY <1>2
<1>4. \/ HasTwoThirdsMajority(Precommits(c.Votes, r)) /\ (d = next \/ d = done)
      \/ d = wait
      \/ d = c
  BY DEF addedPrecommit
<1>5. /\ Keeps(c, entered, K) /\ entered.panicked = c.panicked
      /\ ~Behind(c, c.Height, r, RoundStepNewRound) => entered.Round = r
      /\ entered.Round >= c.Round
  BY <1>1, enterNewRoundKeeps DEF Keeps
<1>6. Casts(c, entered, R)
  BY <1>1, <1>2, enterNewRoundCasts
<1> HIDE DEF entered
<1>7. Inv(entered, K) /\ HasFields(entered) /\ entered.Round \in Nat
  BY <1>5, CoreHasFields, Numbers DEF Keeps, KeepsFrom, Inv
<1>8. entered.Round = R
  <2>1. CASE Behind(c, c.Height, r, RoundStepNewRound)
    <3>1. r <= c.Round
      BY <1>1, <2>1 DEF Behind
    <3> QED
      BY <1>1, <1>2, <1>6, <3>1 DEF Casts, Signed
  <2> QED
    BY <1>1, <1>2, <1>5, <1>7, <2>1
<1>9. Casts(entered, pc, R) /\ Keeps(entered, pc, K)
  BY <1>2, <1>7, <1>8, enterPrecommitCasts, enterPrecommitKeeps
<1>10. Casts(entered, wait, R)
  BY <1>2, <1>7, <1>8, WaitCasts
<1> HIDE DEF pc, wait
<1>11. Casts(c, pc, R) /\ Keeps(c, pc, K) /\ Inv(pc, K)
  BY <1>1, <1>5, <1>6, <1>9, CastsTrans, KeepsTrans DEF Keeps, KeepsFrom
<1>12. CASE d = c \/ d = wait
  BY <1>6, <1>10, <1>12, CastsTrans, CastsRefl
<1>13. CASE HasTwoThirdsMajority(Precommits(c.Votes, r)) /\ (d = next \/ d = done)
  <2>1. CASE pc.panicked
    <3>1. done = pc
      BY <2>1 DEF enterCommit
    <3>2. next = pc
      BY <2>1, <3>1 DEF enterNewRound, Behind
    <3> QED
      BY <1>11, <1>13, <3>1, <3>2
  <2>2. CASE ~pc.panicked
    <3>1. HasTwoThirdsMajority(Precommits(pc.Votes, r))
      BY <1>11, <1>13 DEF Casts, Signed, SameAnswers, Precommits, VoteTypes
    <3>2. pc.Height = c.Height /\ pc.app.accepts
      BY <1>11 DEF Casts, Signed
    <3>3. Decides(pc, done, K)
      BY <1>11, <2>2, <3>1, <3>2, enterCommitDecides
    <3> HIDE DEF done
    <3>4. Inv(done, K) /\ HasFields(done) /\ done.Round = 0
          /\ committee(done) \in SUBSET Validators /\ VotesOK(done.Votes, committee(done))
      BY <3>3, CoreHasFields, CommitteeType DEF Decides, Keeps, KeepsFrom, Inv
    <3>5. Turn(done, done, 0, K) /\ Keeps(done, done, K)
      BY <3>4, KeepsRefl, CastsRefl, KeepsTurn
    <3>6. Keeps(done, next, K)
      BY <3>4, enterNewRoundKeeps DEF Keeps
    <3>7. Casts(done, next, 0)
      BY <1>1, <3>4, enterNewRoundCasts
    <3> HIDE DEF next
    <3>8. Turn(done, next, 0, K)
      BY <3>4, <3>6, <3>7, KeepsTurn
    <3>9. Turn(done, d, 0, K) /\ Keeps(done, d, K)
      BY <1>13, <3>5, <3>6, <3>8
    <3> QED
      BY <1>11, <3>3, <3>9
  <2> QED
    BY <2>1, <2>2
<1> QED
  BY <1>4, <1>12, <1>13

\* A late precommit of the previous height may start round 0.
LEMMA addLastCommitVoteCasts ==
  ASSUME Assumptions, NEW K, NEW c, Inv(c, K), NEW vote
  PROVE  Casts(c, addLastCommitVote(c, vote), c.Round)
<1> DEFINE d     == addLastCommitVote(c, vote)
           vs    == VoteSet_AddVote(c.LastCommit, vote, committee(c)).vs
           added == [c EXCEPT !.LastCommit = vs]
<1>1. IsCore(c) /\ HasFields(c) /\ c.Round \in Nat /\ committee(c) \in SUBSET Validators
      /\ VotesOK(c.Votes, committee(c)) /\ NoOverflow
  BY CoreHasFields, Numbers, CommitteeType DEF Inv, Assumptions
<1>2. d \in {c, added, enterNewRound(added, c.Height, 0)}
  BY DEF addLastCommitVote
<1> HIDE DEF vs
<1>3. /\ Casts(c, added, c.Round) /\ HasFields(added) /\ added.Round = c.Round
      /\ added.Votes = c.Votes /\ committee(added) = committee(c)
  BY <1>1, SameAnswersRefl DEF HasFields, Casts, Signed, committee
<1> HIDE DEF added, d
<1>4. Casts(added, enterNewRound(added, c.Height, 0), c.Round)
  <2>1. c.Round \in {added.Round, 0} /\ added.Round <= c.Round /\ 0 <= c.Round
        /\ added.Round \in Nat /\ 0 \in Nat
    BY <1>1, <1>3
  <2> QED
    BY <1>1, <1>3, <2>1, enterNewRoundCasts
<1> QED
  BY <1>2, <1>3, <1>4, CastsRefl, CastsTrans DEF d

\* addVote is a turn, or two and a commit between them.
LEMMA addVoteTurns ==
  ASSUME Assumptions, NEW K, NEW c, Inv(c, K), ~c.panicked, c.app.accepts,
         NEW vote \in Vote, vote \in K \cup c.sent
  PROVE  \E R \in {c.Round, vote.Round} : Turns(c, addVote(c, vote), R, K)
<1> DEFINE res   == HeightVoteSet_AddVote(c.Votes, vote, committee(c))
           added == [c EXCEPT !.Votes = res.hvs]
           d     == addVote(c, vote)
<1>1. IsCore(c) /\ HasFields(c) /\ c.Round \in Nat /\ c.Round <= c.Round
      /\ watermark \in Nat /\ c.panicked \in BOOLEAN
  BY CoreHasFields, Numbers, CoreType, AppAssumption DEF Inv
<1>2. Basics(c, d, K) /\ (TotalsFit(c.Votes) => Guarded(c, d, c.Round, d.Round))
  BY addVoteKeeps DEF Handled
<1>3. ASSUME Casts(c, d, c.Round) PROVE Turn(c, d, c.Round, K)
  BY <1>1, <1>2, <1>3, VotesStayKnown DEF Turn, Casts, Signed, Inv
<1>4. CASE vote.Height + 1 = c.Height
  BY <1>3, <1>4, addLastCommitVoteCasts DEF addVote, Turns
<1>5. CASE /\ vote.Height + 1 # c.Height
           /\ vote.Height # c.Height \/ (vote.Type # ProposalType /\ ErrVoteInvalidRound(c, vote))
  <2>1. d = c
    BY <1>5 DEF addVote
  <2> QED
    BY <1>3, <2>1, CastsRefl DEF Turns
<1>6. CASE /\ vote.Height + 1 # c.Height /\ vote.Height = c.Height
           /\ vote.Type = ProposalType
  <2>1. d = defaultSetProposal(c, vote)
    BY <1>6 DEF addVote
  <2> QED
    BY <1>1, <1>3, <2>1, defaultSetProposalCasts DEF Turns
<1>7. CASE /\ vote.Height + 1 # c.Height /\ vote.Height = c.Height
           /\ vote.Type # ProposalType /\ ~ErrVoteInvalidRound(c, vote)
  <2>1. vote.Type \in VoteTypes /\ vote.Round \in Nat /\ vote.Round <= c.Round + watermark
    BY <1>1, <1>7 DEF Vote, VoteTypes, ErrVoteInvalidRound
  <2> DEFINE S == IF vote.Type = PrevoteType /\ c.Round < vote.Round
                  THEN vote.Round ELSE c.Round
  <2>2. S \in Nat /\ c.Round <= S /\ (vote.Type = PrevoteType => vote.Round <= S)
    BY <1>1, <2>1
  <2>3. Basics(c, added, K) /\ Pos(added) = Pos(c) /\ added.panicked = c.panicked
        /\ (TotalsFit(c.Votes) => Guarded(c, added, c.Round, S))
    BY <2>1, <2>2, VoteAdded
  <2>4. \/ d = added
        \/ vote.Type = PrevoteType /\ d = addedPrevote(added, vote)
        \/ vote.Type # PrevoteType /\ d = addedPrecommit(added, vote)
    BY <1>7 DEF addVote
  <2>5. /\ added.sent = c.sent /\ added.app = c.app /\ added.self = c.self
        /\ added.commits = c.commits /\ added.announced = c.announced
        /\ DOMAIN added = DOMAIN c
    BY <1>1 DEF HasFields
  <2> HIDE DEF added, d, res
  <2>6. /\ Inv(added, K) /\ ~added.panicked /\ added.app.accepts
        /\ added.Round = c.Round /\ added.Height = c.Height
    BY <1>1, <2>3, <2>5 DEF Basics, Pos
  <2>7. ASSUME NEW x, NEW R, Casts(added, x, R), c.Round <= R, Basics(c, x, K),
               TotalsFit(c.Votes) => Guarded(c, x, c.Round, x.Round)
        PROVE  Turn(c, x, R, K)
    <3>1. VotesKnown(added.Votes, K \cup c.sent)
      BY <2>5, <2>6 DEF Inv
    <3>2. VotesKnown(x.Votes, K \cup c.sent)
      BY <2>7, <3>1, VotesStayKnown DEF Casts, Signed
    <3>3. x.Height = c.Height /\ x.app = c.app
      BY <2>5, <2>6, <2>7 DEF Casts, Signed
    <3>4. Signed(c, x, R)
      BY <2>5, <2>6, <2>7, <3>3 DEF Casts, Signed
    <3> QED
      BY <2>7, <3>2, <3>4 DEF Turn
  <2>8. CASE d = added
    <3>1. Turn(c, d, c.Round, K)
      BY <1>1, <1>2, <2>7, <2>8, CastsRefl DEF d
    <3> QED
      BY <3>1 DEF Turns, d
  <2>9. CASE vote.Type = PrevoteType /\ d = addedPrevote(added, vote)
    <3>1. PICK R \in {c.Round, vote.Round} : c.Round <= R /\ Casts(added, d, R)
      BY <2>1, <2>6, <2>9, addedPrevoteCasts
    <3>2. Turn(c, d, R, K)
      BY <1>2, <2>7, <3>1 DEF d
    <3> QED
      BY <3>1, <3>2 DEF Turns, d
  <2>10. CASE vote.Type # PrevoteType /\ d = addedPrecommit(added, vote)
    <3>1. PICK R \in {c.Round, vote.Round} :
            /\ c.Round <= R
            /\ \/ Casts(added, d, R)
               \/ \E x, y : /\ Keeps(added, x, K) /\ Casts(added, x, R)
                            /\ Decides(x, y, K)
                            /\ Turn(y, d, 0, K) /\ Keeps(y, d, K)
      BY <2>1, <2>6, <2>10, addedPrecommitTurns
    <3>2. CASE Casts(added, d, R)
      <4>1. Turn(c, d, R, K)
        BY <1>2, <2>7, <3>1, <3>2 DEF d
      <4> QED
        BY <4>1 DEF Turns, d
    <3>3. ASSUME NEW x, NEW y, Keeps(added, x, K), Casts(added, x, R),
                 Decides(x, y, K), Turn(y, d, 0, K), Keeps(y, d, K)
          PROVE  Turns(c, d, R, K)
      <4>1. Basics(added, x, K) /\ Guarded(added, x, c.Round, x.Round)
        BY <2>6, <3>3, KeepsHalves DEF Keeps
      <4>2. S = c.Round
        BY <2>10
      <4>3. Basics(c, x, K)
        BY <1>1, <2>3, <4>1, BasicsTrans
      <4>4. TotalsFit(c.Votes) => Guarded(c, x, c.Round, x.Round)
        BY <2>3, <4>1, <4>2, GuardedTrans
      <4>5. Turn(c, x, R, K)
        BY <2>7, <3>1, <3>3, <4>3, <4>4
      <4> QED
        BY <3>3, <4>5 DEF Turns
    <3> QED
      BY <3>1, <3>2, <3>3 DEF d
  <2> QED
    BY <2>4, <2>8, <2>9, <2>10
<1> QED
  BY <1>4, <1>5, <1>6, <1>7

\* d is c but for its queues, its timer and its requests.
Idle(c, d, K) ==
  /\ Keeps(c, d, K) /\ Signed(c, d, c.Round)
  /\ d.Votes = c.Votes /\ d.sent = c.sent

\* What is done to the queues before a turn is part of it.
LEMMA IdleThenTurn ==
  ASSUME NEW K, NEW R, NEW c, NEW u, NEW d, IsCore(c), Idle(c, u, K), Turn(u, d, R, K)
  PROVE  Turn(c, d, R, K)
<1>1. Basics(c, u, K) /\ Guarded(c, u, c.Round, u.Round) /\ u.Round = c.Round
  BY KeepsHalves DEF Idle, Keeps, Signed
<1>2. Basics(c, d, K)
  BY <1>1, BasicsTrans DEF Turn
<1>3. TotalsFit(c.Votes) => Guarded(c, d, c.Round, d.Round)
  BY <1>1, GuardedTrans DEF Turn, Idle
<1>4. Signed(c, d, R)
  BY DEF Idle, Turn, Signed
<1> QED
  BY <1>1, <1>2, <1>3, <1>4 DEF Turn, Idle

\* And what is done to them after it.
LEMMA TurnThenIdle ==
  ASSUME NEW K, NEW R, NEW c, NEW u, NEW d, IsCore(c), Turn(c, u, R, K), Idle(u, d, K)
  PROVE  Turn(c, d, R, K)
<1>1. Basics(u, d, K) /\ Guarded(u, d, u.Round, d.Round)
  BY KeepsHalves DEF Idle, Keeps
<1>2. Basics(c, d, K)
  BY <1>1, BasicsTrans DEF Turn
<1>3. TotalsFit(c.Votes) => Guarded(c, d, c.Round, d.Round)
  BY <1>1, GuardedTrans DEF Turn
<1>4. Signed(c, d, R)
  BY DEF Idle, Turn, Signed
<1> QED
  BY <1>2, <1>3, <1>4 DEF Turn, Idle

\* The same of a handler that commits.
LEMMA TurnsAndIdle ==
  ASSUME NEW K, NEW R, NEW c, NEW u, NEW v, NEW d, IsCore(c),
         Idle(c, u, K), Turns(u, v, R, K), Idle(v, d, K)
  PROVE  Turns(c, d, R, K)
<1>1. IsCore(u)
  BY DEF Idle, Keeps, KeepsFrom, Inv
<1>2. CASE Turn(u, v, R, K)
  BY <1>1, <1>2, IdleThenTurn, TurnThenIdle DEF Turns
<1>3. ASSUME NEW x, NEW y, Turn(u, x, R, K), Decides(x, y, K), Turn(y, v, 0, K),
             Keeps(y, v, K)
      PROVE  Turns(c, d, R, K)
  <2>1. IsCore(y)
    BY <1>3 DEF Decides, Keeps, KeepsFrom, Inv
  <2>2. Turn(c, x, R, K) /\ Turn(y, d, 0, K)
    BY <1>1, <1>3, <2>1, IdleThenTurn, TurnThenIdle
  <2>3. Keeps(y, d, K)
    BY <1>3, <2>1, KeepsTrans DEF Idle, Keeps
  <2> QED
    BY <1>3, <2>2, <2>3 DEF Turns
<1> QED
  BY <1>2, <1>3 DEF Turns

\* Nothing is a way to be idle.
LEMMA IdleRefl ==
  ASSUME NEW K, NEW c, Inv(c, K)
  PROVE  Idle(c, c, K)
BY KeepsRefl, CastsRefl DEF Idle, Casts

\* An idle core has had a turn.
LEMMA IdleTurn ==
  ASSUME NEW K, NEW c, NEW d, Inv(c, K), Idle(c, d, K)
  PROVE  Turns(c, d, c.Round, K)
<1>1. Casts(c, d, c.Round) /\ c.Round <= c.Round
  BY SameAnswersRefl, Numbers DEF Idle, Casts, Inv
<1> QED
  BY <1>1, KeepsTurn DEF Idle, Turns

\* A vote, of others or the core's own.
LEMMA handleVoteTurns ==
  ASSUME Assumptions, NEW K, NEW c, Inv(c, K), ~c.panicked, c.app.accepts,
         NEW vote \in Vote, vote \in K \cup c.sent
  PROVE  \E R \in {c.Round, vote.Round} : Turns(c, handleVote(c, vote), R, K)
BY addVoteTurns, IdleRefl, IdleTurn DEF handleVote

\* The votes of a message are noted.
LEMMA NotedIdle ==
  ASSUME NEW K, NEW c, Inv(c, K), NEW votes \in SUBSET (Vote \cup {None}),
         votes \subseteq K \cup {None}, NEW recv \in BOOLEAN
  PROVE  Idle(c, [c EXCEPT !.hasRecvCommitRecords = recv, !.todo = votes], K)
<1> DEFINE d == [c EXCEPT !.hasRecvCommitRecords = recv, !.todo = votes]
<1>1. IsCore(c) /\ HasFields(c)
  BY CoreHasFields DEF Inv
<1>2. IsCore(d)
  BY ONLY <1>1, votes \in SUBSET (Vote \cup {None}), recv \in BOOLEAN DEF IsCore
<1>3. /\ Alike(c, d) /\ d.ticker = c.ticker /\ d.LastCommit = c.LastCommit
      /\ d.msgQueue = c.msgQueue /\ d.todo = votes /\ d.app = c.app
  BY ONLY <1>1 DEF HasFields, Alike, SameLock
<1>4. Signed(c, d, c.Round) /\ d.Votes = c.Votes /\ d.sent = c.sent
  BY <1>1 DEF HasFields, Signed
<1> HIDE DEF d
<1>5. Keeps(c, d, K)
  BY <1>2, <1>3, AlikeKeeps DEF Inv
<1> QED
  BY <1>4, <1>5 DEF Idle, d

\* The rest of a loop over votes.
LEMMA RestIdle ==
  ASSUME NEW K, NEW c, Inv(c, K), NEW votes \in SUBSET (Vote \cup {None}),
         votes \subseteq K \cup {None}
  PROVE  Idle(c, [c EXCEPT !.todo = votes], K)
<1>1. IsCore(c) /\ c.hasRecvCommitRecords \in BOOLEAN
  BY CoreType DEF Inv
<1>2. [c EXCEPT !.todo = votes]
        = [c EXCEPT !.hasRecvCommitRecords = c.hasRecvCommitRecords, !.todo = votes]
  BY ONLY <1>1 DEF IsCore
<1> QED
  BY <1>1, <1>2, NotedIdle

\* A request was answered, or is given up.
LEMMA AnsweredIdle ==
  ASSUME NEW K, NEW c, Inv(c, K)
  PROVE  Idle(c, [c EXCEPT !.fvr = None], K)
<1> DEFINE d == [c EXCEPT !.fvr = None]
<1>1. IsCore(c) /\ HasFields(c)
  BY CoreHasFields DEF Inv
<1>2. IsCore(d)
  BY ONLY <1>1 DEF IsCore
<1>3. /\ Alike(c, d) /\ d.ticker = c.ticker /\ d.LastCommit = c.LastCommit
      /\ d.msgQueue = c.msgQueue /\ d.todo = c.todo /\ d.app = c.app
  BY ONLY <1>1 DEF HasFields, Alike, SameLock
<1>4. Signed(c, d, c.Round) /\ d.Votes = c.Votes /\ d.sent = c.sent
  BY <1>1 DEF HasFields, Signed
<1> HIDE DEF d
<1>5. Keeps(c, d, K)
  BY <1>2, <1>3, AlikeKeeps DEF Inv
<1> QED
  BY <1>4, <1>5 DEF Idle, d

\* handleCommit, up to the loop over the precommits.
LEMMA handleCommitIdle ==
  ASSUME NEW K, NEW c, Inv(c, K), NEW commit,
         commit.Precommits \subseteq Vote \cup {None},
         commit.Precommits \subseteq K \cup {None}
  PROVE  Idle(c, handleCommit(c, commit), K)
<1> DEFINE recv == c.hasRecvCommitRecords \/ CommitHeight(commit) = c.Height
<1>1. IsCore(c) /\ recv \in BOOLEAN
  BY CoreType DEF Inv
<1>2. handleCommit(c, commit) \in
        {c, [c EXCEPT !.hasRecvCommitRecords = recv, !.todo = commit.Precommits]}
  BY DEF handleCommit
<1> DEFINE votes == commit.Precommits
<1>3. votes \in SUBSET (Vote \cup {None}) /\ votes \subseteq K \cup {None}
  OBVIOUS
<1> HIDE DEF recv, votes
<1>4. Idle(c, [c EXCEPT !.hasRecvCommitRecords = recv, !.todo = votes], K)
  BY <1>1, <1>3, NotedIdle
<1> QED
  BY <1>2, <1>4, IdleRefl DEF votes

\* handleFetchRsp, up to the loop over the votes.
LEMMA handleFetchRspIdle ==
  ASSUME NEW K, NEW c, Inv(c, K), NEW rsp,
         rsp.MissingVotes \subseteq Vote \cup {None},
         rsp.MissingVotes \subseteq K \cup {None}
  PROVE  Idle(c, handleFetchRsp(c, rsp), K)
<1>1. handleFetchRsp(c, rsp) \in {c, [c EXCEPT !.todo = rsp.MissingVotes]}
  BY DEF handleFetchRsp
<1> QED
  BY <1>1, RestIdle, IdleRefl

\* The own vote at the head of the queue is taken out.
LEMMA TailIdle ==
  ASSUME NEW K, NEW c, Inv(c, K), c.msgQueue # <<>>
  PROVE  Idle(c, [c EXCEPT !.msgQueue = Tail(@)], K)
<1> DEFINE d == [c EXCEPT !.msgQueue = Tail(@)]
<1>1. IsCore(c) /\ HasFields(c)
  BY CoreHasFields DEF Inv
<1>2. Signed(c, d, c.Round) /\ d.Votes = c.Votes /\ d.sent = c.sent
  BY <1>1 DEF HasFields, Signed
<1> QED
  BY <1>2, TailKeeps DEF Idle

\* The timer fires.
LEMMA TimeOutIdle ==
  ASSUME NEW K, NEW c, Inv(c, K), c.ticker.armed
  PROVE  Idle(c, [c EXCEPT !.ticker = TimeOut(@)], K)
<1> DEFINE d == [c EXCEPT !.ticker = TimeOut(@)]
<1>1. IsCore(c) /\ HasFields(c)
  BY CoreHasFields DEF Inv
<1>2. Signed(c, d, c.Round) /\ d.Votes = c.Votes /\ d.sent = c.sent
  BY <1>1 DEF HasFields, Signed
<1> QED
  BY <1>2, TimeOutKeeps DEF Idle

\* What the timeout of the core's position makes it sign: only the end of the
\* wait for precommits leads to another round.
LEMMA handleTimeoutCasts ==
  ASSUME Assumptions, NEW K, NEW c, Inv(c, K), NEW ti \in timeoutInfo,
         Before(ti, Pos(c)) \/ ti = Pos(c), ti.Step \in TimedSteps,
         NEW R, IF ti.Step = RoundStepPrecommitWait /\ ti = Pos(c)
                THEN R = c.Round + 1 ELSE R = c.Round
  PROVE  Casts(c, handleTimeout(c, ti), R)
<1> DEFINE received == [c EXCEPT !.ticker.tocks = @ \ {ti}]
           pc == enterPrecommit(received, ti.Height, ti.Round)
           d  == handleTimeout(c, ti)
<1>1. IsCore(c) /\ HasFields(c) /\ c.Round \in Nat /\ committee(c) \in SUBSET Validators
      /\ VotesOK(c.Votes, committee(c)) /\ NoOverflow
      /\ c.Height \in Nat /\ c.Step \in Int
  BY CoreHasFields, Numbers, CommitteeType DEF Inv, Assumptions
<1>2. /\ Casts(c, received, R) /\ HasFields(received)
      /\ received.Round = c.Round /\ received.Votes = c.Votes
      /\ received.Step = c.Step
      /\ committee(received) = committee(c)
  BY <1>1, SameAnswersRefl DEF HasFields, Casts, Signed, committee
<1> HIDE DEF received
<1>3. CASE \/ ti.Height # c.Height
           \/ ti.Round < c.Round
           \/ ti.Round = c.Round /\ ti.Step < c.Step
  BY <1>2, <1>3 DEF handleTimeout, received
<1>4. CASE ~(\/ ti.Height # c.Height
             \/ ti.Round < c.Round
             \/ ti.Round = c.Round /\ ti.Step < c.Step)
  <2>1. ti.Height \in Nat /\ ti.Round \in Nat /\ ti.Step \in Int
    BY DEF timeoutInfo
  <2>2. ti = Pos(c)
    BY <1>1, <1>4, <2>1 DEF Before, Pos
  <2>3. ti.Round = c.Round /\ ti.Height = c.Height /\ ti.Step = c.Step
    BY <2>2 DEF Pos
  <2>4. \/ c.Step = 1 /\ d = enterNewRound(received, ti.Height, 0)
        \/ c.Step = 3 /\ d = enterPrevote(received, ti.Height, ti.Round)
        \/ c.Step \in {5, 8} /\ d = fetchMissingVotes(received)
        \/ c.Step = 6 /\ d = enterPrecommit(received, ti.Height, ti.Round)
        \/ c.Step = 9 /\ d = enterNewRound(pc, ti.Height, ti.Round + 1)
    BY <1>4, <2>3 DEF handleTimeout, received, TimedSteps, RoundStepNewHeight,
         RoundStepNewRound, RoundStepPropose, RoundStepPrevoteFetch,
         RoundStepPrevoteWait, RoundStepPrecommitFetch, RoundStepPrecommitWait
  <2>5. IF c.Step = 9 THEN R = c.Round + 1 ELSE R = c.Round
    BY <2>2, <2>3 DEF RoundStepPrecommitWait
  <2> HIDE DEF d
  <2>6. Casts(received, d, R)
    <3>1. CASE c.Step = 1 /\ d = enterNewRound(received, ti.Height, 0)
      <4>1. R \in Nat /\ R \in {received.Round, 0} /\ received.Round <= R /\ 0 <= R
            /\ 0 \in Nat /\ received.Round \in Nat
        BY <1>1, <1>2, <2>5, <3>1
      <4> QED
        BY <1>1, <1>2, <3>1, <4>1, enterNewRoundCasts
    <3>2. CASE c.Step = 3 /\ d = enterPrevote(received, ti.Height, ti.Round)
      <4>1. R = received.Round /\ ti.Round <= received.Round /\ received.Round \in Nat
        BY <1>1, <1>2, <2>3, <2>5, <3>2
      <4> QED
        BY <1>2, <2>1, <3>2, <4>1, enterPrevoteCasts
    <3>3. CASE c.Step \in {5, 8} /\ d = fetchMissingVotes(received)
      BY <1>2, <3>3, fetchMissingVotesCasts
    <3>4. CASE c.Step = 6 /\ d = enterPrecommit(received, ti.Height, ti.Round)
      <4>1. R = received.Round /\ ti.Round <= received.Round /\ received.Round \in Nat
        BY <1>1, <1>2, <2>3, <2>5, <3>4
      <4> QED
        BY <1>2, <2>1, <3>4, <4>1, enterPrecommitCasts
    <3>5. CASE c.Step = 9 /\ d = enterNewRound(pc, ti.Height, ti.Round + 1)
      <4>1. pc = received
        BY <1>2, <2>3, <3>5 DEF enterPrecommit, Behind, RoundStepPrecommit
      <4>2. R \in Nat /\ R = ti.Round + 1 /\ received.Round <= R /\ R <= R
            /\ received.Round \in Nat
        BY <1>1, <1>2, <2>3, <2>5, <3>5
      <4> HIDE DEF pc
      <4> QED
        BY <1>1, <1>2, <3>5, <4>1, <4>2, enterNewRoundCasts
    <3> QED
      BY <2>4, <3>1, <3>2, <3>3, <3>4, <3>5
  <2> QED
    BY <1>2, <2>6, CastsTrans DEF d
<1> QED
  BY <1>3, <1>4

\* A timeout that fires and is received, in bounds.
LEMMA TimedOutTurn ==
  ASSUME Assumptions, NEW K, NEW c, Inv(c, K), ~c.panicked, c.Round <= MaxRound,
         c.ticker.armed,
         \/ c.ticker.ti.Step # RoundStepPrecommitWait
         \/ c.ticker.ti.Round < MaxRound
  PROVE  \E R \in 0..MaxRound : Turn(c, TimedOut(c), R, K)
<1> DEFINE u  == [c EXCEPT !.ticker = TimeOut(@)]
           ti == c.ticker.ti
           R  == IF ti.Step = RoundStepPrecommitWait /\ ti = Pos(c) THEN c.Round + 1
                 ELSE c.Round
<1>1. IsCore(c) /\ HasFields(c) /\ c.Round \in Nat /\ MaxRound \in Nat
      /\ c.ticker \in TimeoutTickers /\ c.panicked \in BOOLEAN
  BY CoreHasFields, Numbers, CoreType, NetworkAssumption DEF Inv
<1>2. ti \in timeoutInfo
  BY <1>1 DEF TimeoutTickers
<1>3. (Before(ti, Pos(c)) \/ ti = Pos(c)) /\ ti.Step \in TimedSteps
  BY DEF Inv, TicksOK
<1>4. Idle(c, u, K)
  BY TimeOutIdle
<1>5. Inv(u, K) /\ Pos(u) = Pos(c) /\ u.Round = c.Round
  BY <1>4, TimeOutKeeps DEF Keeps, KeepsFrom, Idle, Signed
<1>6. ti \in u.ticker.tocks /\ ~u.panicked
  BY <1>1 DEF HasFields, TimeOut, TimeoutTickers
<1>7. R \in 0..MaxRound /\ c.Round <= R
  BY <1>1 DEF Pos
<1>8. TimedOut(c) = handleTimeout(u, ti)
  BY DEF TimedOut
<1>9. IF ti.Step = RoundStepPrecommitWait /\ ti = Pos(u) THEN R = u.Round + 1
      ELSE R = u.Round
  BY <1>5
<1> HIDE DEF u, ti, R
<1>10. Keeps(u, handleTimeout(u, ti), K) /\ Casts(u, handleTimeout(u, ti), R)
  BY <1>2, <1>3, <1>5, <1>6, <1>9, handleTimeoutKeeps, handleTimeoutCasts
<1>11. Turn(u, handleTimeout(u, ti), R, K)
  BY <1>5, <1>7, <1>10, KeepsTurn
<1> QED
  BY <1>1, <1>4, <1>7, <1>8, <1>11, IdleThenTurn

-----------------------------------------------------------------------------
(***************************************************************************)
(* The invariant of the network: no vote of a core is forged, so whatever  *)
(* a core holds of another core, the other core has signed, for that round *)
(* or, once votes are shown in other rounds, for another one.              *)
(***************************************************************************)

\* The votes that may go round.
Genuine == {v \in Vote : v.Round <= MaxRound /\ Signable(v)}

\* The core c of node n, which was sent votes of K.
CoreOK(c, n, K) ==
  /\ Inv(c, K) /\ Hist(c)
  /\ c.self = n /\ c.Round <= MaxRound /\ c.app.accepts
  /\ \A v \in c.sent : v.Address = n /\ v.sigOK /\ v.Round \in 0..MaxRound
  /\ c.announced \subseteq c.commits

\* The invariant: every core has what is proved of one, and nothing is forged.
NetInv == DOMAIN core = Cores /\ \A n \in Cores : CoreOK(core[n], n, Genuine)

\* No running total of a VoteSet is near the end of int64.
SumsFit == \A n \in Cores : TotalsFit(core[n].Votes)

\* What holds of a core besides as long as this is so, even if it has died of a
\* nil pointer.
Guards(c) ==
  /\ TotalsOK(c.Votes)
  /\ NoPolkaAfter(c.Votes, committee(c), c.Round)
  /\ LockHist(c, c.Round)

GuardInv == \A n \in Cores : Guards(core[n])

\* Every core has just been started.
LEMMA InitStarts ==
  ASSUME Assumptions, Init, NEW n \in Cores
  PROVE  \E app : /\ Starts(n, app, core[n]) /\ app.accepts /\ app.LastHeight = 0
                  /\ core[n].announced = {}
<1> DEFINE app == [LastHeight |-> 0, LastProposedData |-> Nil, accepts |-> TRUE]
<1>1. /\ core = [m \in Cores |-> Start(NewCore(m, app))]
      /\ app \in [LastHeight : Nat, LastProposedData : DataOrNil, accepts : BOOLEAN]
      /\ app.accepts /\ app.LastHeight = 0 /\ n \in Nodes
  BY NetworkAssumption DEF Init, DataOrNil
<1>2. core[n].announced = {}
  BY <1>1 DEF Start, startUp, NewCore, scheduleRound0, scheduleTimeout,
    updateToAppState, updateRoundStep, PanicSanity
<1> HIDE DEF app
<1>3. Starts(n, app, Start(NewCore(n, app)))
  BY ONLY Assumptions, <1>1, StartResult
<1> QED
  BY <1>1, <1>2, <1>3

\* The invariants hold at first.
LEMMA NetInitOK ==
  ASSUME Assumptions, Init
  PROVE  NetInv /\ GuardInv
<1>1. DOMAIN core = Cores /\ MaxRound \in Nat
  BY NetworkAssumption DEF Init
<1>2. ASSUME NEW n \in Cores
      PROVE  /\ CoreOK(core[n], n, Genuine)
             /\ Guards(core[n])
  <2> DEFINE c == core[n]
  <2>1. PICK app : Starts(n, app, c) /\ app.accepts /\ c.announced = {}
    BY InitStarts
  <2> HIDE DEF c
  <2>2. Inv(c, Genuine) /\ Safe(c, c.Round)
    <3>1. /\ QueueKnown(c.msgQueue, c.sent) /\ c.todo \subseteq Genuine
          /\ CommitsOK(c.commits, c.app, Genuine \cup c.sent)
      BY <2>1 DEF Starts, QueueKnown, CommitsOK
    <3> QED
      BY <2>1, <3>1, FreshOK DEF Starts
  <2>3. Hist(c) /\ LockHist(c, c.Round)
    BY <2>1 DEF Starts, Hist, SentBefore, SentOnce, SentJustified,
      LockHist, LockHeld, LockObeyed
  <2>4. CoreOK(c, n, Genuine)
    BY <1>1, <2>1, <2>2, <2>3 DEF CoreOK, Starts, Fresh
  <2> QED
    BY <2>2, <2>3, <2>4 DEF c, Guards, Safe
<1> QED
  BY <1>1, <1>2 DEF NetInv, GuardInv

\* What a core has signed is genuine.
LEMMA SentGenuine ==
  ASSUME NetInv, NEW n \in Cores
  PROVE  core[n].sent \subseteq Genuine
<1>1. IsCore(core[n]) /\ CoreOK(core[n], n, Genuine) /\ MaxRound \in Nat
  BY NetworkAssumption DEF NetInv, CoreOK, Inv
<1>2. core[n].sent \subseteq Vote
  BY <1>1, CoreType
<1> QED
  BY <1>1, <1>2 DEF CoreOK, Genuine, Signable

\* So are the precommits of what it commits or announces.
LEMMA CommitsGenuine ==
  ASSUME NetInv, NEW n \in Cores,
         NEW rec \in core[n].commits \cup core[n].announced
  PROVE  rec.Precommits \subseteq Genuine
<1>1. CoreOK(core[n], n, Genuine)
  BY DEF NetInv
<1>2. rec.Precommits \subseteq Genuine \cup core[n].sent
  BY <1>1 DEF CoreOK, Inv, CommitsOK, CommitOK
<1> QED
  BY <1>2, SentGenuine

\* Everything a core is sent is genuine.
LEMMA MessagesGenuine ==
  ASSUME NetInv, NEW n \in Cores
  PROVE  /\ Broadcasts(n) \subseteq Genuine
         /\ \A commit \in CommitsFor(n) : commit.Precommits \subseteq Genuine \cup {None}
<1>1. \A vote \in FaultyVotes : Signable(vote) => vote \in Genuine
  BY NetworkAssumption, ValueAssumption DEF Genuine
<1>2. ASSUME NEW commit \in FaultyCommits, NEW vote \in commit.Precommits \ {None},
             Signable(vote)
      PROVE  vote \in Genuine
  BY <1>2, NetworkAssumption DEF Genuine
<1> QED
  BY <1>1, <1>2, SentGenuine, CommitsGenuine DEF Broadcasts, CommitsFor

\* And every answer it fetches.
LEMMA AnswersGenuine ==
  ASSUME NetInv, NEW m \in Cores, NEW req \in FetchVotesReqs,
         NEW rsp \in handleFetch(core[m], req)
  PROVE  rsp.MissingVotes \subseteq Genuine
<1> DEFINE c  == core[m]
           vs == getVoteSet(c.Votes, req.Round, req.Type)
<1>1. CoreOK(c, m, Genuine)
  BY DEF NetInv
<1>2. req.Type \in VoteTypes /\ req.Round \in Int
  BY DEF FetchVotesReqs, VoteTypes
<1>3. CASE \E commit \in c.commits : rsp.MissingVotes = commit.Precommits
  BY <1>3, CommitsGenuine
<1>4. CASE rsp = MakeFetchVotesRsp(vs, req)
  <2>1. rsp.MissingVotes \subseteq UNION {VotesFor(vs, d) : d \in DataOrNil}
    BY <1>4 DEF MakeFetchVotesRsp
  <2>2. ASSUME NEW d \in DataOrNil PROVE VotesFor(vs, d) \subseteq Genuine
    <3>1. CASE req.Round \in Nat
      <4>1. VotesFor(vs, d) \subseteq Genuine \cup c.sent
        BY <1>1, <1>2, <3>1 DEF CoreOK, Inv, VotesKnown
      <4> QED
        BY <4>1, SentGenuine
    <3>2. CASE req.Round \notin Nat
      <4>1. req.Round \notin DOMAIN c.Votes.roundVoteSets
        BY <1>1, <3>2 DEF CoreOK, Inv, IsCore, IsHeightVoteSet
      <4>2. vs.votes[d] = {}
        BY <4>1 DEF getVoteSet, NewVoteSet
      <4> QED
        BY <4>2 DEF VotesFor
    <3> QED
      BY <3>1, <3>2
  <2> QED
    BY <2>1, <2>2
<1> QED
  BY <1>3, <1>4 DEF handleFetch

-----------------------------------------------------------------------------
\* Core n has had its turns and the others have waited.
Acts(n, d, R) ==
  /\ ~core[n].panicked /\ Turns(core[n], d, R, Genuine)
  /\ core' = [core EXCEPT ![n] = d] /\ UNCHANGED rerounded

\* Core n has dereferenced a nil pointer of a list of votes.
Dies(n, rest) ==
  /\ ~core[n].panicked /\ rest \subseteq core[n].todo
  /\ core' = [core EXCEPT ![n] = [NilDereference(core[n]) EXCEPT !.todo = rest]]
  /\ UNCHANGED rerounded

\* What a core that is about to act is like.
LEMMA Actor ==
  ASSUME NetInv, NEW n \in Cores
  PROVE  /\ Inv(core[n], Genuine) /\ core[n].app.accepts /\ IsCore(core[n])
         /\ core[n].Round \in 0..MaxRound
         /\ core[n].todo \subseteq Genuine \cup {None} /\ core[n].sent \subseteq Genuine
<1>1. CoreOK(core[n], n, Genuine)
  BY DEF NetInv
<1>2. IsCore(core[n]) /\ MaxRound \in Nat
  BY <1>1, NetworkAssumption DEF CoreOK, Inv
<1> QED
  BY <1>1, <1>2, Numbers, SentGenuine DEF CoreOK, Inv

\* A round of the core or of a genuine vote, in bounds.
LEMMA TurnRound ==
  ASSUME NetInv, NEW n \in Cores, NEW vote \in Genuine, NEW d,
         \E R \in {core[n].Round, vote.Round} : Turns(core[n], d, R, Genuine)
  PROVE  \E R \in 0..MaxRound : Turns(core[n], d, R, Genuine)
<1>1. PICK R \in {core[n].Round, vote.Round} : Turns(core[n], d, R, Genuine)
  OBVIOUS
<1>2. core[n].Round <= R
  BY <1>1 DEF Turns, Turn
<1>3. core[n].Round \in 0..MaxRound /\ vote.Round \in Int /\ vote.Round <= MaxRound
      /\ MaxRound \in Nat
  BY Actor, NetworkAssumption DEF Genuine, Vote
<1>4. R \in 0..MaxRound
  BY <1>1, <1>2, <1>3
<1> QED
  BY <1>1, <1>4

\* A vote of somebody else.
LEMMA RecvVoteActs ==
  ASSUME Assumptions, NetInv, NEW n \in Cores, NEW vote \in Broadcasts(n),
         RecvVote(n, vote)
  PROVE  \E d : \E R \in 0..MaxRound : Acts(n, d, R)
<1>1. /\ Inv(core[n], Genuine) /\ ~core[n].panicked /\ core[n].app.accepts
      /\ vote \in Genuine /\ vote \in Vote
  BY Actor, MessagesGenuine DEF RecvVote, Listening, Running, Selecting, Genuine
<1> DEFINE d == handleVote(core[n], vote)
<1>2. \E R \in {core[n].Round, vote.Round} : Turns(core[n], d, R, Genuine)
  BY <1>1, handleVoteTurns
<1>3. core' = [core EXCEPT ![n] = d] /\ UNCHANGED rerounded
  BY DEF RecvVote
<1> HIDE DEF d
<1> QED
  BY <1>1, <1>2, <1>3, TurnRound DEF Acts

\* A Commit of somebody else.
LEMMA RecvCommitActs ==
  ASSUME NetInv, NEW n \in Cores, NEW commit \in CommitsFor(n), RecvCommit(n, commit)
  PROVE  \E d : \E R \in 0..MaxRound : Acts(n, d, R)
<1> DEFINE d == handleCommit(core[n], commit)
<1>1. /\ Inv(core[n], Genuine) /\ commit.Precommits \subseteq Genuine \cup {None}
      /\ core[n].Round \in 0..MaxRound /\ Genuine \subseteq Vote /\ ~core[n].panicked
  BY Actor, MessagesGenuine DEF RecvCommit, Listening, Running, Selecting, Genuine
<1>2. Idle(core[n], d, Genuine)
  BY <1>1, handleCommitIdle
<1>3. core' = [core EXCEPT ![n] = d] /\ UNCHANGED rerounded
  BY DEF RecvCommit
<1> HIDE DEF d
<1> QED
  BY <1>1, <1>2, <1>3, IdleTurn DEF Acts

\* A nil entry of a Commit.
LEMMA TryAddNilDies ==
  ASSUME NEW n \in Cores, TryAddVote(n, None)
  PROVE  \E rest : Dies(n, rest)
<1>1. Dies(n, core[n].todo \ {None})
  BY DEF TryAddVote, tryAddVote, Dies
<1> QED
  BY <1>1

\* One vote of a Commit or of a response.
LEMMA TryAddVoteActs ==
  ASSUME Assumptions, NetInv, NEW n \in Cores, NEW vote \in core[n].todo,
         TryAddVote(n, vote), vote # None
  PROVE  \E d : \E R \in 0..MaxRound : Acts(n, d, R)
<1> DEFINE c    == core[n]
           a    == tryAddVote(c, vote)
           rest == c.todo \ {vote}
           d    == [a EXCEPT !.todo = rest]
<1>1. /\ Inv(c, Genuine) /\ ~c.panicked /\ c.app.accepts /\ IsCore(c)
      /\ vote \in Genuine /\ vote \in Vote /\ rest \subseteq Genuine \cup {None}
      /\ rest \in SUBSET (Vote \cup {None})
  BY Actor DEF TryAddVote, Genuine
<1>2. PICK R \in {c.Round, vote.Round} : Turns(c, a, R, Genuine)
  <2>1. a = addVote(c, vote)
    BY DEF tryAddVote
  <2> QED
    BY <1>1, <2>1, addVoteTurns
<1>3. Inv(a, Genuine)
  BY <1>2 DEF Turns, Turn, Basics
<1>4. core' = [core EXCEPT ![n] = d] /\ UNCHANGED rerounded
  BY DEF TryAddVote
<1> HIDE DEF a, rest
<1>5. Idle(a, d, Genuine) /\ Idle(c, c, Genuine)
  BY <1>1, <1>3, RestIdle, IdleRefl
<1> HIDE DEF d
<1>6. Turns(c, d, R, Genuine)
  BY <1>1, <1>2, <1>5, TurnsAndIdle
<1> QED
  BY <1>1, <1>4, <1>6, TurnRound DEF Acts

\* The core's own vote.
LEMMA RecvOwnActs ==
  ASSUME Assumptions, NetInv, NEW n \in Cores, RecvOwn(n)
  PROVE  \E d : \E R \in 0..MaxRound : Acts(n, d, R)
<1> DEFINE c    == core[n]
           u    == [c EXCEPT !.msgQueue = Tail(@)]
           vote == Head(c.msgQueue)
           d    == handleVote(u, vote)
<1>1. /\ Inv(c, Genuine) /\ ~c.panicked /\ c.app.accepts /\ IsCore(c)
      /\ c.msgQueue # <<>> /\ c.sent \subseteq Genuine
  BY Actor DEF RecvOwn, Running, Selecting
<1>2. /\ Keeps(c, u, Genuine) /\ u.sent = c.sent /\ u.panicked = c.panicked
      /\ vote \in c.sent /\ vote \in Vote
  BY <1>1, TailKeeps
<1>3. Idle(c, u, Genuine)
  BY <1>1, TailIdle
<1>4. core' = [core EXCEPT ![n] = d] /\ UNCHANGED rerounded
  BY DEF RecvOwn
<1> HIDE DEF u, vote
<1>5. /\ Inv(u, Genuine) /\ ~u.panicked /\ u.app.accepts /\ u.Round = c.Round
      /\ vote \in Genuine
  BY <1>1, <1>2, <1>3 DEF Keeps, KeepsFrom, Idle, Signed
<1>6. PICK R \in {u.Round, vote.Round} : Turns(u, d, R, Genuine)
  BY <1>2, <1>5, handleVoteTurns
<1> HIDE DEF d
<1>7. Inv(d, Genuine)
  BY <1>6 DEF Turns, Turn, Basics
<1>8. Turns(c, d, R, Genuine)
  BY <1>1, <1>3, <1>6, <1>7, IdleRefl, TurnsAndIdle
<1> QED
  BY <1>1, <1>4, <1>5, <1>6, <1>8, TurnRound DEF Acts

\* A timeout whose request, if it makes one, is not answered.
LEMMA TimeoutActs ==
  ASSUME Assumptions, NetInv, NEW n \in Cores, Timeout(n)
  PROVE  \E d : \E R \in 0..MaxRound : Acts(n, d, R)
<1> DEFINE c == core[n]
           u == TimedOut(c)
           d == [u EXCEPT !.fvr = None]
<1>1. /\ Inv(c, Genuine) /\ ~c.panicked /\ IsCore(c) /\ c.Round <= MaxRound
      /\ c.ticker.armed
      /\ \/ c.ticker.ti.Step # RoundStepPrecommitWait
         \/ c.ticker.ti.Round < MaxRound
  BY Actor DEF Timeout, TimerArmed
<1>2. PICK R \in 0..MaxRound : Turn(c, u, R, Genuine)
  BY <1>1, TimedOutTurn
<1>3. core' = [core EXCEPT ![n] = d] /\ UNCHANGED rerounded
  BY DEF Timeout, AfterTimeout
<1> HIDE DEF u
<1>4. Idle(u, d, Genuine)
  BY <1>2, AnsweredIdle DEF Turn, Basics
<1> HIDE DEF d
<1>5. Turn(c, d, R, Genuine)
  BY <1>1, <1>2, <1>4, TurnThenIdle
<1> QED
  BY <1>1, <1>3, <1>5 DEF Acts, Turns

\* A timeout whose request is answered.
LEMMA FetchActs ==
  ASSUME Assumptions, NetInv, NEW n \in Cores, NEW m \in Cores, Fetch(n, m)
  PROVE  \E d : \E R \in 0..MaxRound : Acts(n, d, R)
<1> DEFINE c == core[n]
           u == TimedOut(c)
<1>1. /\ Inv(c, Genuine) /\ ~c.panicked /\ IsCore(c) /\ c.Round <= MaxRound
      /\ c.ticker.armed
      /\ \/ c.ticker.ti.Step # RoundStepPrecommitWait
         \/ c.ticker.ti.Round < MaxRound
  BY Actor DEF Fetch, TimerArmed
<1>2. PICK R \in 0..MaxRound : Turn(c, u, R, Genuine)
  BY <1>1, TimedOutTurn
<1>3. PICK rsp \in handleFetch(core[m], u.fvr) :
        /\ u.fvr # None
        /\ core' = [core EXCEPT ![n] = [handleFetchRsp(u, rsp) EXCEPT !.fvr = None]]
        /\ UNCHANGED rerounded
  BY DEF Fetch, Answered
<1> HIDE DEF u
<1>4. Inv(u, Genuine) /\ IsCore(u)
  BY <1>2 DEF Turn, Basics, Inv
<1>5. u.fvr \in FetchVotesReqs
  BY <1>3, <1>4, CoreType
<1>6. rsp.MissingVotes \subseteq Genuine /\ rsp.MissingVotes \subseteq Vote
  BY <1>3, <1>5, AnswersGenuine DEF Genuine
<1> DEFINE a == handleFetchRsp(u, rsp)
           d == [a EXCEPT !.fvr = None]
<1>7. Idle(u, a, Genuine)
  BY <1>4, <1>6, handleFetchRspIdle
<1>8. core' = [core EXCEPT ![n] = d] /\ UNCHANGED rerounded
  BY <1>3
<1> HIDE DEF a
<1>9. Inv(a, Genuine)
  BY <1>7 DEF Idle, Keeps, KeepsFrom
<1>10. Idle(a, d, Genuine)
  BY <1>9, AnsweredIdle
<1> HIDE DEF d
<1>11. Turn(c, d, R, Genuine)
  BY <1>1, <1>2, <1>7, <1>10, TurnThenIdle
<1> QED
  BY <1>1, <1>8, <1>11 DEF Acts, Turns

\* Every step is some core's turn or end, or the faulty's.
LEMMA NextActs ==
  ASSUME Assumptions, NetInv, Next
  PROVE  \/ \E n \in Cores : \E d : \E R \in 0..MaxRound : Acts(n, d, R)
         \/ \E n \in Cores : \E rest : Dies(n, rest)
         \/ Reround
BY RecvVoteActs, RecvCommitActs, TryAddVoteActs, TryAddNilDies, RecvOwnActs, TimeoutActs,
   FetchActs DEF Next

-----------------------------------------------------------------------------
\* A turn leaves a core in order.
LEMMA TurnOK ==
  ASSUME NEW c, NEW d, NEW n, NEW K, NEW R \in 0..MaxRound,
         CoreOK(c, n, K), Turn(c, d, R, K)
  PROVE  CoreOK(d, n, K)
<1>1. Inv(d, K) /\ Hist(d) /\ Signed(c, d, R) /\ MaxRound \in Nat
  BY NetworkAssumption DEF CoreOK, Turn, Basics
<1> QED
  BY <1>1 DEF CoreOK, Signed

\* So does a commit.
LEMMA DecidesOK ==
  ASSUME NEW c, NEW d, NEW n, NEW K, CoreOK(c, n, K), Decides(c, d, K)
  PROVE  CoreOK(d, n, K)
<1>1. Inv(d, K) /\ Hist(d) /\ d.self = c.self /\ MaxRound \in Nat
  BY NetworkAssumption DEF CoreOK, Decides, Keeps, KeepsFrom
<1> QED
  BY <1>1 DEF CoreOK, Decides

\* What a core may be after its turns.
LEMMA TurnsOK ==
  ASSUME NEW c, NEW d, NEW n, NEW K, NEW R \in 0..MaxRound,
         CoreOK(c, n, K), Turns(c, d, R, K)
  PROVE  CoreOK(d, n, K) /\ c.sent \subseteq d.sent
<1>1. 0 \in 0..MaxRound
  BY NetworkAssumption
<1>2. CASE Turn(c, d, R, K)
  BY <1>2, TurnOK DEF Turn, Signed
<1>3. CASE \E x, y : /\ Turn(c, x, R, K) /\ Decides(x, y, K)
                     /\ Turn(y, d, 0, K) /\ Keeps(y, d, K)
  <2>1. PICK x, y : Turn(c, x, R, K) /\ Decides(x, y, K) /\ Turn(y, d, 0, K)
    BY <1>3
  <2>2. CoreOK(d, n, K)
    BY <1>1, <2>1, TurnOK, DecidesOK
  <2> QED
    BY <2>1, <2>2 DEF Turn, Signed, Decides
<1> QED
  BY <1>2, <1>3 DEF Turns

\* What a step makes of the cores.
LEMMA Acted ==
  ASSUME NetInv, NEW n \in Cores, NEW d, NEW R \in 0..MaxRound, Acts(n, d, R)
  PROVE  /\ DOMAIN core' = Cores /\ core'[n] = d
         /\ \A m \in Cores \ {n} : core'[m] = core[m]
         /\ \A m \in Cores : core[m].sent \subseteq core'[m].sent
         /\ Genuine \subseteq Genuine'
<1>1. DOMAIN core' = Cores /\ core'[n] = d /\ \A m \in Cores \ {n} : core'[m] = core[m]
  BY DEF NetInv, Acts
<1>2. core[n].sent \subseteq d.sent
  BY TurnsOK DEF NetInv, Acts
<1>3. \A m \in Cores : core[m].sent \subseteq core'[m].sent
  BY <1>1, <1>2
<1>4. Genuine \subseteq Genuine'
  BY <1>3 DEF Genuine, Signable, Acts
<1> QED
  BY <1>1, <1>3, <1>4

\* What the end of a core leaves of it.
LEMMA Died ==
  ASSUME NetInv, NEW n \in Cores, NEW rest, Dies(n, rest)
  PROVE  /\ NetInv' /\ (GuardInv => GuardInv')
         /\ \A m \in Cores : /\ core'[m].sent = core[m].sent
                             /\ core'[m].Height = core[m].Height
                             /\ core'[m].Round = core[m].Round
<1> DEFINE c == core[n]
           d == [NilDereference(c) EXCEPT !.todo = rest]
<1>1. /\ DOMAIN core' = Cores /\ core'[n] = d
      /\ \A m \in Cores \ {n} : core'[m] = core[m]
  BY DEF NetInv, Dies
<1>2. CoreOK(c, n, Genuine) /\ Inv(c, Genuine) /\ IsCore(c) /\ ~c.panicked
  BY DEF NetInv, CoreOK, Inv, Dies
<1>3. /\ rest \in SUBSET (Vote \cup {None}) /\ rest \subseteq Genuine \cup {None}
  BY <1>2, Actor, CoreType DEF Dies
<1>4. /\ Inv(d, Genuine) /\ d.Votes = c.Votes /\ committee(d) = committee(c)
      /\ d.Round = c.Round /\ d.Height = c.Height
      /\ Hist(c) => Hist(d)
      /\ LockHist(c, c.Round) => LockHist(d, d.Round)
  BY <1>2, <1>3, NilKeeps
<1>5. /\ d.self = c.self /\ d.app = c.app /\ d.sent = c.sent
      /\ d.announced = c.announced /\ d.commits = c.commits
  BY ONLY <1>2 DEF NilDereference, IsCore
<1> HIDE DEF d
<1>6. CoreOK(d, n, Genuine)
  BY <1>2, <1>4, <1>5 DEF CoreOK
<1>7. GuardInv => GuardInv'
  BY <1>1, <1>4 DEF GuardInv, Guards
<1>8. Genuine' = Genuine
  BY <1>1, <1>5 DEF Genuine, Signable, Dies
<1>9. NetInv'
  BY <1>1, <1>6, <1>8 DEF NetInv
<1> QED
  BY <1>1, <1>4, <1>5, <1>7, <1>9

\* What may be shown from now on is not less than before.
LEMMA Rerounded ==
  ASSUME NetInv, Reround
  PROVE  NetInv' /\ (GuardInv => GuardInv')
<1>1. core' = core /\ Genuine \subseteq Genuine'
  BY DEF Reround, Genuine, Signable
<1>2. ASSUME NEW m \in Cores PROVE CoreOK(core[m], m, Genuine')
  BY <1>1, MoreHeard DEF NetInv, CoreOK
<1> QED
  BY <1>1, <1>2 DEF NetInv, GuardInv

\* Every step keeps the invariant.
LEMMA NetInvKept ==
  ASSUME NetInv, NEW n \in Cores, NEW d, NEW R \in 0..MaxRound, Acts(n, d, R)
  PROVE  NetInv'
<1>1. ASSUME NEW m \in Cores PROVE CoreOK(core'[m], m, Genuine)
  <2>1. CoreOK(core[m], m, Genuine)
    BY DEF NetInv
  <2>2. CASE m = n
    BY <2>1, <2>2, Acted, TurnsOK DEF Acts
  <2> QED
    BY <2>1, <2>2, Acted
<1>2. ASSUME NEW m \in Cores PROVE CoreOK(core'[m], m, Genuine')
  BY <1>1, Acted, MoreHeard DEF CoreOK
<1> QED
  BY <1>2, Acted DEF NetInv

\* And what holds as long as the totals fit.
LEMMA GuardInvKept ==
  ASSUME NetInv, GuardInv, SumsFit,
         NEW n \in Cores, NEW d, NEW R \in 0..MaxRound, Acts(n, d, R)
  PROVE  GuardInv'
<1> DEFINE c == core[n]
<1>1. /\ CoreOK(c, n, Genuine) /\ TotalsFit(c.Votes)
      /\ Safe(c, c.Round) /\ LockHist(c, c.Round)
  BY DEF NetInv, GuardInv, Guards, Safe, SumsFit, Acts
<1>2. Turns(c, d, R, Genuine)
  BY DEF Acts
<1> HIDE DEF c
<1>3. Safe(d, d.Round) /\ LockHist(d, d.Round)
  <2>1. CASE Turn(c, d, R, Genuine)
    BY <1>1, <2>1 DEF Turn, Guarded, CoreOK
  <2>2. CASE \E x, y : /\ Turn(c, x, R, Genuine) /\ Decides(x, y, Genuine)
                       /\ Turn(y, d, 0, Genuine) /\ Keeps(y, d, Genuine)
    <3>1. PICK x, y : /\ Turn(c, x, R, Genuine) /\ Decides(x, y, Genuine)
                      /\ Keeps(y, d, Genuine)
      BY <2>2
    <3>2. Hist(x) /\ Safe(x, x.Round) /\ LockHist(x, x.Round)
      BY <1>1, <3>1 DEF Turn, Basics, Guarded, CoreOK
    <3>3. Hist(y) /\ Safe(y, y.Round) /\ LockHist(y, y.Round)
      BY <3>1, <3>2 DEF Decides, Keeps, KeepsFrom
    <3> QED
      BY <3>1, <3>3 DEF Keeps, KeepsFrom
  <2> QED
    BY <1>2, <2>1, <2>2 DEF Turns
<1> QED
  BY <1>3, Acted DEF GuardInv, Guards, Safe

\* No vote of a core is forged but for its round, whatever becomes of it, and every
\* core is in order: what CoreNodeProofs shows of a single core holds of all.
THEOREM NetInvariant ==
  ASSUME Assumptions
  PROVE  Spec => []NetInv
<1>1. ASSUME NetInv, [Next]_vars PROVE NetInv'
  <2>1. CASE Next
    BY <1>1, <2>1, NextActs, NetInvKept, Died, Rerounded
  <2>2. CASE UNCHANGED vars
    BY <1>1, <2>2 DEF vars, NetInv, Genuine, Signable
  <2> QED
    BY <1>1, <2>1, <2>2
<1> QED
  BY <1>1, NetInitOK, PTL DEF Spec

-----------------------------------------------------------------------------
(***************************************************************************)
(* What Voting sees of the cores.                                          *)
(***************************************************************************)

\* A core that has not voted.
LEMMA VoteAtNone ==
  ASSUME NEW c, NEW type, NEW r, VotesAt(c, type, r) = {}
  PROVE  VoteAt(c, type, r) = None
BY DEF VoteAt

\* A core that has voted, once.
LEMMA VoteAtOne ==
  ASSUME NEW c, SentOnce(c.sent), NEW v \in c.sent, v.Height = TheHeight
  PROVE  VoteAt(c, v.Type, v.Round) = v.Proposed
<1> DEFINE votes == VotesAt(c, v.Type, v.Round)
<1>1. v \in votes /\ \A w \in votes : w = v
  BY DEF VotesAt, SentOnce
<1>2. votes = {v} /\ (CHOOSE w \in votes : TRUE) = v
  BY <1>1
<1> QED
  BY <1>1, <1>2 DEF VoteAt

\* What the honest validators of Voting are.
LEMMA HonestCores ==
  /\ V!Honest = Members \cap Cores /\ FaultyMembers \subseteq Members
  /\ Members \in SUBSET Validators
  /\ \A S \in SUBSET Members : MemberPower[S] = PowerOf[S]
  /\ V!Quorum(Members) = Quorum(Members)
<1>1. Members \in SUBSET Validators
  <2>1. TheHeight \in 1..(MaxHeight + 1)
    BY NetworkAssumption
  <2> QED
    BY <2>1, NetworkAssumption DEF Members
<1>2. V!Honest = Members \cap Cores /\ FaultyMembers \subseteq Members
  BY DEF V!Honest, FaultyMembers
<1>3. \A S \in SUBSET Members : MemberPower[S] = PowerOf[S]
  BY DEF MemberPower
<1>4. V!TotalVotingPower(Members) = TotalVotingPower(Members)
  BY <1>3 DEF V!TotalVotingPower, TotalVotingPower
<1>5. V!Quorum(Members) = Quorum(Members)
  BY <1>4 DEF V!Quorum, Quorum, V!TwoThirds, TwoThirds, V!int64, int64
<1> QED
  BY <1>1, <1>2, <1>3, <1>5

\* Votes that are genuine and of one type, round and value at TheHeight are those
\* that Voting counts in that round, or, once they are shown in others, in any.
LEMMA GenuineCounts ==
  ASSUME NetInv, NEW v \in Genuine, v.sigOK, v.Address \in Members,
         v.Height = TheHeight, NEW r \in 0..MaxRound, v.Round = r \/ rerounded
  PROVE  /\ v.Type = PrevoteType => v.Address \in V!Prevoters(r, v.Proposed)
         /\ v.Type = PrecommitType => v.Address \in V!Precommitters(r, v.Proposed)
<1>1. CASE v.Address \in FaultyMembers
  BY <1>1 DEF V!Prevoters, V!Precommitters
<1>2. CASE v.Address \notin FaultyMembers
  <2>1. v.Address \in V!Honest /\ v.Address \in Cores
    BY <1>2, HonestCores DEF FaultyMembers
  <2>2. PICK w \in core[v.Address].sent :
          Digest(w) = Digest(v) /\ (w.Round = v.Round \/ rerounded)
    BY <2>1 DEF Genuine, Signable
  <2>3. w.Type = v.Type /\ w.Height = v.Height /\ w.Proposed = v.Proposed
    BY <2>2 DEF Digest
  <2>4. SentOnce(core[v.Address].sent) /\ w.Round \in 0..MaxRound
    BY <2>1 DEF NetInv, CoreOK, Hist
  <2>5. VoteAt(core[v.Address], v.Type, w.Round) = v.Proposed
    BY <2>3, <2>4, VoteAtOne
  <2>6. w.Round \in V!Counted(r)
    BY <2>2, <2>4 DEF V!Counted
  <2> QED
    BY <2>1, <2>4, <2>5, <2>6, HonestCores DEF V!Prevoters, V!Precommitters
<1> QED
  BY <1>1, <1>2

\* The voters of Voting are validators.
LEMMA VotersAre ==
  \A r, d : /\ V!Prevoters(r, d) \in SUBSET Members
            /\ V!Precommitters(r, d) \in SUBSET Members
BY HonestCores DEF V!Prevoters, V!Precommitters

\* What a core has committed at TheHeight is chosen.
LEMMA CommittedIsChosen ==
  ASSUME Assumptions, NetInv, NEW n \in Cores, NEW rec \in core[n].commits,
         CommitHeight(rec) = TheHeight
  PROVE  \E r \in 0..MaxRound : V!Chosen(r, rec.ProposedData)
<1> DEFINE voters == {v.Address : v \in rec.Precommits} \cap Members
           first  == CHOOSE v \in rec.Precommits : TRUE
           r      == IF rerounded THEN 0 ELSE first.Round
<1>1. /\ CommitIsValid(rec) /\ rec.Precommits \subseteq Genuine
      /\ \A v \in rec.Precommits : v.sigOK
      /\ DecidedBy(TheHeight, {v.Address : v \in rec.Precommits})
  BY CommitsGenuine DEF NetInv, CoreOK, Inv, CommitsOK, CommitOK
<1>2. first \in rec.Precommits /\ first.Height = TheHeight
  <2>1. rec.Precommits \ {None} = rec.Precommits
    BY <1>1, ValueAssumption DEF Genuine
  <2> QED
    BY <1>1, <2>1 DEF CommitIsValid, CommitHeight
<1>3. \A v \in rec.Precommits : /\ v.Type = PrecommitType /\ v.Height = TheHeight
                                /\ v.Round = r \/ rerounded
                                /\ v.Proposed = rec.ProposedData
  <2>1. None \notin rec.Precommits
    BY <1>1, ValueAssumption DEF Genuine
  <2> QED
    BY <1>1, <1>2, <2>1 DEF CommitIsValid
<1>4. CommitteeAt(TheHeight) = Members /\ Members \in SUBSET Validators
  BY HonestCores DEF Members
<1>5. 3 * PowerOf[voters] > 2 * PowerOf[Members]
  BY <1>1, <1>4 DEF DecidedBy
<1>6. r \in 0..MaxRound
  <2>0. CASE rerounded
    BY <2>0, NetworkAssumption
  <2>1. PICK a \in voters : a \in Cores
    <3>1. ASSUME voters \subseteq FaultyMembers PROVE FALSE
      BY <1>5, <3>1, HonestCores, PowerMonotone, PowerNat, NetworkAssumption
    <3> QED
      BY <3>1 DEF FaultyMembers
  <2>2. PICK v \in rec.Precommits : v.Address = a
    OBVIOUS
  <2>3. CASE ~rerounded
    <3>1. PICK w \in core[a].sent : w.Round = v.Round
      BY <1>1, <2>1, <2>2, <2>3 DEF Genuine, Signable
    <3> QED
      BY <1>3, <2>1, <2>3, <3>1 DEF NetInv, CoreOK
  <2> QED
    BY <2>0, <2>3
<1>7. voters \subseteq V!Precommitters(r, rec.ProposedData)
  <2>1. ASSUME NEW v \in rec.Precommits, v.Address \in Members
        PROVE  v.Address \in V!Precommitters(r, rec.ProposedData)
    BY <1>1, <1>3, <1>6, <2>1, GenuineCounts
  <2> QED
    BY <2>1
<1> DEFINE T == V!Precommitters(r, rec.ProposedData)
<1>8. T \in SUBSET Members
  BY VotersAre
<1> HIDE DEF r, voters, T
<1>9. voters \in SUBSET Validators /\ T \in SUBSET Validators /\ voters \subseteq T
  BY <1>4, <1>7, <1>8 DEF voters, T
<1>10. 3 * PowerOf[T] > 2 * PowerOf[Members] /\ PowerOf[T] \in Nat
  BY <1>4, <1>5, <1>9, PowerMonotone, PowerNat
<1>11. PowerOf[T] >= Quorum(Members)
  BY <1>4, <1>10, QuorumIsExact DEF Assumptions
<1>12. MemberPower[T] >= V!Quorum(Members)
  BY <1>8, <1>11, HonestCores
<1> QED
  BY <1>6, <1>12 DEF V!Chosen, T

\* What a core commits is chosen: +2/3 of the power has precommitted it, the cores
\* among them by votes they signed, all for one round as long as no votes are shown
\* in other rounds (enterCommit).
THEOREM CommitsChosen ==
  ASSUME Assumptions
  PROVE  Spec => []CommitsAreChosen
<1>1. NetInv => CommitsAreChosen
  BY CommittedIsChosen DEF CommitsAreChosen
<1> QED
  BY <1>1, NetInvariant, PTL

-----------------------------------------------------------------------------
(***************************************************************************)
(* A step of the cores is a step of Voting, or changes nothing it sees.    *)
(***************************************************************************)

\* The votes of c at TheHeight.
SentAt(c) == {v \in c.sent : v.Height = TheHeight}

\* Cores with the same votes look the same to Voting.
LEMMA SameVotes ==
  ASSUME NEW c, NEW d, SentAt(c) = SentAt(d), NEW type, NEW r
  PROVE  VoteAt(c, type, r) = VoteAt(d, type, r)
<1>1. VotesAt(c, type, r) = VotesAt(d, type, r)
  BY DEF SentAt, VotesAt
<1> QED
  BY <1>1 DEF VoteAt

\* d is what p, a core at TheHeight, makes of its turn, and c is what p was: the
\* rest of what the core did was at other heights.
ActsAt(c, d, p, q) ==
  /\ p.Height = TheHeight
  /\ SentAt(p) = SentAt(c) /\ SentAt(d) = SentAt(q)
  /\ RoundAt(c) = p.Round /\ q.Round <= RoundAt(d) /\ RoundAt(d) \in 0..MaxRound
  /\ TotalsFit(c.Votes) /\ Safe(c, c.Round) /\ LockHist(c, c.Round)
       => LockHist(q, q.Round)

\* Where the core of node n acts at TheHeight, if it does.
LEMMA WhereItActs ==
  ASSUME NEW c, NEW d, NEW n, NEW K, NEW R \in 0..MaxRound,
         CoreOK(c, n, K), Turns(c, d, R, K)
  PROVE  \/ SentAt(d) = SentAt(c) /\ RoundAt(d) = RoundAt(c)
         \/ \E p, q : \E S \in 0..MaxRound :
              /\ CoreOK(p, n, K) /\ CoreOK(q, n, K) /\ Turn(p, q, S, K)
              /\ ActsAt(c, d, p, q)
<1>1. MaxRound \in Nat /\ TheHeight \in Nat /\ 0 \in 0..MaxRound
  BY NetworkAssumption
<1>2. ASSUME NEW e, CoreOK(e, n, K)
      PROVE  /\ e.Height \in Nat /\ e.Round \in 0..MaxRound
             /\ \A v \in e.sent : v.Height <= e.Height
  <2>1. IsCore(e) /\ SentBefore(e.sent, Pos(e)) /\ e.Round <= MaxRound
    BY <1>2 DEF CoreOK, Inv, Hist
  <2>2. e.Height \in Nat /\ e.Round \in Nat /\ e.sent \subseteq Vote
    BY <2>1, CoreType
  <2> QED
    BY <1>1, <2>1, <2>2 DEF SentBefore, Pos, Vote
<1>3. ASSUME NEW u, NEW w, NEW S, Turn(u, w, S, K), u.Height # TheHeight
      PROVE  SentAt(w) = SentAt(u) /\ w.Height = u.Height
  BY <1>3 DEF Turn, Signed, SentAt
<1>4. CoreOK(d, n, K)
  BY TurnsOK
<1>5. CASE Turn(c, d, R, K)
  <2>1. CASE c.Height = TheHeight
    <3>1. /\ d.Height = c.Height /\ RoundAt(c) = c.Round /\ RoundAt(d) = d.Round
      BY <1>1, <1>5, <2>1 DEF Turn, Signed, RoundAt
    <3>2. ActsAt(c, d, c, d)
      BY <1>2, <1>4, <1>5, <2>1, <3>1 DEF ActsAt, Turn, Guarded, CoreOK
    <3> QED
      BY <1>4, <1>5, <3>2
  <2>2. CASE c.Height # TheHeight
    <3>1. SentAt(d) = SentAt(c) /\ d.Height = c.Height
      BY <1>3, <1>5, <2>2
    <3> QED
      BY <1>1, <1>2, <2>2, <3>1 DEF RoundAt
  <2> QED
    BY <2>1, <2>2
<1>6. CASE \E x, y : /\ Turn(c, x, R, K) /\ Decides(x, y, K)
                     /\ Turn(y, d, 0, K) /\ Keeps(y, d, K)
  <2>1. PICK x, y : /\ Turn(c, x, R, K) /\ Decides(x, y, K)
                    /\ Turn(y, d, 0, K) /\ Keeps(y, d, K)
    BY <1>6
  <2>2. CoreOK(x, n, K) /\ CoreOK(y, n, K)
    BY <2>1, TurnOK, DecidesOK
  <2>3. /\ x.Height = c.Height /\ y.Height = c.Height + 1 /\ d.Height = c.Height + 1
        /\ y.Round = 0 /\ d.Round = 0 /\ SentAt(y) = SentAt(x) /\ c.Height \in Nat
    BY <1>2, <2>1 DEF Turn, Signed, Decides, SentAt
  <2>4. TotalsFit(c.Votes) /\ Safe(c, c.Round) /\ LockHist(c, c.Round)
          => LockHist(x, x.Round) /\ LockHist(d, d.Round)
    <3> SUFFICES ASSUME TotalsFit(c.Votes), Safe(c, c.Round), LockHist(c, c.Round)
                 PROVE  LockHist(x, x.Round) /\ LockHist(d, d.Round)
      OBVIOUS
    <3>1. Hist(x) /\ Safe(x, x.Round) /\ LockHist(x, x.Round)
      BY <2>1 DEF Turn, Basics, Guarded, CoreOK
    <3>2. Hist(y) /\ Safe(y, y.Round) /\ LockHist(y, y.Round)
      BY <2>1, <3>1 DEF Decides, Keeps, KeepsFrom
    <3> QED
      BY <2>1, <3>1, <3>2 DEF Keeps, KeepsFrom
  <2>5. CASE c.Height = TheHeight
    <3>1. SentAt(d) = SentAt(x)
      BY <1>1, <1>3, <2>1, <2>3, <2>5
    <3>2. RoundAt(c) = c.Round /\ RoundAt(d) = MaxRound
      BY <1>1, <2>3, <2>5 DEF RoundAt
    <3>3. ActsAt(c, d, c, x)
      BY <1>1, <1>2, <2>2, <2>4, <2>5, <3>1, <3>2 DEF ActsAt
    <3> QED
      BY <2>1, <2>2, <3>3
  <2>6. CASE c.Height + 1 = TheHeight
    <3>1. SentAt(y) = SentAt(c)
      BY <1>1, <1>3, <2>1, <2>3, <2>6
    <3>2. RoundAt(c) = 0 /\ RoundAt(d) = 0
      BY <1>1, <2>3, <2>6 DEF RoundAt
    <3>3. ActsAt(c, d, y, d)
      BY <1>1, <2>3, <2>4, <2>6, <3>1, <3>2 DEF ActsAt
    <3> QED
      BY <1>1, <1>4, <2>1, <2>2, <3>3
  <2>7. CASE c.Height # TheHeight /\ c.Height + 1 # TheHeight
    <3>1. SentAt(d) = SentAt(c)
      BY <1>3, <2>1, <2>3, <2>7
    <3> QED
      BY <1>1, <2>3, <2>7, <3>1 DEF RoundAt
  <2> QED
    BY <2>5, <2>6, <2>7
<1> QED
  BY <1>5, <1>6 DEF Turns

\* A polka that a core at TheHeight has seen is one of Voting, before the turn.
LEMMA PolkaShown ==
  ASSUME Assumptions, NetInv, NEW n \in Cores, NEW sent, NEW votes,
         VotesKnown(votes, Genuine \cup sent),
         \A v \in sent : v.Height = TheHeight => v \in core[n].sent,
         VotesOK(votes, Members), votes.height = TheHeight,
         NEW r \in 0..MaxRound, NEW d \in Data, PolkaIn(votes, Members, r, d)
  PROVE  V!Polka(r, d)
<1> DEFINE vs == Prevotes(votes, r)
           S  == vs.votes[d]
           T  == V!Prevoters(r, d)
<1>1. /\ SetOK(vs, TheHeight, r, PrevoteType, votes.base, Members)
      /\ d \in DataOrNil /\ r \in Nat /\ PrevoteType \in VoteTypes
  BY HonestCores, LookUp DEF Prevotes, Assumptions, VoteTypes, DataOrNil
<1>2. S \in SUBSET Members /\ PowerOf[S] >= Quorum(Members)
  BY <1>1 DEF SetOK, PolkaIn
<1>3. ASSUME NEW a \in S PROVE a \in T
  <2> DEFINE v == NewVote(PrevoteType, TheHeight, r, d, votes.base, a)
  <2>1. v \in VotesFor(getVoteSet(votes, r, PrevoteType), d)
    BY <1>1 DEF VotesFor, Prevotes, SetOK
  <2>2. v \in Genuine \cup sent
    BY <1>1, <2>1 DEF VotesKnown
  <2>3. /\ v.Type = PrevoteType /\ v.Height = TheHeight /\ v.Round = r
        /\ v.Proposed = d /\ v.Address = a /\ v.sigOK
    BY DEF NewVote
  <2> HIDE DEF v
  <2>4. v \in Genuine
    BY <2>2, <2>3, SentGenuine
  <2>5. v.Address \in V!Prevoters(r, v.Proposed)
    BY <1>2, <2>3, <2>4, GenuineCounts
  <2> QED
    BY <2>3, <2>5
<1>4. T \in SUBSET Members
  BY VotersAre
<1> HIDE DEF S, T
<1>5. S \in SUBSET Validators /\ T \in SUBSET Validators /\ S \subseteq T
  BY <1>2, <1>3, <1>4, HonestCores
<1>6. PowerOf[T] >= Quorum(Members)
  <2>1. Quorum(Members) \in Nat
    BY HonestCores, QuorumIsExact DEF Assumptions
  <2> QED
    BY <1>2, <1>5, <2>1, PowerMonotone, PowerNat
<1>7. MemberPower[T] >= V!Quorum(Members)
  BY <1>4, <1>6, HonestCores
<1> QED
  BY <1>7 DEF V!Polka, T

\* What a turn adds to the votes of one type: nothing, or one vote in the round
\* that the core is in after the turn.
LEMMA BallotCast ==
  ASSUME NEW p, NEW q, NEW n, NEW K, NEW R \in 0..MaxRound, CoreOK(p, n, K),
         CoreOK(q, n, K), Turn(p, q, R, K), p.Height = TheHeight, NEW type
  PROVE  \/ \A r : VoteAt(q, type, r) = VoteAt(p, type, r)
         \/ \E w \in q.sent :
              /\ w.Type = type /\ w.Height = TheHeight /\ w.Round = q.Round
              /\ VoteAt(p, type, q.Round) = None
              /\ VoteAt(q, type, q.Round) = w.Proposed
              /\ \A r : r # q.Round => VoteAt(q, type, r) = VoteAt(p, type, r)
<1>1. /\ IsCore(p) /\ IsCore(q) /\ SentOnce(q.sent) /\ SentBefore(q.sent, Pos(q))
      /\ Signed(p, q, R) /\ p.Round <= R
  BY DEF CoreOK, Inv, Hist, Turn
<1>2. p.Round \in Nat /\ q.Round \in Nat /\ R \in Nat /\ q.Height = TheHeight
      /\ TheHeight \in Nat /\ p.sent \subseteq q.sent
  BY <1>1, Numbers, NetworkAssumption DEF Signed
<1>3. ASSUME NEW w \in q.sent \ p.sent PROVE w.Height = TheHeight /\ w.Round = q.Round
  BY <1>1, <1>2 DEF Signed, SentBefore, Pos
<1>4. ASSUME NEW r, VotesAt(q, type, r) = VotesAt(p, type, r)
      PROVE  VoteAt(q, type, r) = VoteAt(p, type, r)
  BY <1>4 DEF VoteAt
<1>5. ASSUME NEW r, r # q.Round PROVE VotesAt(q, type, r) = VotesAt(p, type, r)
  BY <1>2, <1>3, <1>5 DEF VotesAt
<1>6. CASE VotesAt(q, type, q.Round) = VotesAt(p, type, q.Round)
  BY <1>4, <1>5, <1>6
<1>7. CASE VotesAt(q, type, q.Round) # VotesAt(p, type, q.Round)
  <2>1. PICK w \in VotesAt(q, type, q.Round) : w \notin VotesAt(p, type, q.Round)
    BY <1>2, <1>7 DEF VotesAt
  <2>2. /\ w \in q.sent /\ w \notin p.sent
        /\ w.Type = type /\ w.Height = TheHeight /\ w.Round = q.Round
    BY <2>1 DEF VotesAt
  <2>3. VotesAt(p, type, q.Round) = {}
    BY <1>1, <1>2, <2>2 DEF VotesAt, SentOnce
  <2>4. VoteAt(p, type, q.Round) = None /\ VoteAt(q, type, q.Round) = w.Proposed
    BY <1>1, <2>2, <2>3, VoteAtNone, VoteAtOne
  <2> QED
    BY <1>4, <1>5, <2>2, <2>4
<1> QED
  BY <1>6, <1>7

\* A vote that Voting sees is one the core has signed.
LEMMA VoteSeen ==
  ASSUME NEW c, SentOnce(c.sent), NEW type, NEW r, VoteAt(c, type, r) # None
  PROVE  \E v \in c.sent : /\ v.Type = type /\ v.Height = TheHeight /\ v.Round = r
                           /\ v.Proposed = VoteAt(c, type, r)
<1>1. PICK v \in VotesAt(c, type, r) : TRUE
  BY VoteAtNone
<1> QED
  BY <1>1, VoteAtOne DEF VotesAt

\* The votes of one type that Voting sees of the cores cs.
Seen(cs, type) ==
  [m \in Members \cap Cores |-> [r \in 0..MaxRound |-> VoteAt(cs[m], type, r)]]

\* One vote more in what Voting sees.
LEMMA OneCast ==
  ASSUME NEW n \in Members \cap Cores, \A m \in Cores \ {n} : core'[m] = core[m],
         NEW type, NEW r0 \in 0..MaxRound, NEW b, VoteAt(core'[n], type, r0) = b,
         \A r : r # r0 => VoteAt(core'[n], type, r) = VoteAt(core[n], type, r)
  PROVE  Seen(core', type) = [Seen(core, type) EXCEPT ![n][r0] = b]
<1> DEFINE H == Members \cap Cores
           f == [m \in H |-> [r \in 0..MaxRound |-> VoteAt(core[m], type, r)]]
           g == [m \in H |-> [r \in 0..MaxRound |-> VoteAt(core'[m], type, r)]]
<1>1. H = Members \cap Cores
  BY HonestCores
<1>2. g[n] = [f[n] EXCEPT ![r0] = b]
  BY <1>1
<1>3. ASSUME NEW m \in H, m # n PROVE g[m] = f[m]
  BY <1>1, <1>3
<1>4. g = [f EXCEPT ![n] = [f[n] EXCEPT ![r0] = b]]
  BY <1>1, <1>2, <1>3
<1> QED
  BY <1>4 DEF Seen

\* No vote more.
LEMMA NoneCast ==
  ASSUME NEW n \in Members \cap Cores, \A m \in Cores \ {n} : core'[m] = core[m],
         NEW type, \A r : VoteAt(core'[n], type, r) = VoteAt(core[n], type, r)
  PROVE  Seen(core', type) = Seen(core, type)
<1>1. ASSUME NEW m \in Members \cap Cores, NEW r
      PROVE  VoteAt(core'[m], type, r) = VoteAt(core[m], type, r)
  BY HonestCores
<1> QED
  BY <1>1 DEF Seen

\* A core that moves in what Voting sees.
LEMMA OneMoves ==
  ASSUME NEW n \in Members \cap Cores, \A m \in Cores \ {n} : core'[m] = core[m]
  PROVE  [m \in Members \cap Cores |-> RoundAt(core'[m])]
           = [[m \in Members \cap Cores |-> RoundAt(core[m])] EXCEPT ![n] = RoundAt(core'[n])]
BY HonestCores

\* What a core does at TheHeight is a step of Voting.
LEMMA TurnIsStep ==
  ASSUME Assumptions, NetInv, GuardInv, SumsFit,
         NEW n \in Members \cap Cores, NEW d, NEW R \in 0..MaxRound, Acts(n, d, R),
         NEW p, NEW q, NEW S \in 0..MaxRound, Turn(p, q, S, Genuine),
         CoreOK(p, n, Genuine), CoreOK(q, n, Genuine), ActsAt(core[n], d, p, q)
  PROVE  q.Round \in 0..MaxRound /\ V!Step(n, q.Round)
<1>1. /\ core'[n] = d /\ \A m \in Cores \ {n} : core'[m] = core[m]
      /\ MaxRound \in Nat /\ n \in V!Honest /\ n \in Cores
      /\ V!Ballot = DataOrNil \cup {None} /\ None \notin DataOrNil
      /\ Nil \notin Data /\ Nil \in DataOrNil
  BY Acted, HonestCores, NetworkAssumption, ValueAssumption
    DEF V!Ballot, V!DataOrNil, DataOrNil
<1>2. /\ \A type, r : VoteAt(core[n], type, r) = VoteAt(p, type, r)
      /\ \A type, r : VoteAt(core'[n], type, r) = VoteAt(q, type, r)
  BY <1>1, SameVotes DEF ActsAt
<1>3. /\ p.Height = TheHeight /\ q.Height = TheHeight /\ LockHist(q, q.Round)
      /\ RoundAt(core[n]) = p.Round /\ q.Round <= RoundAt(d)
      /\ RoundAt(d) \in 0..MaxRound /\ SentAt(p) = SentAt(core[n])
  <2>1. TotalsFit(core[n].Votes) /\ Safe(core[n], core[n].Round)
        /\ LockHist(core[n], core[n].Round)
    BY <1>1 DEF SumsFit, GuardInv, Guards, Safe, Acts
  <2> QED
    BY <2>1 DEF ActsAt, Turn, Signed
<1>4. /\ IsCore(p) /\ IsCore(q) /\ SentOnce(p.sent) /\ SentOnce(q.sent)
      /\ p.sent \subseteq q.sent /\ q.Round \in {p.Round, S} /\ p.Round <= S
      /\ q.Round <= MaxRound
  BY DEF CoreOK, Inv, Hist, Turn, Signed
<1>5. /\ p.Round \in Nat /\ q.Round \in 0..MaxRound /\ p.Round <= q.Round
      /\ q.sent \subseteq Vote
  BY <1>1, <1>4, CoreType
<1>6. /\ committee(q) = Members /\ q.Votes.height = TheHeight
      /\ VotesOK(q.Votes, Members)
  <2>1. q.app.LastHeight + 1 = TheHeight /\ q.Votes.height = TheHeight
        /\ VotesOK(q.Votes, committee(q))
    BY <1>3 DEF CoreOK, Inv, AtHeight
  <2>2. CommitteeAt(TheHeight) = Members
    BY DEF Members
  <2> QED
    BY <2>1, <2>2 DEF committee
<1>7. ASSUME NEW r \in 0..MaxRound, NEW e \in Data, PolkaIn(q.Votes, Members, r, e)
      PROVE  V!Polka(r, e)
  <2>1. VotesKnown(q.Votes, Genuine \cup p.sent)
    BY DEF Turn
  <2>2. \A v \in p.sent : v.Height = TheHeight => v \in core[n].sent
    BY <1>3 DEF SentAt
  <2> QED
    BY <1>1, <1>6, <1>7, <2>1, <2>2, PolkaShown
<1>8. \E next \in 0..MaxRound : V!Moves(n, q.Round, next)
  <2>1. V!Moves(n, q.Round, RoundAt(d))
    BY <1>1, <1>3, <1>5, OneMoves, HonestCores DEF V!Moves
  <2> QED
    BY <1>3, <2>1
<1>9. \E b \in V!Ballot : V!Prevotes(n, q.Round, b)
  <2>1. CASE \A r : VoteAt(q, PrevoteType, r) = VoteAt(p, PrevoteType, r)
    <3>1. V!Prevotes(n, q.Round, None)
      BY <1>1, <1>2, <2>1, NoneCast DEF V!Prevotes, V!Cast, Seen
    <3> QED
      BY <1>1, <3>1
  <2>2. ASSUME NEW w \in q.sent,
               /\ w.Type = PrevoteType /\ w.Height = TheHeight /\ w.Round = q.Round
               /\ VoteAt(p, PrevoteType, q.Round) = None
               /\ VoteAt(q, PrevoteType, q.Round) = w.Proposed
               /\ \A r : r # q.Round
                           => VoteAt(q, PrevoteType, r) = VoteAt(p, PrevoteType, r)
        PROVE  \E b \in V!Ballot : V!Prevotes(n, q.Round, b)
    <3> DEFINE b == w.Proposed
    <3>1. b \in DataOrNil
      BY <1>5 DEF Vote
    <3>2. ASSUME NEW r \in 0..MaxRound, r < q.Round,
                 VoteAt(core[n], PrecommitType, r) \in Data \ {b}
          PROVE  \E r1 \in 0..MaxRound,
                    e \in Data \ {VoteAt(core[n], PrecommitType, r)} :
                   r < r1 /\ r1 <= q.Round /\ V!Polka(r1, e)
      <4>1. PICK v \in p.sent : /\ v.Type = PrecommitType /\ v.Height = TheHeight
                                /\ v.Round = r
                                /\ v.Proposed = VoteAt(core[n], PrecommitType, r)
        BY <1>1, <1>2, <1>4, <3>2, VoteSeen DEF DataOrNil
      <4>2. LockObeyed(q.sent, TheHeight, q.Votes, Members)
        BY <1>3, <1>6 DEF LockHist
      <4>3. Released(v, q.Votes, Members, w.Round)
        <5>1. v \in q.sent /\ v.Proposed # Nil /\ w.Proposed # v.Proposed
          BY <1>1, <1>4, <3>2, <4>1
        <5>2. v.Round < w.Round
          BY <2>2, <3>2, <4>1
        <5> QED
          BY <2>2, <4>1, <4>2, <5>1, <5>2 DEF LockObeyed
      <4>4. PICK r1 \in (r + 1)..q.Round, e \in Data \ {v.Proposed} :
              PolkaIn(q.Votes, Members, r1, e)
        BY <2>2, <4>1, <4>3 DEF Released
      <4>5. r1 \in 0..MaxRound /\ r < r1 /\ r1 <= q.Round
        BY <1>1, <1>5
      <4> QED
        BY <1>7, <4>1, <4>4, <4>5
    <3>3. V!MayPrevote(n, q.Round, b)
      BY <1>1, <1>2, <1>5, <2>2, <3>2, HonestCores DEF V!MayPrevote
    <3>4. Seen(core', PrevoteType) = [Seen(core, PrevoteType) EXCEPT ![n][q.Round] = b]
      <4>1. VoteAt(core'[n], PrevoteType, q.Round) = b
        BY <1>2, <2>2
      <4>2. \A r : r # q.Round => VoteAt(core'[n], PrevoteType, r)
                                   = VoteAt(core[n], PrevoteType, r)
        BY <1>2, <2>2
      <4> QED
        BY <1>1, <1>5, <4>1, <4>2, OneCast
    <3>5. b # None
      BY <1>1, <3>1
    <3> HIDE DEF b
    <3>6. V!Prevotes(n, q.Round, b)
      BY <3>3, <3>4, <3>5 DEF V!Prevotes, V!Cast, Seen
    <3> QED
      BY <1>1, <3>1, <3>6
  <2> QED
    BY <1>3, <2>1, <2>2, BallotCast
<1>10. \E b \in V!Ballot : V!Precommits(n, q.Round, b)
  <2>1. CASE \A r : VoteAt(q, PrecommitType, r) = VoteAt(p, PrecommitType, r)
    <3>1. V!Precommits(n, q.Round, None)
      BY <1>1, <1>2, <2>1, NoneCast DEF V!Precommits, V!Cast, Seen
    <3> QED
      BY <1>1, <3>1
  <2>2. ASSUME NEW w \in q.sent,
               /\ w.Type = PrecommitType /\ w.Height = TheHeight /\ w.Round = q.Round
               /\ VoteAt(p, PrecommitType, q.Round) = None
               /\ VoteAt(q, PrecommitType, q.Round) = w.Proposed
               /\ \A r : r # q.Round
                           => VoteAt(q, PrecommitType, r) = VoteAt(p, PrecommitType, r)
        PROVE  \E b \in V!Ballot : V!Precommits(n, q.Round, b)
    <3> DEFINE b == w.Proposed
    <3>1. b \in DataOrNil
      BY <1>5 DEF Vote
    <3>2. ASSUME b # Nil PROVE V!Polka(q.Round, b)
      <4>1. SentJustified(q.sent, TheHeight, q.Votes, Members)
        BY <1>3, <1>6 DEF CoreOK, Hist
      <4>2. PolkaIn(q.Votes, Members, q.Round, b) /\ b \in Data
        BY <2>2, <3>1, <3>2, <4>1 DEF SentJustified, DataOrNil
      <4> QED
        BY <1>5, <1>7, <4>2
    <3>3. V!MayPrecommit(n, q.Round, b)
      BY <1>1, <1>2, <1>5, <2>2, <3>2, HonestCores DEF V!MayPrecommit
    <3>4. Seen(core', PrecommitType) = [Seen(core, PrecommitType) EXCEPT ![n][q.Round] = b]
      <4>1. VoteAt(core'[n], PrecommitType, q.Round) = b
        BY <1>2, <2>2
      <4>2. \A r : r # q.Round => VoteAt(core'[n], PrecommitType, r)
                                   = VoteAt(core[n], PrecommitType, r)
        BY <1>2, <2>2
      <4> QED
        BY <1>1, <1>5, <4>1, <4>2, OneCast
    <3>5. b # None
      BY <1>1, <3>1
    <3> HIDE DEF b
    <3>6. V!Precommits(n, q.Round, b)
      BY <3>3, <3>4, <3>5 DEF V!Precommits, V!Cast, Seen
    <3> QED
      BY <1>1, <3>1, <3>6
  <2> QED
    BY <1>3, <2>1, <2>2, BallotCast
<1> QED
  BY <1>5, <1>8, <1>9, <1>10 DEF V!Step, Acts

\* What every step of the cores is to Voting.
LEMMA StepImplements ==
  ASSUME Assumptions, NetInv, GuardInv, SumsFit, [Next]_vars
  PROVE  [V!Next]_(V!vars)
<1>1. CASE UNCHANGED vars
  BY <1>1 DEF vars, V!vars
<1>2. ASSUME NEW n \in Cores, NEW rest, Dies(n, rest)
      PROVE  UNCHANGED V!vars
  <2>1. ASSUME NEW m \in Cores
        PROVE  /\ RoundAt(core'[m]) = RoundAt(core[m])
               /\ \A type, r : VoteAt(core'[m], type, r) = VoteAt(core[m], type, r)
    BY <1>2, Died, SameVotes DEF SentAt, RoundAt
  <2> QED
    BY <1>2, <2>1, HonestCores DEF V!vars, Dies
<1>3. CASE Reround
  BY <1>3 DEF Reround, V!Next, V!Reround
<1>4. CASE \E n \in Cores : \E d : \E R \in 0..MaxRound : Acts(n, d, R)
  <2>1. PICK n \in Cores : \E d : \E R \in 0..MaxRound : Acts(n, d, R)
    BY <1>4
  <2>2. PICK d : \E R \in 0..MaxRound : Acts(n, d, R)
    BY <2>1
  <2>3. PICK R \in 0..MaxRound : Acts(n, d, R)
    BY <2>2
  <2>4. CoreOK(core[n], n, Genuine) /\ Turns(core[n], d, R, Genuine)
    BY <2>3 DEF NetInv, Acts
  <2>5. core'[n] = d /\ \A m \in Cores \ {n} : core'[m] = core[m]
    BY <2>3, Acted
  <2>6. CASE n \notin Members \/ (SentAt(d) = SentAt(core[n])
                                     /\ RoundAt(d) = RoundAt(core[n]))
    <3>1. ASSUME NEW m \in Members \cap Cores
          PROVE  /\ RoundAt(core'[m]) = RoundAt(core[m])
                 /\ \A type, r : VoteAt(core'[m], type, r) = VoteAt(core[m], type, r)
      BY <2>5, <2>6, HonestCores, SameVotes
    <3> QED
      BY <2>3, <3>1 DEF V!vars, Acts
  <2>7. ASSUME n \in Members, NEW p, NEW q, NEW S \in 0..MaxRound,
               CoreOK(p, n, Genuine), CoreOK(q, n, Genuine), Turn(p, q, S, Genuine),
               ActsAt(core[n], d, p, q)
        PROVE  V!Next
    <3>1. n \in Members \cap Cores
      BY <2>7
    <3>2. q.Round \in 0..MaxRound /\ V!Step(n, q.Round)
      BY <2>3, <2>7, <3>1, TurnIsStep
    <3> QED
      BY <3>1, <3>2, HonestCores DEF V!Next
  <2> QED
    BY <2>4, <2>6, <2>7, WhereItActs
<1> QED
  BY <1>1, <1>2, <1>3, <1>4, NextActs

\* Nobody has voted at first.
LEMMA InitImplements ==
  ASSUME Assumptions, Init
  PROVE  V!Init
<1>1. ASSUME NEW n \in Cores
      PROVE  /\ RoundAt(core[n]) = 0
             /\ \A type, r : VoteAt(core[n], type, r) = None
  <2>1. PICK app : Starts(n, app, core[n]) /\ app.LastHeight = 0
    BY InitStarts
  <2>2. core[n].Height = 1 /\ core[n].Round = 0 /\ core[n].sent = {}
    BY <2>1 DEF Starts, Fresh
  <2>3. TheHeight \in Nat /\ TheHeight >= 1
    BY NetworkAssumption
  <2>4. RoundAt(core[n]) = 0
    BY <2>2, <2>3 DEF RoundAt
  <2>5. \A type, r : VotesAt(core[n], type, r) = {}
    BY <2>2 DEF VotesAt
  <2> QED
    BY <2>4, <2>5, VoteAtNone
<1>2. rerounded = FALSE
  BY DEF Init
<1> QED
  BY <1>1, <1>2, HonestCores DEF V!Init

\* As long as no running total wraps around, the lock binds every core.
LEMMA GuardInvariant ==
  ASSUME Assumptions
  PROVE  Spec /\ []SumsFit => [](NetInv /\ GuardInv)
<1>1. ASSUME NetInv, GuardInv, SumsFit, [Next]_vars PROVE GuardInv'
  <2>1. CASE Next
    BY <1>1, <2>1, NextActs, GuardInvKept, Died, Rerounded
  <2>2. CASE UNCHANGED vars
    BY <1>1, <2>2 DEF vars, GuardInv
  <2> QED
    BY <1>1, <2>1, <2>2
<1> QED
  BY <1>1, NetInitOK, NetInvariant, PTL DEF Spec

\* The cores implement Voting: whatever the messages, timeouts and losses, and
\* whatever rounds their votes are shown in, the votes they sign at a height are
\* those of a behaviour of Voting (doPrevote, enterPrecommit and what leads to them).
THEOREM CoresImplementVoting ==
  ASSUME Assumptions
  PROVE  Spec /\ []SumsFit => ImplementsVoting
<1>1. Init => V!Init
  BY InitImplements
<1>2. NetInv /\ GuardInv /\ SumsFit /\ [Next]_vars => [V!Next]_(V!vars)
  BY StepImplements
<1> QED
  BY <1>1, <1>2, GuardInvariant, PTL DEF Spec, ImplementsVoting, V!Spec

-----------------------------------------------------------------------------
(***************************************************************************)
(* Agreement of the cores.                                                 *)
(***************************************************************************)

\* What is proved of Voting, of what Voting sees of the cores.
VP == INSTANCE VotingProofs WITH
  Validators   <- Members,
  PowerOf      <- MemberPower,
  Faulty       <- FaultyMembers,
  Rounds       <- 0..MaxRound,
  round        <- [n \in Members \cap Cores |-> RoundAt(core[n])],
  prevoted     <- [n \in Members \cap Cores |->
                     [r \in 0..MaxRound |-> VoteAt(core[n], PrevoteType, r)]],
  precommitted <- [n \in Members \cap Cores |->
                     [r \in 0..MaxRound |-> VoteAt(core[n], PrecommitType, r)]]

\* The two instances say the same.
LEMMA SameVoting ==
  /\ V!Init => VP!Init
  /\ V!Next => VP!Next
  /\ V!vars = VP!vars
  /\ \A r, d : V!Chosen(r, d) => VP!Chosen(r, d)
<1>1. V!Init => VP!Init
  BY DEF V!Init, VP!Init, V!Honest, VP!Honest
<1>2. V!Next => VP!Next
  BY DEF V!Next, VP!Next, V!Step, VP!Step, V!Moves, VP!Moves, V!Prevotes, VP!Prevotes,
    V!Precommits, VP!Precommits, V!Ballot, VP!Ballot, V!MayPrevote, VP!MayPrevote,
    V!MayPrecommit, VP!MayPrecommit, V!Reround, VP!Reround, V!Cast, VP!Cast, V!Polka, VP!Polka,
    V!Prevoters, VP!Prevoters, V!Counted, VP!Counted, V!Quorum, VP!Quorum, V!TwoThirds, VP!TwoThirds,
    V!int64, VP!int64, V!TotalVotingPower, VP!TotalVotingPower, V!Honest, VP!Honest,
    V!DataOrNil, VP!DataOrNil
<1>3. V!vars = VP!vars
  BY DEF V!vars, VP!vars
<1>4. \A r, d : V!Chosen(r, d) => VP!Chosen(r, d)
  BY DEF V!Chosen, VP!Chosen, V!Precommitters, VP!Precommitters, V!Counted, VP!Counted, V!Honest, VP!Honest,
    V!Quorum, VP!Quorum, V!TwoThirds, VP!TwoThirds, V!int64, VP!int64,
    V!TotalVotingPower, VP!TotalVotingPower
<1> QED
  BY <1>1, <1>2, <1>3, <1>4

\* The assumptions of Voting hold of the cores.
LEMMA VotingAssumptions ==
  VP!FaultAssumption /\ VP!PowerAssumption /\ VP!ValueAssumption
<1>0. /\ Members \in SUBSET Validators /\ FaultyMembers \in SUBSET Members
      /\ PowerOf[Members] \in Nat /\ PowerOf[Validators] \in Nat
      /\ PowerOf[Members] <= PowerOf[Validators]
  BY HonestCores, PowerMonotone, PowerNat
<1>1. VP!FaultAssumption
  <2>1. MemberPower[Members] = PowerOf[Members]
    BY <1>0, HonestCores
  <2>2. MemberPower[FaultyMembers] = PowerOf[FaultyMembers]
    BY <1>0, HonestCores
  <2>3. 2 * PowerOf[Members] <= MaxInt64
    BY <1>0, NetworkAssumption, PowerAssumption
  <2>4. 0..MaxRound \subseteq Nat
    BY NetworkAssumption
  <2> QED
    BY <1>0, <2>1, <2>2, <2>3, <2>4, NetworkAssumption DEF VP!FaultAssumption, VP!TotalVotingPower
<1>2. VP!PowerAssumption
  <2>1. MemberPower \in [SUBSET Members -> Nat]
    BY <1>0, PowerNat DEF MemberPower
  <2>2. ASSUME NEW S \in SUBSET Members, NEW T \in SUBSET Members, S \cap T = {}
        PROVE  MemberPower[S \cup T] = MemberPower[S] + MemberPower[T]
    <3>1. S \in SUBSET Validators /\ T \in SUBSET Validators /\ S \cup T \in SUBSET Members
      BY <1>0
    <3> QED
      BY <2>2, <3>1, PowerAssumption, HonestCores
  <2>3. MemberPower[Members] <= MaxInt64
    BY <1>0, HonestCores, PowerAssumption
  <2> QED
    BY <2>1, <2>2, <2>3, PowerAssumption DEF VP!PowerAssumption
<1>3. VP!ValueAssumption
  <2>1. VP!Vote = Vote
    BY DEF VP!Vote, Vote, VP!DataOrNil, DataOrNil, VP!PrevoteType, PrevoteType,
      VP!PrecommitType, PrecommitType, VP!ProposalType, ProposalType
  <2> QED
    BY <1>0, <2>1, ValueAssumption DEF DataOrNil, VP!DataOrNil, VP!ValueAssumption
<1> QED
  BY <1>1, <1>2, <1>3

\* Two cores never commit different data at a height (enterCommit), whatever the
\* network does with their messages and whatever the faulty validators send, as
\* long as these have less than a third of the power and nobody shows a vote in
\* another round than the one it was signed for, which Vote.Digest leaves out.
THEOREM CoresAlwaysAgree ==
  ASSUME Assumptions
  PROVE  Spec /\ []SumsFit => []CoresAgree
<1>1. VP!Spec => []VP!Agreement
  BY VotingAssumptions, VP!AgreementHolds
<1>2. V!Spec => VP!Spec
  <2>1. [V!Next]_(V!vars) => [VP!Next]_(VP!vars)
    BY SameVoting DEF V!vars, VP!vars
  <2>2. V!Init => VP!Init
    BY SameVoting
  <2> QED
    BY <2>1, <2>2, PTL DEF V!Spec, VP!Spec
<1>3. CommitsAreChosen /\ VP!Agreement /\ NetInv => CoresAgree
  <2> SUFFICES ASSUME CommitsAreChosen, VP!Agreement, NetInv, ~rerounded,
                      NEW m \in Cores, NEW n \in Cores,
                      NEW rec \in core[m].commits, NEW other \in core[n].commits,
                      CommitHeight(rec) = TheHeight, CommitHeight(other) = TheHeight
               PROVE  rec.ProposedData = other.ProposedData
    BY DEF CoresAgree
  <2>1. PICK r \in 0..MaxRound : VP!Chosen(r, rec.ProposedData)
    BY SameVoting DEF CommitsAreChosen
  <2>2. PICK s \in 0..MaxRound : VP!Chosen(s, other.ProposedData)
    BY SameVoting DEF CommitsAreChosen
  <2>3. rec.ProposedData \in Data /\ other.ProposedData \in Data
    <3>1. rec \in Commits /\ other \in Commits
      BY CoreType DEF NetInv, CoreOK, Inv
    <3> QED
      BY <3>1 DEF Commits
  <2> QED
    BY <2>1, <2>2, <2>3 DEF VP!Agreement
<1> QED
  BY <1>1, <1>2, <1>3, CommitsChosen, NetInvariant, CoresImplementVoting, PTL
    DEF ImplementsVoting
=============================================================================
