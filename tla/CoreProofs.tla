----------------------------- MODULE CoreProofs ------------------------------
(***************************************************************************)
(* What the functions of Core do to a core in order, for every committee,  *)
(* application and message.  Inv is the invariant of a core, Keeps says    *)
(* that a function leaves a core in order again and never takes it back,   *)
(* and there is one lemma for every function of bftcore.go, bottom up.     *)
(***************************************************************************)
EXTENDS Core, VoteSetProofs

\* Every height has a committee of validators.
CommitteesOK == \A h \in Nat : CommitteeAt(h) \subseteq Validators

\* The nil pointer points to no votes, and is no number.
NilPointsNowhere ==
  /\ None \notin VoteSets
  /\ ~IsHeightVoteSet(None)
  /\ None \notin Nat

Assumptions == NoOverflow /\ CommitteesOK /\ NilPointsNowhere

-----------------------------------------------------------------------------
(***************************************************************************)
(* The invariant, one definition per part.  The parts are stated of the    *)
(* fields they are about, so that a function that leaves these alone keeps *)
(* the part.                                                               *)
(***************************************************************************)

\* +2/3 prevotes of a round for one value.
PolkaIn(votes, members, r, d) ==
  d # Nil /\ PowerOf[Prevotes(votes, r).votes[d]] >= Quorum(members)

\* The core works on the height after the application's.
AtHeight(height, data, app, votes) ==
  /\ height = app.LastHeight + 1
  /\ data = app.LastProposedData
  /\ votes.height = height /\ votes.base = data

\* The rounds that are tracked, and the one that was set.
RoundsOK(votes, round, step) ==
  /\ \A r \in DOMAIN votes.roundVoteSets : r <= round + watermark \/ r <= round + 1
  /\ 0..votes.round \subseteq DOMAIN votes.roundVoteSets
  /\ votes.round = round + 1 \/ (votes.round = 0 /\ round = 0)
  /\ step = RoundStepNewHeight => votes.round = 0 /\ round = 0

\* The steps timeouts are scheduled for.
TimedSteps == {RoundStepNewHeight, RoundStepPropose, RoundStepPrevoteFetch,
               RoundStepPrevoteWait, RoundStepPrecommitFetch, RoundStepPrecommitWait}

\* The position of a core, as a timeout.
Pos(c) == [Height |-> c.Height, Round |-> c.Round, Step |-> c.Step]

Before(p, q) ==
  \/ p.Height < q.Height
  \/ /\ p.Height = q.Height
     /\ p.Round < q.Round \/ (p.Round = q.Round /\ p.Step < q.Step)

\* No timeout is for a later step than the core's.
TicksOK(ticker, pos) ==
  /\ Before(ticker.ti, pos) \/ ticker.ti = pos
  /\ ticker.armed => ticker.ti.Step \in TimedSteps
  /\ \A k \in ticker.tocks : (Before(k, pos) \/ k = pos) /\ k.Step \in TimedSteps

\* A core that runs is not in the middle of a commit.
NotCommitting(panicked, commitRound, step) ==
  ~panicked => commitRound = -1 /\ step # RoundStepCommit

\* The lock is the data of a polka that was precommitted.
LockOK(lockedRound, lockedData, height, round, votes, members, sent, self) ==
  /\ lockedRound = -1 <=> lockedData = None
  /\ lockedData # None =>
       /\ lockedRound <= round
       /\ PolkaIn(votes, members, lockedRound, lockedData)
       /\ self \in members =>
            \E v \in sent : /\ v.Type = PrecommitType /\ v.Height = height
                            /\ v.Round = lockedRound /\ v.Proposed = lockedData

\* The voters include +2/3 of the committee that decides a height.
DecidedBy(height, voters) ==
  3 * PowerOf[voters \cap CommitteeAt(height)] > 2 * PowerOf[CommitteeAt(height)]

\* The precommits of the previous height prove what was committed.
LastOK(lastCommit, height, data) ==
  lastCommit # None =>
    /\ lastCommit.height + 1 = height
    /\ lastCommit.maj23 = data /\ data # Nil
    /\ DecidedBy(lastCommit.height, lastCommit.votes[data])

\* The commits the application accepted, of heights up to its last one.
CommitOK(rec, app, known) ==
  /\ CommitIsValid(rec)
  /\ rec.Precommits \subseteq known /\ \A v \in rec.Precommits : v.sigOK
  /\ DecidedBy(CommitHeight(rec), {v.Address : v \in rec.Precommits})
  /\ CommitHeight(rec) \in Nat /\ CommitHeight(rec) <= app.LastHeight
  /\ CommitHeight(rec) = app.LastHeight => rec.ProposedData = app.LastProposedData

CommitsOK(commits, app, known) ==
  /\ \A rec \in commits : CommitOK(rec, app, known)
  /\ \A rec, other \in commits :
       /\ CommitHeight(rec) = CommitHeight(other) => rec = other
       /\ CommitHeight(other) = CommitHeight(rec) + 1
            => other.Prev = rec.ProposedData

\* All votes the core holds were received or signed.
VotesKnown(votes, known) ==
  \A r \in Nat : \A t \in VoteTypes : \A d \in DataOrNil :
    VotesFor(getVoteSet(votes, r, t), d) \subseteq known

QueueKnown(queue, sent) == \A i \in 1..Len(queue) : queue[i] \in sent

\* The invariant of a core that was sent the votes of K.
Inv(c, K) ==
  /\ IsCore(c)
  /\ AtHeight(c.Height, c.lastCommittedData, c.app, c.Votes)
  /\ VotesOK(c.Votes, committee(c))
  /\ RoundsOK(c.Votes, c.Round, c.Step)
  /\ TicksOK(c.ticker, Pos(c))
  /\ NotCommitting(c.panicked, c.CommitRound, c.Step)
  /\ LockOK(c.LockedRound, c.LockedProposal, c.Height, c.Round, c.Votes,
            committee(c), c.sent, c.self)
  /\ LastOK(c.LastCommit, c.Height, c.lastCommittedData)
  /\ CommitsOK(c.commits, c.app, K \cup c.sent)
  /\ VotesKnown(c.Votes, K \cup c.sent)
  /\ QueueKnown(c.msgQueue, c.sent)
  /\ c.todo \subseteq K \cup {None}

-----------------------------------------------------------------------------
(***************************************************************************)
(* What holds as long as the core is not restarted (its votes are lost     *)
(* then), or as long as no running total wraps around.                     *)
(***************************************************************************)

\* The step in which a vote is signed.
StepOf(type) == IF type = ProposalType THEN RoundStepPropose
                ELSE IF type = PrevoteType THEN RoundStepPrevote
                ELSE RoundStepPrecommit

\* Nothing was signed ahead of the core's position.
SentBefore(sent, pos) ==
  \A v \in sent :
    \/ v.Height < pos.Height
    \/ /\ v.Height = pos.Height
       /\ \/ v.Round < pos.Round
          \/ v.Round = pos.Round /\ StepOf(v.Type) <= pos.Step

\* No two votes of one type, height and round.
SentOnce(sent) ==
  \A v, w \in sent :
    v.Type = w.Type /\ v.Height = w.Height /\ v.Round = w.Round => v = w

\* Data is precommitted with a polka.
SentJustified(sent, height, votes, members) ==
  \A v \in sent :
    v.Type = PrecommitType /\ v.Height = height /\ v.Proposed # Nil
      => PolkaIn(votes, members, v.Round, v.Proposed)

Hist(c) ==
  /\ SentBefore(c.sent, Pos(c))
  /\ SentOnce(c.sent)
  /\ SentJustified(c.sent, c.Height, c.Votes, committee(c))

\* A polka for other data after the round of v, up to round R.
Released(v, votes, members, R) ==
  \E r \in (v.Round + 1)..R, d \in Data \ {v.Proposed} : PolkaIn(votes, members, r, d)

\* Who precommitted data is locked on it, or was released.
LockHeld(sent, height, lockedRound, lockedData, votes, members, R) ==
  \A v \in sent :
    v.Type = PrecommitType /\ v.Height = height /\ v.Proposed # Nil =>
      \/ lockedData = v.Proposed /\ lockedRound >= v.Round
      \/ Released(v, votes, members, R)

\* Who prevotes other data later was released in between.
LockObeyed(sent, height, votes, members) ==
  \A v, w \in sent :
    /\ v.Type = PrecommitType /\ v.Proposed # Nil
    /\ w.Type = PrevoteType /\ w.Proposed # v.Proposed
    /\ v.Height = height /\ w.Height = height
    /\ v.Round < w.Round
    => Released(v, votes, members, w.Round)

LockHist(c, R) ==
  /\ LockHeld(c.sent, c.Height, c.LockedRound, c.LockedProposal, c.Votes,
              committee(c), R)
  /\ LockObeyed(c.sent, c.Height, c.Votes, committee(c))

\* No polka is in a round after R.
NoPolkaAfter(votes, members, R) ==
  \A r \in Nat, d \in Data : PolkaIn(votes, members, r, d) => r <= R

\* Totals do not fall short, polkas are not ahead, and only a Commit that
\* failed makes the core panic.
Safe(c, R) ==
  /\ TotalsOK(c.Votes)
  /\ NoPolkaAfter(c.Votes, committee(c), R)
  /\ c.panicked => ~c.app.accepts

\* A core that has committed has the precommits.
HasLast(c) == c.Height > 1 => c.LastCommit # None

\* A timeout for the core's position is running or has fired.
Awake(c) == \/ c.ticker.armed /\ c.ticker.ti = Pos(c)
            \/ Pos(c) \in c.ticker.tocks

\* Position and lock only move forward.
Advances(c, d) ==
  \/ d.Height > c.Height
  \/ /\ d.Height = c.Height
     /\ d.Round > c.Round \/ (d.Round = c.Round /\ d.Step >= c.Step)
     /\ d.LockedRound \in {-1, c.LockedRound} \/ d.LockedRound >= c.Round

\* d is a core in order that a function may leave of c, when there are no
\* polkas of c after round R.
KeepsFrom(c, d, K, R) ==
  /\ Inv(d, K)
  /\ Advances(c, d)
  /\ d.self = c.self /\ (c.panicked => d.panicked)
  /\ HasLast(c) => HasLast(d)
  /\ Hist(c) => Hist(d)
  /\ Safe(c, R) => Safe(d, d.Round)
  /\ Hist(c) /\ Safe(c, R) /\ LockHist(c, R) => LockHist(d, d.Round)

Keeps(c, d, K) == KeepsFrom(c, d, K, c.Round)

\* d has a timeout to wait for, if c had one.
Wakes(c, d) == d.panicked \/ Awake(d) \/ (Pos(d) = Pos(c) /\ d.ticker = c.ticker)

-----------------------------------------------------------------------------
\* The committee of a core is a set of validators.
LEMMA CommitteeType ==
  ASSUME Assumptions, NEW c, IsCore(c)
  PROVE  committee(c) \in SUBSET Validators
<1>1. c.app.LastHeight \in Nat
  BY DEF IsCore
<1>2. c.app.LastHeight + 1 \in Nat
  BY <1>1
<1> QED
  BY <1>2 DEF Assumptions, CommitteesOK, committee

\* The types of the fields, one by one.
LEMMA CoreType ==
  ASSUME NEW c, IsCore(c)
  PROVE  /\ c.self \in Nodes /\ c.Height \in Nat /\ c.Round \in Nat
         /\ c.Step \in 1..10
         /\ c.Proposal \in Data \cup {None}
         /\ c.LockedRound \in Nat \cup {-1} /\ c.LockedProposal \in Data \cup {None}
         /\ c.CommitRound \in Nat \cup {-1}
         /\ c.LastCommit \in VoteSets \cup {None} /\ c.lastCommittedData \in DataOrNil
         /\ c.app \in [LastHeight : Nat, LastProposedData : DataOrNil, accepts : BOOLEAN]
         /\ c.msgQueue \in Seq(Vote) /\ c.todo \in SUBSET (Vote \cup {None})
         /\ c.ticker \in TimeoutTickers /\ c.sent \in SUBSET Vote
         /\ c.commits \in SUBSET Commits /\ c.announced \in SUBSET Commits
         /\ c.panicked \in BOOLEAN /\ c.hasRecvCommitRecords \in BOOLEAN
         /\ c.fvr \in FetchVotesReqs \cup {None}
BY DEF IsCore, RoundStepNewHeight, RoundStepCommit

\* The fields of a core.
LEMMA Fields ==
  ASSUME NEW c, IsCore(c)
  PROVE  DOMAIN c =
           {"self", "Height", "Round", "Step", "Proposal", "LockedRound",
            "LockedProposal", "Votes", "CommitRound", "LastCommit",
            "lastCommittedData", "hasRecvCommitRecords", "app", "msgQueue", "todo",
            "ticker", "sent", "fvr", "commits", "announced", "panicked"}
BY DEF IsCore

\* The numbers of a core, as integers.
LEMMA Numbers ==
  ASSUME NEW c, IsCore(c)
  PROVE  /\ c.Height \in Nat /\ c.Round \in Nat /\ c.Step \in 1..10 /\ c.Step \in Int
         /\ c.LockedRound \in Int /\ c.LockedRound >= -1
         /\ c.CommitRound \in Int
BY CoreType

\* What two calls in a row keep and what they may change: the handlers of the
\* source are chains of such calls.
LEMMA KeepsTrans ==
  ASSUME NEW K, NEW R, NEW c, NEW d, NEW e, IsCore(c),
         KeepsFrom(c, d, K, R), Keeps(d, e, K)
  PROVE  KeepsFrom(c, e, K, R)
<1>1. IsCore(d) /\ IsCore(e)
  BY DEF KeepsFrom, Keeps, Inv
<1>2. Advances(c, e)
  <2>1. Advances(c, d) /\ Advances(d, e)
    BY DEF Keeps, KeepsFrom
  <2>2. /\ c.Height \in Nat /\ d.Height \in Nat /\ e.Height \in Nat
        /\ c.Round \in Nat /\ d.Round \in Nat /\ e.Round \in Nat
        /\ c.Step \in Int /\ d.Step \in Int /\ e.Step \in Int
        /\ c.LockedRound \in Int /\ d.LockedRound \in Int /\ e.LockedRound \in Int
    BY <1>1, Numbers
  <2> QED
    BY <2>1, <2>2 DEF Advances
<1> QED
  BY <1>2 DEF Keeps, KeepsFrom

\* An early return changes nothing.
LEMMA KeepsRefl ==
  ASSUME NEW K, NEW c, Inv(c, K)
  PROVE  Keeps(c, c, K) /\ Wakes(c, c)
<1>1. Advances(c, c)
  BY Numbers DEF Inv, Advances
<1> QED
  BY <1>1 DEF Keeps, KeepsFrom, Wakes

\* A timeout that will wake the core stays in place through two calls in a row.
LEMMA WakesTrans ==
  ASSUME NEW c, NEW d, NEW e, Wakes(c, d), Wakes(d, e), d.panicked => e.panicked
  PROVE  Wakes(c, e)
BY DEF Wakes, Awake, Pos

\* A core that has panicked.
LEMMA PanicKeeps ==
  ASSUME NEW K, NEW c, Inv(c, K), ~Safe(c, c.Round) \/ ~c.app.accepts
  PROVE  Keeps(c, PanicSanity(c), K) /\ Wakes(c, PanicSanity(c))
<1> DEFINE d == PanicSanity(c)
<1>1. IsCore(c)
  BY DEF Inv
<1>2. IsCore(d)
  BY <1>1 DEF PanicSanity, IsCore
<1>3. /\ d.self = c.self /\ d.Height = c.Height /\ d.Round = c.Round /\ d.Step = c.Step
      /\ d.LockedRound = c.LockedRound /\ d.LockedProposal = c.LockedProposal
      /\ d.Votes = c.Votes /\ d.CommitRound = c.CommitRound
      /\ d.LastCommit = c.LastCommit /\ d.lastCommittedData = c.lastCommittedData
      /\ d.app = c.app /\ d.msgQueue = c.msgQueue /\ d.todo = c.todo
      /\ d.ticker = c.ticker /\ d.sent = c.sent /\ d.commits = c.commits
      /\ d.panicked = TRUE
  BY <1>1 DEF PanicSanity, IsCore
<1> HIDE DEF d
<1>4. Inv(d, K)
  BY <1>2, <1>3 DEF Inv, committee, NotCommitting, Pos
<1>5. Advances(c, d)
  BY <1>1, <1>3, Numbers DEF Advances
<1>6. /\ HasLast(c) => HasLast(d)
      /\ Hist(c) => Hist(d)
      /\ Safe(c, c.Round) => Safe(d, d.Round)
      /\ LockHist(c, c.Round) => LockHist(d, d.Round)
  BY <1>3 DEF HasLast, Hist, Safe, LockHist, committee, Pos
<1> QED
  BY <1>3, <1>4, <1>5, <1>6 DEF Keeps, KeepsFrom, Wakes, d

-----------------------------------------------------------------------------
(***************************************************************************)
(* Votes that grow, and timers.                                            *)
(***************************************************************************)

\* No prevote is lost.
Grows(u, w) ==
  \A r \in Int : \A d \in DataOrNil :
    Prevotes(u, r).votes[d] \subseteq Prevotes(w, r).votes[d]

\* The votes of a height answer the same.
SameAnswers(u, w) ==
  /\ w.height = u.height /\ w.base = u.base
  /\ \A r \in Nat : \A t \in VoteTypes : getVoteSet(w, r, t) = getVoteSet(u, r, t)

\* Nobody voted in a round before the first.
LEMMA LookUpAny ==
  ASSUME Assumptions, NEW members \in SUBSET Validators, NEW hvs,
         VotesOK(hvs, members), NEW r \in Int, NEW t \in VoteTypes
  PROVE  SetOK(getVoteSet(hvs, r, t), hvs.height, r, t, hvs.base, members)
<1>0. NoOverflow
  BY DEF Assumptions
<1>1. CASE r \in Nat
  BY <1>0, <1>1, LookUp
<1>2. CASE r \notin Nat
  <2>1. hvs.height \in Nat /\ hvs.base \in DataOrNil
        /\ DOMAIN hvs.roundVoteSets \subseteq Nat
    BY HeightVoteSetType DEF VotesOK
  <2>2. SetOK(NewVoteSet(hvs.height, r, t, hvs.base), hvs.height, r, t, hvs.base, members)
    BY <2>1, <1>0, NewVoteSetOK
  <2> QED
    BY <1>2, <2>1, <2>2 DEF getVoteSet
<1> QED
  BY <1>1, <1>2

\* A polka lasts.
LEMMA PolkaGrows ==
  ASSUME Assumptions, NEW members \in SUBSET Validators, NEW u, NEW w,
         VotesOK(u, members), VotesOK(w, members), Grows(u, w),
         NEW r \in Int, NEW d \in Data, PolkaIn(u, members, r, d)
  PROVE  PolkaIn(w, members, r, d)
<1>1. d \in DataOrNil /\ PrevoteType \in VoteTypes
  BY DEF DataOrNil, VoteTypes
<1> DEFINE a == Prevotes(u, r).votes[d]
           b == Prevotes(w, r).votes[d]
<1>2. a \in SUBSET Validators
  <2>1. SetOK(Prevotes(u, r), u.height, r, PrevoteType, u.base, members)
    BY <1>1, LookUpAny DEF Prevotes
  <2> QED
    BY <1>1, <2>1 DEF SetOK
<1>3. b \in SUBSET Validators
  <2>1. SetOK(Prevotes(w, r), w.height, r, PrevoteType, w.base, members)
    BY <1>1, LookUpAny DEF Prevotes
  <2> QED
    BY <1>1, <2>1 DEF SetOK
<1>4. a \subseteq b
  BY <1>1 DEF Grows
<1>5. d # Nil /\ PowerOf[a] >= Quorum(members)
  BY DEF PolkaIn
<1>6. Quorum(members) \in Nat
  BY QuorumIsExact DEF Assumptions
<1> HIDE DEF a, b
<1>7. PowerOf[a] \in Nat /\ PowerOf[b] \in Nat /\ PowerOf[a] <= PowerOf[b]
  BY <1>2, <1>3, <1>4, PowerNat, PowerMonotone
<1>8. PowerOf[b] >= Quorum(members)
  BY <1>5, <1>6, <1>7
<1> QED
  BY <1>5, <1>8 DEF PolkaIn, b

\* Same answers are no loss.
LEMMA SameGrows ==
  ASSUME Assumptions, NEW members \in SUBSET Validators, NEW u, NEW w,
         VotesOK(u, members), VotesOK(w, members), SameAnswers(u, w)
  PROVE  /\ Grows(u, w) /\ Grows(w, u)
         /\ \A r \in Int : \A t \in VoteTypes : getVoteSet(w, r, t) = getVoteSet(u, r, t)
<1>1. ASSUME NEW r \in Int, NEW t \in VoteTypes
      PROVE  getVoteSet(w, r, t) = getVoteSet(u, r, t)
  <2>1. CASE r \in Nat
    BY <2>1 DEF SameAnswers
  <2>2. CASE r \notin Nat
    <3>1. DOMAIN u.roundVoteSets \subseteq Nat /\ DOMAIN w.roundVoteSets \subseteq Nat
      BY HeightVoteSetType DEF VotesOK
    <3> QED
      BY <2>2, <3>1 DEF SameAnswers, getVoteSet
  <2> QED
    BY <2>1, <2>2
<1>2. PrevoteType \in VoteTypes
  BY DEF VoteTypes
<1>3. \A r \in Int : Prevotes(w, r) = Prevotes(u, r)
  BY <1>1, <1>2 DEF Prevotes
<1> QED
  BY <1>1, <1>3 DEF Grows

\* The majority of a round is a polka.
LEMMA MajorityIsPolka ==
  ASSUME Assumptions, NEW members \in SUBSET Validators, NEW hvs,
         VotesOK(hvs, members), NEW r \in Nat,
         HasTwoThirdsMajority(Prevotes(hvs, r))
  PROVE  /\ Prevotes(hvs, r).maj23 \in Data
         /\ PolkaIn(hvs, members, r, Prevotes(hvs, r).maj23)
<1>1. SetOK(Prevotes(hvs, r), hvs.height, r, PrevoteType, hvs.base, members)
  BY LookUp DEF Assumptions, Prevotes, VoteTypes
<1>2. Prevotes(hvs, r).maj23 \in DataOrNil
  BY <1>1 DEF SetOK, VoteSets
<1> QED
  BY <1>1, <1>2 DEF SetOK, HasTwoThirdsMajority, PolkaIn, DataOrNil

\* A timeout that was scheduled for the position of the core is the one that
\* runs, unless one for the same step has run before.
LEMMA TicksMove ==
  ASSUME NEW ticker \in TimeoutTickers, NEW p \in timeoutInfo, NEW q \in timeoutInfo,
         TicksOK(ticker, p), p = q \/ Before(p, q)
  PROVE  /\ TicksOK(ticker, q)
         /\ q.Step \in TimedSteps => TicksOK(ScheduleTimeout(ticker, q), q)
         /\ Before(p, q) \/ q.Step \in {RoundStepPrevoteFetch, RoundStepPrecommitFetch}
              => ScheduleTimeout(ticker, q).ti = q /\ ScheduleTimeout(ticker, q).armed
<1>1. /\ ticker.ti \in timeoutInfo /\ ticker.tocks \subseteq timeoutInfo
      /\ ticker.armed \in BOOLEAN
  BY DEF TimeoutTickers
<1>2. ASSUME NEW k \in timeoutInfo, Before(k, p) \/ k = p
      PROVE  Before(k, q) \/ k = q
  <2>1. /\ k.Height \in Nat /\ k.Round \in Nat /\ k.Step \in Nat
        /\ p.Height \in Nat /\ p.Round \in Nat /\ p.Step \in Nat
        /\ q.Height \in Nat /\ q.Round \in Nat /\ q.Step \in Nat
    BY DEF timeoutInfo, RoundStepCommit
  <2> QED
    BY <1>2, <2>1 DEF Before
<1>3. TicksOK(ticker, q)
  BY <1>1, <1>2 DEF TicksOK
<1> DEFINE t == ScheduleTimeout(ticker, q)
<1>4. /\ t.tocks = ticker.tocks
      /\ t = ticker \/ (t.ti = q /\ t.armed = TRUE)
  BY DEF ScheduleTimeout, TimeoutTickers
<1>5. ASSUME Before(p, q) \/ q.Step \in {RoundStepPrevoteFetch, RoundStepPrecommitFetch}
      PROVE  t.ti = q /\ t.armed
  <2>1. ~ignoresTick(ticker.ti, q)
    <3>1. Before(ticker.ti, p) \/ ticker.ti = p
      BY DEF TicksOK
    <3>2. \/ Before(ticker.ti, q)
          \/ ticker.ti = q /\ q.Step \in {RoundStepPrevoteFetch, RoundStepPrecommitFetch}
      <4>1. /\ ticker.ti.Height \in Nat /\ ticker.ti.Round \in Nat
            /\ ticker.ti.Step \in Nat
            /\ p.Height \in Nat /\ p.Round \in Nat /\ p.Step \in Nat
            /\ q.Height \in Nat /\ q.Round \in Nat /\ q.Step \in Nat
        BY <1>1 DEF timeoutInfo, RoundStepCommit
      <4> QED
        BY <1>5, <3>1, <4>1 DEF Before
    <3>3. /\ ticker.ti.Height \in Nat /\ ticker.ti.Round \in Nat
          /\ ticker.ti.Step \in Nat
          /\ q.Height \in Nat /\ q.Round \in Nat /\ q.Step \in Nat
      BY <1>1 DEF timeoutInfo, RoundStepCommit
    <3> QED
      BY <3>2, <3>3 DEF Before, ignoresTick
  <2> QED
    BY <2>1 DEF ScheduleTimeout, TimeoutTickers
<1> HIDE DEF t
<1>6. ASSUME q.Step \in TimedSteps PROVE TicksOK(t, q)
  BY <1>3, <1>4, <1>6 DEF TicksOK
<1> QED
  BY <1>3, <1>5, <1>6 DEF t

-----------------------------------------------------------------------------
(***************************************************************************)
(* A core that goes on in its height.                                      *)
(***************************************************************************)

\* What a core keeps as long as it neither commits nor receives a message.
Frame(c, d) ==
  /\ d.self = c.self /\ d.Height = c.Height
  /\ d.CommitRound = c.CommitRound /\ d.LastCommit = c.LastCommit
  /\ d.lastCommittedData = c.lastCommittedData
  /\ d.app = c.app /\ d.commits = c.commits /\ d.todo = c.todo
  /\ d.panicked = c.panicked

SameLock(c, d) ==
  d.LockedRound = c.LockedRound /\ d.LockedProposal = c.LockedProposal

\* The timer is left alone or set for the new position.
Timed(c, d) ==
  \/ d.ticker = c.ticker
  \/ d.Step \in TimedSteps /\ d.ticker = ScheduleTimeout(c.ticker, Pos(d))

\* Nothing is signed, or w is signed, published and sent.
Quiet(c, d) == d.sent = c.sent /\ d.msgQueue = c.msgQueue

Signs(c, d, w) == d.sent = c.sent \cup {w} /\ d.msgQueue = Append(c.msgQueue, w)

\* The vote is signed in its turn.
InTurn(c, d, w) ==
  /\ w \in Vote /\ w.Height = c.Height /\ w.Round = d.Round
  /\ d.Round > c.Round \/ StepOf(w.Type) > c.Step
  /\ StepOf(w.Type) <= d.Step

\* The height, round and step of a core are a timeoutInfo.
LEMMA PosType ==
  ASSUME NEW c, IsCore(c)
  PROVE  Pos(c) \in timeoutInfo
BY Numbers DEF Pos, timeoutInfo, RoundStepCommit

\* What justifies a lock is still there when votes are added or cast and the
\* round goes on.
LEMMA LockKept ==
  ASSUME Assumptions, NEW members \in SUBSET Validators, NEW u, NEW w,
         VotesOK(u, members), VotesOK(w, members), Grows(u, w),
         NEW lr \in Nat \cup {-1}, NEW ld \in Data \cup {None}, NEW h, NEW self,
         NEW round \in Nat, NEW later \in Nat, round <= later,
         NEW sent, NEW more, sent \subseteq more,
         LockOK(lr, ld, h, round, u, members, sent, self)
  PROVE  LockOK(lr, ld, h, later, w, members, more, self)
<1>1. lr = -1 <=> ld = None
  BY DEF LockOK
<1>2. ASSUME ld # None PROVE PolkaIn(w, members, lr, ld)
  <2>1. lr \in Int /\ ld \in Data /\ PolkaIn(u, members, lr, ld)
    BY <1>2 DEF LockOK
  <2> QED
    BY <2>1, PolkaGrows
<1>3. ASSUME ld # None PROVE lr <= later
  BY <1>3 DEF LockOK
<1>4. ASSUME ld # None, self \in members
      PROVE  \E v \in more : /\ v.Type = PrecommitType /\ v.Height = h
                             /\ v.Round = lr /\ v.Proposed = ld
  BY <1>4 DEF LockOK
<1> QED
  BY <1>1, <1>2, <1>3, <1>4 DEF LockOK

\* The application's commits stay backed by votes when more votes are known.
LEMMA CommitsKnown ==
  ASSUME NEW commits, NEW app, NEW known, NEW more, known \subseteq more,
         CommitsOK(commits, app, known)
  PROVE  CommitsOK(commits, app, more)
BY DEF CommitsOK, CommitOK

\* So do the votes that are tracked.
LEMMA VotesStayKnown ==
  ASSUME NEW u, NEW w, SameAnswers(u, w), NEW known, NEW more, known \subseteq more,
         VotesKnown(u, known)
  PROVE  VotesKnown(w, more)
BY DEF VotesKnown, SameAnswers

\* The queue of own votes holds votes that were signed, also after signAddVote.
LEMMA QueueGrows ==
  ASSUME NEW c, NEW d, IsCore(c), QueueKnown(c.msgQueue, c.sent),
         Quiet(c, d) \/ \E w : Signs(c, d, w)
  PROVE  c.sent \subseteq d.sent /\ QueueKnown(d.msgQueue, d.sent)
<1>1. CASE Quiet(c, d)
  BY <1>1 DEF Quiet, QueueKnown
<1>2. ASSUME NEW w, Signs(c, d, w)
      PROVE  c.sent \subseteq d.sent /\ QueueKnown(d.msgQueue, d.sent)
  <2>1. c.msgQueue \in Seq(Vote)
    BY CoreType
  <2> DEFINE q == c.msgQueue
  <2>2. /\ Len(Append(q, w)) = Len(q) + 1 /\ Len(q) \in Nat
        /\ \A i \in 1..Len(q) : Append(q, w)[i] = q[i]
        /\ Append(q, w)[Len(q) + 1] = w
    BY <2>1
  <2>3. \A i \in 1..Len(q) : q[i] \in c.sent
    BY DEF QueueKnown
  <2>4. \A i \in 1..(Len(q) + 1) : i \in 1..Len(q) \/ i = Len(q) + 1
    BY <2>2
  <2>5. d.msgQueue = Append(q, w) /\ d.sent = c.sent \cup {w}
    BY <1>2 DEF Signs
  <2> HIDE DEF q
  <2> QED
    BY <2>2, <2>3, <2>4, <2>5 DEF QueueKnown
<1> QED
  BY <1>1, <1>2

\* The invariant of a core that goes on.
LEMMA MoveInv ==
  ASSUME Assumptions, NEW K, NEW c, NEW d, Inv(c, K), IsCore(d), Frame(c, d),
         d.Step # RoundStepCommit, Pos(d) = Pos(c) \/ Before(Pos(c), Pos(d)),
         VotesOK(d.Votes, committee(c)), RoundsOK(d.Votes, d.Round, d.Step),
         d.Votes.height = c.Votes.height, d.Votes.base = c.Votes.base,
         VotesKnown(d.Votes, K \cup d.sent),
         Timed(c, d), Quiet(c, d) \/ \E w : Signs(c, d, w),
         LockOK(d.LockedRound, d.LockedProposal, c.Height, d.Round, d.Votes,
                committee(c), d.sent, c.self),
         d.LockedRound \in {-1, c.LockedRound} \/ d.LockedRound >= c.Round
  PROVE  Inv(d, K) /\ Advances(c, d) /\ (HasLast(c) => HasLast(d))
<1>1. IsCore(c)
  BY DEF Inv
<1>2. committee(d) = committee(c)
  BY DEF Frame, committee
<1>3. TicksOK(d.ticker, Pos(d))
  <2>1. /\ Pos(c) \in timeoutInfo /\ Pos(d) \in timeoutInfo
        /\ c.ticker \in TimeoutTickers /\ TicksOK(c.ticker, Pos(c))
    BY <1>1, PosType, CoreType DEF Inv
  <2>2. /\ TicksOK(c.ticker, Pos(d))
        /\ Pos(d).Step \in TimedSteps
             => TicksOK(ScheduleTimeout(c.ticker, Pos(d)), Pos(d))
    BY <2>1, TicksMove
  <2>3. Pos(d).Step = d.Step
    BY DEF Pos
  <2> QED
    BY <2>2, <2>3 DEF Timed
<1>4. AtHeight(d.Height, d.lastCommittedData, d.app, d.Votes)
  BY DEF Inv, AtHeight, Frame
<1>5. NotCommitting(d.panicked, d.CommitRound, d.Step)
  BY DEF Inv, NotCommitting, Frame
<1>6. c.sent \subseteq d.sent /\ QueueKnown(d.msgQueue, d.sent)
  BY <1>1, QueueGrows DEF Inv
<1>7. CommitsOK(d.commits, d.app, K \cup d.sent)
  <2>1. CommitsOK(c.commits, c.app, K \cup c.sent) /\ K \cup c.sent \subseteq K \cup d.sent
    BY <1>6 DEF Inv
  <2> QED
    BY <2>1, CommitsKnown DEF Frame
<1>8. LastOK(d.LastCommit, d.Height, d.lastCommittedData) /\ d.todo \subseteq K \cup {None}
  BY DEF Inv, Frame
<1>9. Inv(d, K)
  BY <1>2, <1>3, <1>4, <1>5, <1>6, <1>7, <1>8 DEF Inv, Frame
<1>10. Advances(c, d)
  BY <1>1, Numbers DEF Advances, Frame, Pos, Before
<1>11. HasLast(c) => HasLast(d)
  BY DEF HasLast, Frame
<1> QED
  BY <1>9, <1>10, <1>11

\* The history of a core that goes on: what it signs, it signs in its turn.
LEMMA MoveHist ==
  ASSUME Assumptions, NEW c, NEW d, IsCore(c), IsCore(d), Frame(c, d),
         Pos(d) = Pos(c) \/ Before(Pos(c), Pos(d)),
         VotesOK(c.Votes, committee(c)), VotesOK(d.Votes, committee(c)),
         Grows(c.Votes, d.Votes), Hist(c),
         \/ Quiet(c, d)
         \/ \E w : /\ Signs(c, d, w) /\ InTurn(c, d, w)
                   /\ w.Type = PrecommitType /\ w.Proposed # Nil
                        => PolkaIn(d.Votes, committee(c), d.Round, w.Proposed)
  PROVE  Hist(d)
<1>1. /\ c.Height \in Nat /\ c.Round \in Nat /\ c.Step \in Int
      /\ d.Height = c.Height /\ d.Round \in Nat /\ d.Step \in Int
  BY Numbers DEF Frame
<1>2. c.sent \in SUBSET Vote /\ committee(d) = committee(c)
      /\ committee(c) \in SUBSET Validators
  BY CoreType, CommitteeType DEF committee, Frame
<1>3. d.Round > c.Round \/ (d.Round = c.Round /\ d.Step >= c.Step)
  BY <1>1 DEF Pos, Before
<1>4. \A v \in Vote : /\ v.Height \in Nat /\ v.Round \in Int /\ StepOf(v.Type) \in Int
                      /\ v.Proposed \in DataOrNil
  BY DEF Vote, StepOf, RoundStepPropose, RoundStepPrevote, RoundStepPrecommit,
         ProposalType, PrevoteType, PrecommitType
<1>5. ASSUME NEW v \in c.sent
      PROVE  \/ v.Height < d.Height
             \/ /\ v.Height = d.Height
                /\ v.Round < d.Round \/ (v.Round = d.Round /\ StepOf(v.Type) <= d.Step)
  <2>1. \/ v.Height < c.Height
        \/ /\ v.Height = c.Height
           /\ v.Round < c.Round \/ (v.Round = c.Round /\ StepOf(v.Type) <= c.Step)
    BY DEF Hist, SentBefore, Pos
  <2> QED
    BY <2>1, <1>1, <1>2, <1>3, <1>4
<1>6. ASSUME NEW v \in c.sent, v.Type = PrecommitType, v.Height = d.Height,
             v.Proposed # Nil
      PROVE  PolkaIn(d.Votes, committee(c), v.Round, v.Proposed)
  <2>1. v.Round \in Int /\ v.Proposed \in Data
    BY <1>2, <1>4, <1>6 DEF DataOrNil
  <2>2. PolkaIn(c.Votes, committee(c), v.Round, v.Proposed)
    BY <1>1, <1>6 DEF Hist, SentJustified
  <2> QED
    BY <1>2, <2>1, <2>2, PolkaGrows
<1>7. CASE Quiet(c, d)
  <2>1. d.sent = c.sent /\ SentOnce(c.sent)
    BY <1>7 DEF Quiet, Hist
  <2>2. SentBefore(d.sent, Pos(d))
    BY <1>5, <2>1 DEF SentBefore, Pos
  <2>3. SentJustified(d.sent, d.Height, d.Votes, committee(d))
    BY <1>2, <1>6, <2>1 DEF SentJustified
  <2> QED
    BY <2>1, <2>2, <2>3 DEF Hist
<1>8. ASSUME NEW w, Signs(c, d, w), InTurn(c, d, w),
             w.Type = PrecommitType /\ w.Proposed # Nil
               => PolkaIn(d.Votes, committee(c), d.Round, w.Proposed)
      PROVE  Hist(d)
  <2>1. d.sent = c.sent \cup {w}
    BY <1>8 DEF Signs
  <2>2. /\ w \in Vote /\ w.Height = c.Height /\ w.Round = d.Round
        /\ d.Round > c.Round \/ StepOf(w.Type) > c.Step
        /\ StepOf(w.Type) <= d.Step
    BY <1>8 DEF InTurn
  <2>3. SentBefore(d.sent, Pos(d))
    BY <1>1, <1>5, <2>1, <2>2 DEF SentBefore, Pos
  <2>4. ASSUME NEW v \in c.sent
        PROVE  v.Type # w.Type \/ v.Height # w.Height \/ v.Round # w.Round
    <3>1. \/ v.Height < c.Height
          \/ /\ v.Height = c.Height
             /\ v.Round < c.Round \/ (v.Round = c.Round /\ StepOf(v.Type) <= c.Step)
      BY DEF Hist, SentBefore, Pos
    <3> QED
      BY <3>1, <2>2, <1>1, <1>2, <1>3, <1>4
  <2>5. SentOnce(d.sent)
    BY <2>1, <2>4 DEF SentOnce, Hist
  <2>6. SentJustified(d.sent, d.Height, d.Votes, committee(d))
    BY <1>2, <1>6, <1>8, <2>1, <2>2 DEF SentJustified
  <2> QED
    BY <2>3, <2>5, <2>6 DEF Hist
<1> QED
  BY <1>7, <1>8

\* The release of a lock lasts.
LEMMA ReleasedGrows ==
  ASSUME Assumptions, NEW members \in SUBSET Validators, NEW u, NEW w,
         VotesOK(u, members), VotesOK(w, members), Grows(u, w),
         NEW R \in Int, NEW S \in Int, R <= S, NEW v \in Vote,
         Released(v, u, members, R)
  PROVE  Released(v, w, members, S)
<1>1. v.Round \in Int
  BY DEF Vote
<1>2. PICK r \in (v.Round + 1)..R, d \in Data \ {v.Proposed} : PolkaIn(u, members, r, d)
  BY DEF Released
<1>3. r \in Int /\ r \in (v.Round + 1)..S
  BY <1>1, <1>2
<1>4. PolkaIn(w, members, r, d)
  BY <1>2, <1>3, PolkaGrows
<1> QED
  BY <1>3, <1>4 DEF Released

\* A core that keeps its lock obeys it, if it prevotes the locked data.
LEMMA MoveLock ==
  ASSUME Assumptions, NEW c, NEW d, IsCore(c), IsCore(d), Frame(c, d),
         VotesOK(c.Votes, committee(c)), VotesOK(d.Votes, committee(c)),
         Grows(c.Votes, d.Votes), NEW R \in Nat, c.Round <= R, R <= d.Round,
         Hist(c), LockHist(c, R), SameLock(c, d),
         \/ Quiet(c, d)
         \/ \E w : /\ Signs(c, d, w) /\ InTurn(c, d, w)
                   /\ \/ w.Type = ProposalType
                      \/ /\ w.Type = PrevoteType
                         /\ c.LockedProposal # None => w.Proposed = c.LockedProposal
  PROVE  LockHist(d, d.Round)
<1>1. /\ d.Height = c.Height /\ c.Round \in Nat /\ d.Round \in Nat
      /\ c.sent \in SUBSET Vote /\ committee(d) = committee(c)
      /\ committee(c) \in SUBSET Validators
      /\ c.LockedProposal \in Data \cup {None}
  BY Numbers, CoreType, CommitteeType DEF Frame, committee
<1>2. ASSUME NEW v \in c.sent, v.Type = PrecommitType, v.Height = c.Height, v.Proposed # Nil
      PROVE  \/ d.LockedProposal = v.Proposed /\ d.LockedRound >= v.Round
             \/ Released(v, d.Votes, committee(c), d.Round)
  <2>1. \/ c.LockedProposal = v.Proposed /\ c.LockedRound >= v.Round
        \/ Released(v, c.Votes, committee(c), R)
    BY <1>2 DEF LockHist, LockHeld
  <2>2. CASE Released(v, c.Votes, committee(c), R)
    <3>1. Released(v, d.Votes, committee(c), d.Round)
      BY <1>1, <2>2, ReleasedGrows
    <3> QED
      BY <3>1
  <2> QED
    BY <2>1, <2>2 DEF SameLock
<1>3. ASSUME NEW v \in c.sent, NEW u \in c.sent,
             v.Type = PrecommitType, v.Proposed # Nil, u.Type = PrevoteType,
             u.Proposed # v.Proposed, v.Height = c.Height, u.Height = c.Height,
             v.Round < u.Round
      PROVE  Released(v, d.Votes, committee(c), u.Round)
  <2>1. Released(v, c.Votes, committee(c), u.Round)
    BY <1>3 DEF LockHist, LockObeyed
  <2>2. v \in Vote /\ u \in Vote /\ u.Round \in Int
    BY <1>1 DEF Vote
  <2>3. u.Round <= u.Round
    BY <2>2
  <2> QED
    BY <1>1, <2>1, <2>2, <2>3, ReleasedGrows
<1>4. CASE Quiet(c, d)
  <2>1. d.sent = c.sent
    BY <1>4 DEF Quiet
  <2> QED
    BY <1>1, <1>2, <1>3, <2>1 DEF LockHist, LockHeld, LockObeyed
<1>5. ASSUME NEW w, Signs(c, d, w), InTurn(c, d, w),
             \/ w.Type = ProposalType
             \/ /\ w.Type = PrevoteType
                /\ c.LockedProposal # None => w.Proposed = c.LockedProposal
      PROVE  LockHist(d, d.Round)
  <2>1. d.sent = c.sent \cup {w} /\ w.Type # PrecommitType /\ w.Round = d.Round
    BY <1>5 DEF Signs, InTurn, ProposalType, PrevoteType, PrecommitType
  <2>2. LockHeld(d.sent, d.Height, d.LockedRound, d.LockedProposal, d.Votes,
                 committee(d), d.Round)
    BY <1>1, <1>2, <2>1 DEF LockHeld
  <2>3. ASSUME NEW v \in c.sent, v.Type = PrecommitType, v.Proposed # Nil,
               w.Type = PrevoteType, w.Proposed # v.Proposed, v.Height = c.Height
        PROVE  Released(v, d.Votes, committee(c), w.Round)
    <3>1. ~(d.LockedProposal = v.Proposed)
      <4>1. v.Proposed \in DataOrNil /\ None \notin DataOrNil
        BY <1>1, ValueAssumption DEF Vote
      <4>2. w.Type # ProposalType
        BY <2>3 DEF ProposalType, PrevoteType
      <4> QED
        BY <1>5, <2>3, <4>1, <4>2 DEF SameLock
    <3> QED
      BY <1>2, <2>1, <2>3, <3>1
  <2>4. LockObeyed(d.sent, d.Height, d.Votes, committee(d))
    BY <1>1, <1>3, <2>1, <2>3 DEF LockObeyed
  <2> QED
    BY <2>2, <2>4 DEF LockHist
<1> QED
  BY <1>4, <1>5

\* What the sanity checks of the source look at is still right when a core
\* moves on with the same votes.
LEMMA SafeMoves ==
  ASSUME Assumptions, NEW c, NEW d, IsCore(c), IsCore(d), Frame(c, d),
         VotesOK(c.Votes, committee(c)), VotesOK(d.Votes, committee(c)),
         SameAnswers(c.Votes, d.Votes), NEW R \in Nat, R <= d.Round, Safe(c, R)
  PROVE  Safe(d, d.Round)
<1>1. /\ d.app = c.app /\ d.panicked = c.panicked /\ committee(d) = committee(c)
      /\ d.Round \in Nat
  BY Numbers DEF Frame, committee
<1>2. TotalsOK(d.Votes)
  BY DEF Safe, TotalsOK, SameAnswers
<1>3. \A r \in Nat : Prevotes(d.Votes, r) = Prevotes(c.Votes, r)
  BY DEF SameAnswers, Prevotes, VoteTypes
<1>4. \A r \in Nat, e \in Data : PolkaIn(d.Votes, committee(c), r, e) => r <= R
  BY <1>3 DEF Safe, NoPolkaAfter, PolkaIn
<1>5. NoPolkaAfter(d.Votes, committee(d), d.Round)
  BY <1>1, <1>4 DEF NoPolkaAfter
<1> QED
  BY <1>1, <1>2, <1>5 DEF Safe

\* A core that goes on with the same votes and the same lock is in order.
LEMMA MoveKeeps ==
  ASSUME Assumptions, NEW K, NEW c, NEW d, Inv(c, K), IsCore(d), Frame(c, d),
         NEW R \in Nat, c.Round <= R, R <= d.Round,
         d.Step # RoundStepCommit, Pos(d) = Pos(c) \/ Before(Pos(c), Pos(d)),
         VotesOK(d.Votes, committee(c)), RoundsOK(d.Votes, d.Round, d.Step),
         SameAnswers(c.Votes, d.Votes), Timed(c, d), SameLock(c, d),
         \/ Quiet(c, d)
         \/ \E w : /\ Signs(c, d, w) /\ InTurn(c, d, w)
                   /\ \/ w.Type = ProposalType
                      \/ /\ w.Type = PrevoteType
                         /\ c.LockedProposal # None => w.Proposed = c.LockedProposal
  PROVE  KeepsFrom(c, d, K, R)
<1>1. /\ IsCore(c) /\ VotesOK(c.Votes, committee(c))
      /\ committee(c) \in SUBSET Validators
      /\ c.Round \in Nat /\ d.Round \in Nat
  BY CommitteeType, Numbers DEF Inv
<1>2. Grows(c.Votes, d.Votes)
  BY <1>1, SameGrows
<1>3. Quiet(c, d) \/ \E w : Signs(c, d, w)
  OBVIOUS
<1>4. c.sent \subseteq d.sent
  BY <1>1, <1>3, QueueGrows DEF Inv
<1>5. VotesKnown(d.Votes, K \cup d.sent)
  <2>1. K \cup c.sent \subseteq K \cup d.sent /\ VotesKnown(c.Votes, K \cup c.sent)
    BY <1>4 DEF Inv
  <2> QED
    BY <2>1, VotesStayKnown
<1>6. LockOK(d.LockedRound, d.LockedProposal, c.Height, d.Round, d.Votes,
             committee(c), d.sent, c.self)
  <2>1. /\ c.LockedRound \in Nat \cup {-1} /\ c.LockedProposal \in Data \cup {None}
        /\ c.Round <= d.Round
        /\ LockOK(c.LockedRound, c.LockedProposal, c.Height, c.Round, c.Votes,
                  committee(c), c.sent, c.self)
    BY <1>1, CoreType DEF Inv
  <2> QED
    BY <1>1, <1>2, <1>4, <2>1, LockKept DEF SameLock
<1>7. Inv(d, K) /\ Advances(c, d) /\ (HasLast(c) => HasLast(d))
  <2>1. d.Votes.height = c.Votes.height /\ d.Votes.base = c.Votes.base
        /\ d.LockedRound \in {-1, c.LockedRound}
    BY DEF SameAnswers, SameLock
  <2> QED
    BY <1>3, <1>5, <1>6, <2>1, MoveInv
<1>8. Hist(c) => Hist(d)
  <2>1. \A w : w.Type \in {ProposalType, PrevoteType} => w.Type # PrecommitType
    BY DEF ProposalType, PrevoteType, PrecommitType
  <2>2. \/ Quiet(c, d)
        \/ \E w : /\ Signs(c, d, w) /\ InTurn(c, d, w)
                  /\ w.Type = PrecommitType /\ w.Proposed # Nil
                       => PolkaIn(d.Votes, committee(c), d.Round, w.Proposed)
    BY <2>1
  <2> QED
    BY <1>1, <1>2, <2>2, MoveHist
<1>9. Safe(c, R) => Safe(d, d.Round)
  BY <1>1, SafeMoves
<1>10. Hist(c) /\ LockHist(c, R) => LockHist(d, d.Round)
  BY <1>1, <1>2, MoveLock
<1> QED
  BY <1>7, <1>8, <1>9, <1>10 DEF KeepsFrom, Frame

\* A timeout that is scheduled for a later step wakes the core up.
LEMMA MoveWakes ==
  ASSUME NEW K, NEW c, NEW d, Inv(c, K), IsCore(d),
         Before(Pos(c), Pos(d)), d.ticker = ScheduleTimeout(c.ticker, Pos(d))
  PROVE  Awake(d)
<1>1. /\ Pos(c) \in timeoutInfo /\ Pos(d) \in timeoutInfo
      /\ c.ticker \in TimeoutTickers /\ TicksOK(c.ticker, Pos(c))
  BY PosType, CoreType DEF Inv
<1> QED
  BY <1>1, TicksMove DEF Awake

-----------------------------------------------------------------------------
(***************************************************************************)
(* The functions, bottom up.                                               *)
(***************************************************************************)

\* A ticker stays one when ScheduleTimeout reaches it.
LEMMA ScheduleType ==
  ASSUME NEW ticker \in TimeoutTickers, NEW ti \in timeoutInfo
  PROVE  ScheduleTimeout(ticker, ti) \in TimeoutTickers
BY DEF ScheduleTimeout, TimeoutTickers

\* A HeightVoteSet answers as it answers.
LEMMA SameAnswersRefl ==
  ASSUME NEW hvs
  PROVE  SameAnswers(hvs, hvs)
BY DEF SameAnswers

\* d is at the same height, with the same votes.
Stays(c, d) ==
  d.Height = c.Height /\ d.app = c.app /\ SameAnswers(c.Votes, d.Votes)

\* The core signs the vote of its round state, if it is a validator.
SignsOne(c, type, round, data, s, w) ==
  /\ IsCore(s) /\ Frame(c, s) /\ SameLock(c, s)
  /\ s.Round = c.Round /\ s.Step = c.Step /\ s.Proposal = c.Proposal
  /\ s.Votes = c.Votes /\ s.ticker = c.ticker
  /\ w \in Vote
  /\ w.Type = type /\ w.Height = c.Height /\ w.Round = round
  /\ w.Proposed = data
  /\ IF isValidator(c) THEN Signs(c, s, w) ELSE Quiet(c, s)

\* signAddVote records and queues one vote, and changes nothing else.
LEMMA SignResult ==
  ASSUME NEW c, IsCore(c), NEW type \in {PrevoteType, PrecommitType, ProposalType},
         NEW round \in Int, NEW data \in DataOrNil
  PROVE  SignsOne(c, type, round, data, signAddVote(c, type, round, data),
           NewVote(type, c.Height, round, data, c.lastCommittedData, c.self))
<1> DEFINE s == signAddVote(c, type, round, data)
           w == NewVote(type, c.Height, round, data, c.lastCommittedData, c.self)
           queue == Append(c.msgQueue, w)
           sent  == c.sent \cup {w}
<1>1. w \in Vote /\ w.Type = type /\ w.Height = c.Height /\ w.Round = round
      /\ w.Proposed = data
  BY CoreType DEF NewVote, Vote
<1>2. isValidator(c) => s = [c EXCEPT !.msgQueue = queue, !.sent = sent]
  BY DEF signAddVote
<1>3. ~isValidator(c) => s = c
  BY DEF signAddVote
<1> HIDE DEF w, s
<1>4. queue \in Seq(Vote) /\ sent \in SUBSET Vote
  BY <1>1, CoreType
<1>5. CASE isValidator(c)
  <2> DEFINE q == queue
             u == sent
  <2>1. q \in Seq(Vote) /\ u \in SUBSET Vote /\ s = [c EXCEPT !.msgQueue = q, !.sent = u]
    BY <1>2, <1>4, <1>5
  <2> HIDE DEF q, u
  <2>2. IsCore(s)
    BY <2>1 DEF IsCore
  <2>3. /\ Frame(c, s) /\ SameLock(c, s)
        /\ s.Round = c.Round /\ s.Step = c.Step /\ s.Proposal = c.Proposal
        /\ s.Votes = c.Votes /\ s.ticker = c.ticker
        /\ s.msgQueue = q /\ s.sent = u
    BY <2>1 DEF IsCore, Frame, SameLock
  <2> QED
    BY <1>1, <1>5, <2>2, <2>3 DEF SignsOne, Signs, q, u, s, w
<1>6. CASE ~isValidator(c)
  BY <1>1, <1>3, <1>6 DEF SignsOne, Frame, SameLock, Quiet, s, w
<1> QED
  BY <1>5, <1>6

\* A step that is entered without a timeout.
Stepped(c, d, round, step) ==
  /\ IsCore(d) /\ Frame(c, d) /\ SameLock(c, d) /\ Quiet(c, d)
  /\ d.Round = round /\ d.Step = step /\ d.Proposal = c.Proposal
  /\ d.Votes = c.Votes /\ d.ticker = c.ticker

\* updateRoundStep sets round and step.
LEMMA StepResult ==
  ASSUME NEW c, IsCore(c), NEW round \in Nat, NEW step \in 1..10
  PROVE  Stepped(c, updateRoundStep(c, round, step), round, step)
BY ZenonT(40) DEF Stepped, updateRoundStep, IsCore, Frame, SameLock, Quiet,
       RoundStepNewHeight, RoundStepCommit

\* Of two calls of updateRoundStep the second one counts.
LEMMA StepAgain ==
  ASSUME NEW c, IsCore(c), NEW round \in Nat, NEW step \in 1..10, NEW next \in 1..10
  PROVE  updateRoundStep(updateRoundStep(c, round, step), round, next)
           = updateRoundStep(c, round, next)
BY DEF updateRoundStep, IsCore

\* A timeout that is scheduled.
Scheduled(c, d, ti) ==
  /\ IsCore(d) /\ Frame(c, d) /\ SameLock(c, d) /\ Quiet(c, d)
  /\ d.Round = c.Round /\ d.Step = c.Step /\ d.Proposal = c.Proposal
  /\ d.Votes = c.Votes /\ d.ticker = ScheduleTimeout(c.ticker, ti)

\* scheduleTimeout reaches the ticker and nothing else.
LEMMA TimeResult ==
  ASSUME NEW c, IsCore(c), NEW height \in Nat, NEW round \in Nat, NEW step \in 1..10
  PROVE  Scheduled(c, scheduleTimeout(c, height, round, step),
                   [Height |-> height, Round |-> round, Step |-> step])
<1> DEFINE ti == [Height |-> height, Round |-> round, Step |-> step]
           tk == ScheduleTimeout(c.ticker, ti)
           d  == scheduleTimeout(c, height, round, step)
<1>1. tk \in TimeoutTickers
  <2>1. c.ticker \in TimeoutTickers /\ ti \in timeoutInfo
    BY CoreType DEF timeoutInfo, RoundStepCommit
  <2> QED
    BY <2>1, ScheduleType
<1>2. d = [c EXCEPT !.ticker = tk]
  BY DEF scheduleTimeout
<1> HIDE DEF tk, d
<1>3. IsCore(d)
  BY <1>1, <1>2 DEF IsCore
<1>4. /\ Frame(c, d) /\ SameLock(c, d) /\ Quiet(c, d)
      /\ d.Round = c.Round /\ d.Step = c.Step /\ d.Proposal = c.Proposal
      /\ d.Votes = c.Votes /\ d.ticker = tk
  BY <1>2 DEF IsCore, Frame, SameLock, Quiet
<1>5. Scheduled(c, d, ti)
  BY <1>3, <1>4 DEF Scheduled, tk
<1> QED
  BY <1>5 DEF d

\* A step that is entered with its timeout.
Entered(c, d, round, step) ==
  /\ IsCore(d) /\ Frame(c, d) /\ SameLock(c, d) /\ Quiet(c, d)
  /\ d.Round = round /\ d.Step = step /\ d.Proposal = c.Proposal
  /\ d.Votes = c.Votes /\ d.ticker = ScheduleTimeout(c.ticker, Pos(d))

\* updateRoundStep and scheduleTimeout, in the two orders the source has.
LEMMA TimedStep ==
  ASSUME NEW c, IsCore(c), NEW round \in Nat, NEW step \in 1..10
  PROVE  /\ Entered(c, scheduleTimeout(updateRoundStep(c, round, step),
                                       c.Height, round, step), round, step)
         /\ Entered(c, updateRoundStep(scheduleTimeout(c, c.Height, round, step),
                                       round, step), round, step)
<1> DEFINE u == updateRoundStep(c, round, step)
           t == scheduleTimeout(c, c.Height, round, step)
           d == scheduleTimeout(u, c.Height, round, step)
           e == updateRoundStep(t, round, step)
           ti == [Height |-> c.Height, Round |-> round, Step |-> step]
<1>1. c.Height \in Nat
  BY Numbers
<1>2. /\ IsCore(u) /\ Frame(c, u) /\ SameLock(c, u) /\ Quiet(c, u)
      /\ u.Round = round /\ u.Step = step /\ u.Proposal = c.Proposal
      /\ u.Votes = c.Votes /\ u.ticker = c.ticker
  BY StepResult DEF Stepped
<1> HIDE DEF u
<1>10. IsCore(u)
  BY <1>2
<1>3. /\ IsCore(d) /\ Frame(u, d) /\ SameLock(u, d) /\ Quiet(u, d)
      /\ d.Round = u.Round /\ d.Step = u.Step /\ d.Proposal = u.Proposal
      /\ d.Votes = u.Votes /\ d.ticker = ScheduleTimeout(u.ticker, ti)
  <2>1. Scheduled(u, d, ti)
    BY ONLY <1>1, <1>10, TimeResult, round \in Nat, step \in 1..10
  <2> QED
    BY <2>1 DEF Scheduled
<1>4. /\ IsCore(t) /\ Frame(c, t) /\ SameLock(c, t) /\ Quiet(c, t)
      /\ t.Round = c.Round /\ t.Step = c.Step /\ t.Proposal = c.Proposal
      /\ t.Votes = c.Votes /\ t.ticker = ScheduleTimeout(c.ticker, ti)
  <2>1. Scheduled(c, t, ti)
    BY ONLY <1>1, TimeResult, IsCore(c), round \in Nat, step \in 1..10
  <2> QED
    BY <2>1 DEF Scheduled
<1> HIDE DEF t, d
<1>5. /\ IsCore(e) /\ Frame(t, e) /\ SameLock(t, e) /\ Quiet(t, e)
      /\ e.Round = round /\ e.Step = step /\ e.Proposal = t.Proposal
      /\ e.Votes = t.Votes /\ e.ticker = t.ticker
  BY <1>4, StepResult DEF Stepped
<1> HIDE DEF e
<1>6. /\ Frame(c, d) /\ SameLock(c, d) /\ Quiet(c, d) /\ Pos(d) = ti
  BY <1>2, <1>3 DEF Frame, SameLock, Quiet, Pos
<1>7. /\ Frame(c, e) /\ SameLock(c, e) /\ Quiet(c, e) /\ Pos(e) = ti
  BY <1>4, <1>5 DEF Frame, SameLock, Quiet, Pos
<1>8. /\ d.Round = round /\ d.Step = step /\ d.Proposal = c.Proposal
      /\ d.Votes = c.Votes /\ d.ticker = ScheduleTimeout(c.ticker, Pos(d))
  BY <1>2, <1>3, <1>6
<1>9. /\ e.Round = round /\ e.Step = step /\ e.Proposal = c.Proposal
      /\ e.Votes = c.Votes /\ e.ticker = ScheduleTimeout(c.ticker, Pos(e))
  BY <1>4, <1>5, <1>7
<1>11. Entered(c, d, round, step) /\ Entered(c, e, round, step)
  BY <1>3, <1>5, <1>6, <1>7, <1>8, <1>9 DEF Entered
<1> QED
  BY <1>11 DEF u, t, d, e

\* enterPrevote signs a prevote, for the locked data if there are any.
LEMMA enterPrevoteKeeps ==
  ASSUME Assumptions, NEW K, NEW c, Inv(c, K), NEW height, NEW round \in Nat,
         c.panicked \/ round <= c.Round
  PROVE  LET d == enterPrevote(c, height, round)
         IN  /\ Keeps(c, d, K) /\ Wakes(c, d)
             /\ ~Behind(c, height, round, RoundStepPrevote) => Awake(d)
             /\ Stays(c, d) /\ d.Round = c.Round /\ d.panicked = c.panicked
<1> DEFINE d == enterPrevote(c, height, round)
<1>1. CASE Behind(c, height, round, RoundStepPrevote)
  <2>1. d = c
    BY <1>1 DEF enterPrevote
  <2> QED
    BY <1>1, <2>1, KeepsRefl, SameAnswersRefl DEF Stays
<1>2. CASE ~Behind(c, height, round, RoundStepPrevote)
  <2>1. IsCore(c)
    BY DEF Inv
  <2>2. c.Height \in Nat /\ c.Round \in Nat /\ c.Round \in Int /\ c.Step \in 1..10
    BY <2>1, Numbers
  <2>3. height = c.Height /\ round = c.Round /\ c.Step < 4 /\ ~c.panicked
    BY <1>2, <2>2 DEF Behind, RoundStepPrevote
  <2> DEFINE data == IF c.LockedRound >= 0 /\ c.LockedProposal # None
                     THEN c.LockedProposal
                     ELSE IF c.Proposal # None /\ c.Proposal \in ValidData THEN c.Proposal
                     ELSE Nil
             w == NewVote(PrevoteType, c.Height, c.Round, data,
                          c.lastCommittedData, c.self)
             s == signAddVote(c, PrevoteType, c.Round, data)
  <2>4. data \in DataOrNil /\ (c.LockedProposal # None => data = c.LockedProposal)
    <3>1. /\ c.LockedProposal \in Data \cup {None} /\ c.Proposal \in Data \cup {None}
          /\ c.LockedRound \in Nat \cup {-1}
      BY <2>1, CoreType
    <3>2. c.LockedRound = -1 <=> c.LockedProposal = None
      BY DEF Inv, LockOK
    <3> QED
      BY <3>1, <3>2 DEF DataOrNil
  <2>5. d = scheduleTimeout(updateRoundStep(updateRoundStep(s, c.Round, 4), c.Round, 5),
                            c.Height, c.Round, 5)
    BY <1>2, <2>3 DEF enterPrevote, doPrevote, enterPrevoteFetch,
         RoundStepPrevoteFetch, RoundStepPrevote
  <2> HIDE DEF data
  <2>6. /\ IsCore(s) /\ Frame(c, s) /\ SameLock(c, s) /\ s.Votes = c.Votes
        /\ s.Round = c.Round /\ s.Step = c.Step /\ s.ticker = c.ticker
        /\ w \in Vote /\ w.Type = PrevoteType /\ w.Height = c.Height
        /\ w.Round = c.Round /\ w.Proposed = data
        /\ Quiet(c, s) \/ Signs(c, s, w)
    <3>1. PrevoteType \in {PrevoteType, PrecommitType, ProposalType}
      OBVIOUS
    <3>2. SignsOne(c, PrevoteType, c.Round, data, s, w)
      BY ONLY <2>1, <2>2, <2>4, <3>1, SignResult
    <3> QED
      BY <3>2 DEF SignsOne
  <2> HIDE DEF s, w
  <2>7. d = scheduleTimeout(updateRoundStep(s, c.Round, 5), s.Height, c.Round, 5)
    <3>1. updateRoundStep(updateRoundStep(s, c.Round, 4), c.Round, 5)
            = updateRoundStep(s, c.Round, 5)
      BY <2>2, <2>6, StepAgain
    <3> QED
      BY <2>5, <2>6, <3>1 DEF Frame
  <2> HIDE DEF d
  <2>8. /\ IsCore(d) /\ Frame(s, d) /\ SameLock(s, d) /\ Quiet(s, d)
        /\ d.Round = c.Round /\ d.Step = 5 /\ d.Votes = s.Votes
        /\ d.ticker = ScheduleTimeout(s.ticker, Pos(d))
    <3>1. IsCore(s) /\ 5 \in 1..10 /\ c.Round \in Nat
      BY <2>2, <2>6
    <3>2. Entered(s, d, c.Round, 5)
      BY <2>7, <3>1, TimedStep
    <3> QED
      BY <3>2 DEF Entered
  <2>9. /\ Frame(c, d) /\ SameLock(c, d) /\ d.Votes = c.Votes
        /\ d.ticker = ScheduleTimeout(c.ticker, Pos(d))
        /\ Quiet(c, d) \/ Signs(c, d, w)
    BY <2>6, <2>8 DEF Frame, SameLock, Quiet, Signs
  <2>10. Before(Pos(c), Pos(d)) /\ d.Step \in TimedSteps
    BY <2>2, <2>3, <2>8, <2>9 DEF Before, Pos, Frame, TimedSteps, RoundStepPrevoteFetch
  <2>12. InTurn(c, d, w)
    BY <2>2, <2>3, <2>6, <2>8 DEF InTurn, StepOf, RoundStepPrevote, PrevoteType,
         ProposalType
  <2>13. RoundsOK(d.Votes, d.Round, d.Step)
    BY <2>8, <2>9 DEF Inv, RoundsOK, RoundStepNewHeight
  <2>14. Keeps(c, d, K)
    <3>1. \/ Quiet(c, d)
          \/ \E u : /\ Signs(c, d, u) /\ InTurn(c, d, u)
                    /\ \/ u.Type = ProposalType
                       \/ /\ u.Type = PrevoteType
                          /\ c.LockedProposal # None => u.Proposed = c.LockedProposal
      BY <2>4, <2>6, <2>9, <2>12
    <3>2. /\ VotesOK(d.Votes, committee(c)) /\ SameAnswers(c.Votes, d.Votes)
          /\ c.Round <= c.Round /\ c.Round <= d.Round /\ d.Step # RoundStepCommit
          /\ Timed(c, d)
      BY <2>2, <2>8, <2>9, <2>10, SameAnswersRefl DEF Inv, Timed, RoundStepCommit
    <3> QED
      BY <2>2, <2>8, <2>9, <2>10, <2>13, <3>1, <3>2, MoveKeeps DEF Keeps
  <2>15. Awake(d)
    BY <2>8, <2>9, <2>10, MoveWakes
  <2>16. Stays(c, d) /\ d.Round = c.Round /\ d.panicked = c.panicked
    BY <2>8, <2>9, SameAnswersRefl DEF Stays, Frame
  <2> QED
    BY <2>14, <2>15, <2>16 DEF Wakes, d
<1> QED
  BY <1>1, <1>2

\* Two calls that stay at the height, in a row.
LEMMA StaysTrans ==
  ASSUME NEW c, NEW d, NEW e, Stays(c, d), Stays(d, e)
  PROVE  Stays(c, e)
BY DEF Stays, SameAnswers

\* Setting the proposal changes nothing else.
LEMMA ProposalResult ==
  ASSUME NEW c, IsCore(c), NEW data \in Data \cup {None}
  PROVE  LET d == [c EXCEPT !.Proposal = data]
         IN  /\ IsCore(d) /\ Frame(c, d) /\ SameLock(c, d) /\ Quiet(c, d)
             /\ d.Round = c.Round /\ d.Step = c.Step /\ d.Proposal = data
             /\ d.Votes = c.Votes /\ d.ticker = c.ticker
BY DEF IsCore, Frame, SameLock, Quiet

\* A core that enters a later step of its round and waits there.
LEMMA EnteredKeeps ==
  ASSUME Assumptions, NEW K, NEW c, NEW d, Inv(c, K), NEW step \in TimedSteps,
         c.Step < step, Entered(c, d, c.Round, step)
  PROVE  /\ Keeps(c, d, K) /\ Wakes(c, d) /\ Awake(d)
         /\ Stays(c, d) /\ d.Round = c.Round /\ d.panicked = c.panicked
<1>1. /\ IsCore(c) /\ IsCore(d) /\ Frame(c, d) /\ SameLock(c, d) /\ Quiet(c, d)
      /\ d.Round = c.Round /\ d.Step = step /\ d.Votes = c.Votes
      /\ d.ticker = ScheduleTimeout(c.ticker, Pos(d))
  BY DEF Entered, Inv
<1>2. c.Height \in Nat /\ c.Round \in Nat /\ c.Step \in 1..10 /\ c.Round <= c.Round
      /\ step \in 1..9
  BY <1>1, Numbers DEF TimedSteps, RoundStepNewHeight, RoundStepPropose,
    RoundStepPrevoteFetch, RoundStepPrevoteWait, RoundStepPrecommitFetch,
    RoundStepPrecommitWait
<1>3. Before(Pos(c), Pos(d)) /\ Timed(c, d) /\ d.Step # RoundStepCommit
  BY <1>1, <1>2 DEF Before, Pos, Frame, Timed, RoundStepCommit
<1>4. RoundsOK(d.Votes, d.Round, d.Step)
  BY <1>1, <1>2 DEF Inv, RoundsOK, RoundStepNewHeight
<1>5. VotesOK(d.Votes, committee(c)) /\ SameAnswers(c.Votes, d.Votes)
  BY <1>1, SameAnswersRefl DEF Inv
<1>6. Keeps(c, d, K)
  BY <1>1, <1>2, <1>3, <1>4, <1>5, MoveKeeps DEF Keeps
<1>7. Awake(d)
  BY <1>1, <1>3, MoveWakes
<1> QED
  BY <1>1, <1>5, <1>6, <1>7 DEF Wakes, Stays, Frame

\* enterPrevoteWait, which panics unless there are two thirds of any prevotes.
LEMMA enterPrevoteWaitKeeps ==
  ASSUME Assumptions, NEW K, NEW c, Inv(c, K), NEW height, NEW round \in Nat,
         c.panicked \/ round <= c.Round,
         HasTwoThirdsAny(Prevotes(c.Votes, round), committee(c))
  PROVE  LET d == enterPrevoteWait(c, height, round)
         IN  Keeps(c, d, K) /\ Wakes(c, d)
<1> DEFINE d == enterPrevoteWait(c, height, round)
<1>1. CASE Behind(c, height, round, RoundStepPrevoteWait)
  <2>1. d = c
    BY <1>1 DEF enterPrevoteWait
  <2> QED
    BY <2>1, KeepsRefl
<1>2. CASE ~Behind(c, height, round, RoundStepPrevoteWait)
  <2>1. IsCore(c)
    BY DEF Inv
  <2>2. c.Round \in Nat /\ c.Step \in 1..10 /\ 6 \in 1..10 /\ 6 \in TimedSteps
    BY <2>1, Numbers DEF TimedSteps, RoundStepPrevoteWait
  <2>3. height = c.Height /\ round = c.Round /\ c.Step < 6
    BY <1>2, <2>2 DEF Behind, RoundStepPrevoteWait
  <2>4. d = updateRoundStep(scheduleTimeout(c, c.Height, round, 6), round, 6)
    BY <1>2, <2>3 DEF enterPrevoteWait, RoundStepPrevoteWait
  <2> HIDE DEF d
  <2>5. Entered(c, d, round, 6)
    BY <2>1, <2>2, <2>4, TimedStep
  <2> QED
    BY <2>2, <2>3, <2>5, EnteredKeeps DEF d
<1> QED
  BY <1>1, <1>2

\* enterPrecommitWait, likewise for precommits.
LEMMA enterPrecommitWaitKeeps ==
  ASSUME Assumptions, NEW K, NEW c, Inv(c, K), NEW height, NEW round \in Nat,
         c.panicked \/ round <= c.Round,
         HasTwoThirdsAny(Precommits(c.Votes, round), committee(c))
  PROVE  LET d == enterPrecommitWait(c, height, round)
         IN  Keeps(c, d, K) /\ Wakes(c, d)
<1> DEFINE d == enterPrecommitWait(c, height, round)
<1>1. CASE Behind(c, height, round, RoundStepPrecommitWait)
  <2>1. d = c
    BY <1>1 DEF enterPrecommitWait
  <2> QED
    BY <2>1, KeepsRefl
<1>2. CASE ~Behind(c, height, round, RoundStepPrecommitWait)
  <2>1. IsCore(c)
    BY DEF Inv
  <2>2. c.Round \in Nat /\ c.Step \in 1..10 /\ 9 \in 1..10 /\ 9 \in TimedSteps
    BY <2>1, Numbers DEF TimedSteps, RoundStepPrecommitWait
  <2>3. height = c.Height /\ round = c.Round /\ c.Step < 9
    BY <1>2, <2>2 DEF Behind, RoundStepPrecommitWait
  <2>4. d = updateRoundStep(scheduleTimeout(c, c.Height, round, 9), round, 9)
    BY <1>2, <2>3 DEF enterPrecommitWait, RoundStepPrecommitWait
  <2> HIDE DEF d
  <2>5. Entered(c, d, round, 9)
    BY <2>1, <2>2, <2>4, TimedStep
  <2> QED
    BY <2>2, <2>3, <2>5, EnteredKeeps DEF d
<1> QED
  BY <1>1, <1>2

\* enterPropose schedules the timeout, may sign a proposal, and may go on to
\* the prevote at once.
LEMMA enterProposeKeeps ==
  ASSUME Assumptions, NEW K, NEW c, Inv(c, K), NEW height, NEW round \in Nat,
         c.panicked \/ round <= c.Round
  PROVE  LET d == enterPropose(c, height, round)
         IN  /\ Keeps(c, d, K) /\ Wakes(c, d)
             /\ ~Behind(c, height, round, RoundStepPropose) => Awake(d)
             /\ Stays(c, d) /\ d.Round = c.Round /\ d.panicked = c.panicked
<1> DEFINE d == enterPropose(c, height, round)
<1>1. CASE Behind(c, height, round, RoundStepPropose)
  <2>1. d = c
    BY <1>1 DEF enterPropose
  <2> QED
    BY <1>1, <2>1, KeepsRefl, SameAnswersRefl DEF Stays
<1>2. CASE ~Behind(c, height, round, RoundStepPropose)
  <2>1. IsCore(c)
    BY DEF Inv
  <2>2. /\ c.Height \in Nat /\ c.Round \in Nat /\ c.Round \in Int /\ c.Step \in 1..10
        /\ 3 \in 1..10
    BY <2>1, Numbers
  <2>3. height = c.Height /\ round = c.Round /\ c.Step < 3 /\ ~c.panicked
    BY <1>2, <2>2 DEF Behind, RoundStepPropose
  <2> DEFINE timed == scheduleTimeout(c, height, round, 3)
             data  == IF timed.LockedRound > -1 /\ timed.LockedProposal # None
                      THEN timed.LockedProposal ELSE DecidesProposal[timed.self]
             w     == NewVote(ProposalType, timed.Height, round, data,
                              timed.lastCommittedData, timed.self)
             s     == signAddVote(timed, ProposalType, round, data)
             p     == [s EXCEPT !.Proposal = data]
             proposed == IF isValidator(c) /\ Proposer(c.Height, c.Round) = c.self
                         THEN p ELSE timed
             done  == updateRoundStep(proposed, round, 3)
             ti    == [Height |-> height, Round |-> round, Step |-> 3]
  <2>4. d = IF isReadyToPrevote(done) THEN enterPrevote(done, height, done.Round)
            ELSE done
    BY <1>2 DEF enterPropose, doPropose, RoundStepPropose
  <2>5. /\ IsCore(timed) /\ Frame(c, timed) /\ SameLock(c, timed) /\ Quiet(c, timed)
        /\ timed.Round = c.Round /\ timed.Step = c.Step /\ timed.Votes = c.Votes
        /\ timed.ticker = ScheduleTimeout(c.ticker, ti)
    <3>1. Scheduled(c, timed, ti)
      BY <2>1, <2>2, <2>3, TimeResult
    <3> QED
      BY <3>1 DEF Scheduled
  <2> HIDE DEF timed
  <2>6. data \in Data /\ data \in DataOrNil /\ data \in Data \cup {None}
    <3>1. timed.LockedProposal \in Data \cup {None} /\ timed.self \in Nodes
      BY <2>5, CoreType
    <3> QED
      BY <3>1, AppAssumption DEF DataOrNil
  <2> HIDE DEF data
  <2>7. /\ IsCore(s) /\ Frame(timed, s) /\ SameLock(timed, s)
        /\ s.Round = timed.Round /\ s.Step = timed.Step
        /\ s.Votes = timed.Votes /\ s.ticker = timed.ticker
        /\ w \in Vote /\ w.Type = ProposalType /\ w.Height = timed.Height
        /\ w.Round = round
        /\ Quiet(timed, s) \/ Signs(timed, s, w)
    <3>1. /\ IsCore(timed) /\ ProposalType \in {PrevoteType, PrecommitType, ProposalType}
          /\ round \in Int
      BY <2>5
    <3>2. SignsOne(timed, ProposalType, round, data, s, w)
      BY <2>2, <2>6, <3>1, SignResult
    <3> QED
      BY <3>2 DEF SignsOne
  <2> HIDE DEF s, w
  <2>8. /\ IsCore(p) /\ Frame(s, p) /\ SameLock(s, p) /\ Quiet(s, p)
        /\ p.Round = s.Round /\ p.Step = s.Step
        /\ p.Votes = s.Votes /\ p.ticker = s.ticker
    <3>1. IsCore(s)
      BY <2>7
    <3> QED
      BY <2>6, <3>1, ProposalResult
  <2> HIDE DEF p
  <2>9. /\ IsCore(proposed) /\ Frame(c, proposed) /\ SameLock(c, proposed)
        /\ proposed.Votes = c.Votes /\ proposed.ticker = ScheduleTimeout(c.ticker, ti)
        /\ Quiet(c, proposed) \/ Signs(c, proposed, w)
    <3>1. /\ Frame(c, p) /\ SameLock(c, p) /\ p.Votes = c.Votes
          /\ p.ticker = ScheduleTimeout(c.ticker, ti)
          /\ Quiet(c, p) \/ Signs(c, p, w)
      BY <2>5, <2>7, <2>8 DEF Frame, SameLock, Quiet, Signs
    <3> QED
      BY <3>1, <2>5, <2>8
  <2> HIDE DEF proposed
  <2>10. /\ IsCore(done) /\ Frame(proposed, done) /\ SameLock(proposed, done)
         /\ Quiet(proposed, done) /\ done.Round = round /\ done.Step = 3
         /\ done.Votes = proposed.Votes /\ done.ticker = proposed.ticker
    <3>1. IsCore(proposed)
      BY <2>9
    <3> QED
      <4>1. Stepped(proposed, done, round, 3)
        BY <2>2, <3>1, StepResult
      <4> QED
        BY <4>1 DEF Stepped
  <2> HIDE DEF done
  <2>11. /\ Frame(c, done) /\ SameLock(c, done) /\ done.Votes = c.Votes
         /\ Pos(done) = ti /\ done.ticker = ScheduleTimeout(c.ticker, Pos(done))
         /\ Quiet(c, done) \/ Signs(c, done, w)
    <3>1. Pos(done) = ti /\ Frame(c, done)
      BY <2>3, <2>9, <2>10 DEF Frame, Pos
    <3> QED
      BY <2>9, <2>10, <3>1 DEF SameLock, Quiet, Signs
  <2>12. Before(Pos(c), Pos(done)) /\ done.Step \in TimedSteps
    BY <2>2, <2>3, <2>10, <2>11 DEF Before, Pos, TimedSteps, RoundStepPropose
  <2>13. InTurn(c, done, w)
    <3>1. w.Height = c.Height
      BY <2>5, <2>7 DEF Frame
    <3>2. StepOf(w.Type) = 3
      BY <2>7 DEF StepOf, RoundStepPropose, ProposalType
    <3> QED
      BY <2>2, <2>3, <2>7, <2>10, <3>1, <3>2 DEF InTurn
  <2>14. RoundsOK(done.Votes, done.Round, done.Step)
    BY <2>3, <2>10, <2>11 DEF Inv, RoundsOK, RoundStepNewHeight
  <2>15. Keeps(c, done, K)
    <3>1. \/ Quiet(c, done)
          \/ \E u : /\ Signs(c, done, u) /\ InTurn(c, done, u)
                    /\ \/ u.Type = ProposalType
                       \/ /\ u.Type = PrevoteType
                          /\ c.LockedProposal # None => u.Proposed = c.LockedProposal
      BY <2>7, <2>11, <2>13
    <3>2. /\ VotesOK(done.Votes, committee(c)) /\ SameAnswers(c.Votes, done.Votes)
          /\ c.Round <= c.Round /\ c.Round <= done.Round /\ done.Step # RoundStepCommit
          /\ Timed(c, done)
      BY <2>2, <2>3, <2>10, <2>11, <2>12, SameAnswersRefl DEF Inv, Timed, RoundStepCommit
    <3> QED
      BY <2>2, <2>10, <2>11, <2>12, <2>14, <3>1, <3>2, MoveKeeps DEF Keeps
  <2>16. Awake(done)
    BY <2>10, <2>11, <2>12, MoveWakes
  <2>17. Stays(c, done) /\ done.Round = c.Round /\ done.panicked = c.panicked
    BY <2>3, <2>10, <2>11, SameAnswersRefl DEF Stays, Frame
  <2>18. CASE ~isReadyToPrevote(done)
    <3>1. d = done
      BY <2>4, <2>18
    <3> QED
      BY <2>15, <2>16, <2>17, <3>1 DEF Wakes
  <2>19. CASE isReadyToPrevote(done)
    <3> DEFINE e == enterPrevote(done, height, done.Round)
    <3>1. Inv(done, K) /\ done.Round \in Nat /\ done.Round <= done.Round
      BY <2>2, <2>10, <2>15 DEF Keeps, KeepsFrom
    <3>2. /\ Keeps(done, e, K) /\ Wakes(done, e)
          /\ ~Behind(done, height, done.Round, RoundStepPrevote) => Awake(e)
          /\ Stays(done, e) /\ e.Round = done.Round /\ e.panicked = done.panicked
      BY <3>1, enterPrevoteKeeps
    <3>3. ~Behind(done, height, done.Round, RoundStepPrevote)
      <4>1. done.Height = height /\ ~done.panicked
        BY <2>3, <2>11 DEF Frame
      <4> QED
        BY <2>2, <2>10, <4>1 DEF Behind, RoundStepPrevote
    <3> HIDE DEF e
    <3>4. Keeps(c, e, K)
      BY <2>1, <2>15, <3>2, KeepsTrans DEF Keeps
    <3>5. d = e
      BY <2>4, <2>19 DEF e
    <3> QED
      BY <2>17, <3>2, <3>3, <3>4, <3>5, StaysTrans DEF Wakes
  <2> QED
    BY <2>18, <2>19
<1> QED
  BY <1>1, <1>2

\* The votes of a core that enters a round: SetRound does not panic, and the
\* new round and the next one are tracked.
LEMMA SetRoundKeeps ==
  ASSUME Assumptions, NEW members \in SUBSET Validators, NEW hvs, VotesOK(hvs, members),
         NEW old \in Nat, NEW step \in 1..10, NEW round \in Nat,
         RoundsOK(hvs, old, step), old < round \/ (old = round /\ step = 1)
  PROVE  LET new == SetRound(hvs, round + 1)
         IN  /\ ~SetRoundPanics(hvs, round + 1)
             /\ VotesOK(new, members) /\ SameAnswers(hvs, new)
             /\ RoundsOK(new, round, 2)
<1> DEFINE new == SetRound(hvs, round + 1)
           dom == DOMAIN hvs.roundVoteSets
<1>1. hvs.round \in Nat /\ dom \subseteq Nat
  BY HeightVoteSetType DEF VotesOK
<1>2. /\ VotesOK(new, members) /\ new.height = hvs.height /\ new.base = hvs.base
      /\ new.round = round + 1
      /\ \A r : r \in DOMAIN new.roundVoteSets <=> r \in dom \/ r \in (hvs.round + 1)..(round + 1)
      /\ \A r \in Nat : \A t \in VoteTypes : getVoteSet(new, r, t) = getVoteSet(hvs, r, t)
  <2>1. round + 1 \in Nat /\ NoOverflow
    BY DEF Assumptions
  <2> QED
    <3>1. RoundsAdded(hvs, new, round + 1, members)
      BY <2>1, SetRoundOK
    <3> HIDE DEF new
    <3> QED
      BY <3>1 DEF RoundsAdded
<1> HIDE DEF new
<1>3. /\ \A r \in dom : r <= old + watermark \/ r <= old + 1
      /\ 0..hvs.round \subseteq dom
      /\ hvs.round = old + 1 \/ (hvs.round = 0 /\ old = 0)
      /\ step = 1 => hvs.round = 0 /\ old = 0
  BY DEF RoundsOK, RoundStepNewHeight
<1> HIDE DEF dom
<1>4. ~SetRoundPanics(hvs, round + 1)
  BY <1>1, <1>3 DEF SetRoundPanics
<1>5. \A r \in DOMAIN new.roundVoteSets : r <= round + watermark \/ r <= round + 1
  <2>1. ASSUME NEW r \in dom PROVE r <= round + watermark \/ r <= round + 1
    <3>1. r \in Nat /\ watermark \in Nat /\ (r <= old + watermark \/ r <= old + 1)
      BY <1>1, <1>3, AppAssumption
    <3> QED
      BY <3>1
  <2>2. ASSUME NEW r \in (hvs.round + 1)..(round + 1) PROVE r <= round + 1
    BY <1>1
  <2> QED
    BY <1>2, <2>1, <2>2
<1>6. 0..(round + 1) \subseteq DOMAIN new.roundVoteSets
  <2>1. ASSUME NEW r \in 0..(round + 1)
        PROVE  r \in dom \/ r \in (hvs.round + 1)..(round + 1)
    BY <1>1, <1>3
  <2> QED
    BY <1>2, <2>1
<1>7. RoundsOK(new, round, 2)
  BY <1>2, <1>5, <1>6 DEF RoundsOK, RoundStepNewHeight
<1> QED
  BY <1>2, <1>4, <1>7 DEF new, SameAnswers

\* enterNewRound, also of a round that others have a polka in.
LEMMA enterNewRoundKeeps ==
  ASSUME Assumptions, NEW K, NEW c, Inv(c, K), NEW height, NEW round \in Nat,
         NEW R \in Nat,
         \/ R = c.Round
         \/ ~c.panicked /\ height = c.Height /\ c.Round <= R /\ R <= round
  PROVE  LET d == enterNewRound(c, height, round)
         IN  /\ KeepsFrom(c, d, K, R) /\ Wakes(c, d)
             /\ ~Behind(c, height, round, RoundStepNewRound) => Awake(d) /\ d.Round = round
             /\ Stays(c, d) /\ d.panicked = c.panicked /\ d.Round >= c.Round
<1> DEFINE d == enterNewRound(c, height, round)
<1>1. IsCore(c)
  BY DEF Inv
<1>2. c.Height \in Nat /\ c.Round \in Nat /\ c.Step \in 1..10 /\ 2 \in 1..10
      /\ committee(c) \in SUBSET Validators /\ c.Proposal \in Data \cup {None}
  BY <1>1, Numbers, CommitteeType, CoreType
<1>3. CASE Behind(c, height, round, RoundStepNewRound)
  <2>1. d = c
    BY <1>3 DEF enterNewRound
  <2>2. R = c.Round
    BY <1>2, <1>3 DEF Behind
  <2> QED
    BY <1>2, <1>3, <2>1, <2>2, KeepsRefl, SameAnswersRefl DEF Stays, Keeps
<1>4. CASE ~Behind(c, height, round, RoundStepNewRound)
  <2>1. /\ height = c.Height /\ ~c.panicked
        /\ c.Round < round \/ (c.Round = round /\ c.Step = 1)
        /\ c.Round <= R /\ R <= round
    BY <1>2, <1>4 DEF Behind, RoundStepNewRound
  <2> DEFINE u     == updateRoundStep(c, round, 2)
             data  == IF round = 0 THEN u.Proposal ELSE None
             new   == SetRound(u.Votes, round + 1)
             fresh == [u EXCEPT !.Proposal = data, !.Votes = new]
  <2>2. /\ ~SetRoundPanics(c.Votes, round + 1)
        /\ VotesOK(SetRound(c.Votes, round + 1), committee(c))
        /\ SameAnswers(c.Votes, SetRound(c.Votes, round + 1))
        /\ RoundsOK(SetRound(c.Votes, round + 1), round, 2)
    BY <1>2, <2>1, SetRoundKeeps DEF Inv
  <2>3. d = enterPropose(fresh, height, round)
    BY <1>4, <2>2 DEF enterNewRound, RoundStepNewRound
  <2>4. Stepped(c, u, round, 2)
    BY <1>1, <1>2, StepResult
  <2> HIDE DEF u
  <2>5. /\ IsCore(u) /\ Frame(c, u) /\ SameLock(c, u) /\ Quiet(c, u)
        /\ u.Round = round /\ u.Step = 2 /\ u.Votes = c.Votes /\ u.ticker = c.ticker
        /\ u.Proposal = c.Proposal
    BY <2>4 DEF Stepped
  <2>6. data \in Data \cup {None} /\ IsHeightVoteSet(new)
        /\ new = SetRound(c.Votes, round + 1)
    BY <1>2, <2>2, <2>5 DEF VotesOK
  <2> HIDE DEF data, new
  <2>7. /\ IsCore(fresh) /\ Frame(u, fresh) /\ SameLock(u, fresh) /\ Quiet(u, fresh)
        /\ fresh.Round = u.Round /\ fresh.Step = u.Step /\ fresh.ticker = u.ticker
        /\ fresh.Votes = new
    <3> DEFINE e == [u EXCEPT !.Proposal = data]
    <3>1. IsCore(u) /\ data \in Data \cup {None} /\ IsHeightVoteSet(new)
      BY <2>5, <2>6
    <3>2. IsCore(e)
      BY ONLY <3>1 DEF IsCore
    <3>3. fresh = [e EXCEPT !.Votes = new]
      OBVIOUS
    <3>4. IsCore(fresh)
      <4> HIDE DEF e, fresh
      <4> QED
        BY ONLY <3>1, <3>2, <3>3, ZenonT(40) DEF IsCore
    <3> QED
      BY ONLY <3>1, <3>4, Fields DEF Frame, SameLock, Quiet
  <2> HIDE DEF fresh
  <2>8. /\ Frame(c, fresh) /\ SameLock(c, fresh) /\ Quiet(c, fresh)
        /\ fresh.Round = round /\ fresh.Step = 2 /\ fresh.ticker = c.ticker
    BY <2>5, <2>7 DEF Frame, SameLock, Quiet
  <2>9. Before(Pos(c), Pos(fresh))
    BY <1>2, <2>1, <2>8 DEF Before, Pos, Frame
  <2>10. KeepsFrom(c, fresh, K, R)
    <3>1. /\ VotesOK(fresh.Votes, committee(c)) /\ SameAnswers(c.Votes, fresh.Votes)
          /\ RoundsOK(fresh.Votes, fresh.Round, fresh.Step)
          /\ fresh.Step # RoundStepCommit /\ Timed(c, fresh) /\ R <= fresh.Round
      BY <2>1, <2>2, <2>6, <2>7, <2>8 DEF RoundStepCommit, Timed
    <3> QED
      BY <2>1, <2>7, <2>8, <2>9, <3>1, MoveKeeps
  <2>11. Stays(c, fresh) /\ ~fresh.panicked /\ fresh.panicked = c.panicked
    BY <2>1, <2>2, <2>6, <2>7, <2>8 DEF Stays, Frame
  <2>12. Inv(fresh, K) /\ round <= fresh.Round
    BY <2>8, <2>10 DEF KeepsFrom
  <2>13. ~Behind(fresh, height, round, RoundStepPropose)
    BY <2>1, <2>8, <2>11 DEF Behind, RoundStepPropose, Frame
  <2>14. /\ Keeps(fresh, d, K) /\ Awake(d)
         /\ Stays(fresh, d) /\ d.Round = fresh.Round /\ d.panicked = fresh.panicked
    BY <2>3, <2>12, <2>13, enterProposeKeeps
  <2> HIDE DEF d
  <2>15. KeepsFrom(c, d, K, R)
    BY <1>1, <2>10, <2>14, KeepsTrans
  <2>16. Stays(c, d)
    BY <2>11, <2>14, StaysTrans
  <2> QED
    BY <1>2, <2>1, <2>8, <2>11, <2>14, <2>15, <2>16 DEF Wakes, d
<1> QED
  BY <1>3, <1>4

\* defaultSetProposal, which may run on into enterPrevote.
LEMMA defaultSetProposalKeeps ==
  ASSUME Assumptions, NEW K, NEW c, Inv(c, K), ~c.panicked, NEW proposal \in Vote
  PROVE  LET d == defaultSetProposal(c, proposal)
         IN  Keeps(c, d, K) /\ Wakes(c, d)
<1> DEFINE d  == defaultSetProposal(c, proposal)
           c1 == [c EXCEPT !.Proposal = proposal.Proposed]
<1>1. CASE d = c
  BY <1>1, KeepsRefl
<1>2. CASE d # c
  <2>1. d = enterPrevote(c1, c.Height, c.Round) /\ proposal.Proposed \in ValidData
    BY <1>2 DEF defaultSetProposal
  <2>2. proposal.Proposed \in Data \cup {None} /\ IsCore(c)
    BY <2>1, AppAssumption DEF Inv
  <2>3. /\ IsCore(c1) /\ Frame(c, c1) /\ SameLock(c, c1) /\ Quiet(c, c1)
        /\ c1.Round = c.Round /\ c1.Step = c.Step /\ c1.Votes = c.Votes
        /\ c1.ticker = c.ticker
    BY <2>2, ProposalResult
  <2>11. c.Round \in Nat /\ c.Round <= c.Round /\ c.Step # 10 /\ Pos(c1) = Pos(c)
    BY <2>2, <2>3, Numbers DEF Inv, NotCommitting, RoundStepCommit, Pos, Frame
  <2>12. Keeps(c, c1, K)
    <3>1. /\ VotesOK(c1.Votes, committee(c)) /\ SameAnswers(c.Votes, c1.Votes)
          /\ RoundsOK(c1.Votes, c1.Round, c1.Step) /\ c1.Step # RoundStepCommit
          /\ Timed(c, c1) /\ c.Round <= c1.Round
      BY <2>3, <2>11, SameAnswersRefl DEF Inv, Timed, RoundStepCommit
    <3> QED
      BY <2>3, <2>11, <3>1, MoveKeeps DEF Keeps
  <2>13. Inv(c1, K) /\ c.Round <= c1.Round
    BY <2>3, <2>11, <2>12 DEF Keeps, KeepsFrom
  <2> HIDE DEF c1
  <2>14. Keeps(c1, d, K) /\ Wakes(c1, d)
    BY <2>1, <2>11, <2>13, enterPrevoteKeeps
  <2> HIDE DEF d
  <2>15. Keeps(c, d, K)
    BY <2>2, <2>12, <2>14, KeepsTrans DEF Keeps
  <2>16. Wakes(c, d)
    BY <2>3, <2>11, <2>14 DEF Wakes
  <2> QED
    BY <2>15, <2>16 DEF d
<1> QED
  BY <1>1, <1>2

\* The lock after a polka, and what is precommitted.
LEMMA lockOnPolkaResult ==
  ASSUME NEW c, IsCore(c), NEW round \in Nat, NEW polkaData \in DataOrNil,
         c.LockedRound = -1 <=> c.LockedProposal = None
  PROVE  LET lock == lockOnPolka(c, round, polkaData)
         IN  /\ lock.round \in Nat \cup {-1} /\ lock.data \in Data \cup {None}
             /\ lock.precommit \in DataOrNil
             /\ lock.precommit # Nil => lock.precommit = polkaData
             /\ \/ /\ polkaData = Nil /\ lock.precommit = Nil
                   /\ lock.round = c.LockedRound /\ lock.data = c.LockedProposal
                \/ /\ polkaData # Nil /\ lock.precommit = polkaData
                   /\ lock.round = round /\ lock.data = polkaData
                \/ /\ polkaData # Nil /\ lock.precommit = Nil
                   /\ lock.round = -1 /\ lock.data = None
                   /\ c.LockedProposal # polkaData
<1>1. /\ c.LockedRound \in Nat \cup {-1} /\ c.LockedProposal \in Data \cup {None}
  BY CoreType
<1>2. None \notin DataOrNil /\ DataOrNil = Data \cup {Nil}
  BY ValueAssumption DEF DataOrNil
<1>3. CASE polkaData = Nil
  BY <1>1, <1>2, <1>3 DEF lockOnPolka
<1>4. CASE polkaData # Nil
  <2>1. polkaData \in Data /\ polkaData # None
    BY <1>2, <1>4
  <2> QED
    BY <1>1, <1>2, <1>4, <2>1 DEF lockOnPolka
<1> QED
  BY <1>3, <1>4

\* What enterPrecommit may leave: a new lock and a precommit for it.
Precommitted(c, d, w, polkaData) ==
  /\ IsCore(d) /\ Frame(c, d) /\ d.Votes = c.Votes
  /\ d.Round = c.Round /\ d.Step = RoundStepPrecommitFetch
  /\ d.ticker = ScheduleTimeout(c.ticker, Pos(d))
  /\ w \in Vote /\ w.Type = PrecommitType /\ w.Height = c.Height /\ w.Round = c.Round
  /\ w.Proposed # Nil => w.Proposed = polkaData
  /\ IF isValidator(c) THEN Signs(c, d, w) ELSE Quiet(c, d)
  /\ \/ polkaData = Nil /\ w.Proposed = Nil /\ SameLock(c, d)
     \/ /\ polkaData # Nil /\ w.Proposed = polkaData
        /\ d.LockedRound = c.Round /\ d.LockedProposal = polkaData
     \/ /\ polkaData # Nil /\ w.Proposed = Nil
        /\ d.LockedRound = -1 /\ d.LockedProposal = None
        /\ c.LockedProposal # polkaData

\* What enterPrecommit signs and locks when it does not return early.
LEMMA enterPrecommitResult ==
  ASSUME Assumptions, NEW K, NEW c, Inv(c, K), NEW height, NEW round \in Nat,
         c.panicked \/ round <= c.Round,
         ~Behind(c, height, round, RoundStepPrecommit),
         LET polkaData == Prevotes(c.Votes, c.Round).maj23
         IN  polkaData = Nil \/ POLRound(c.Votes) = c.Round
  PROVE  \E w : Precommitted(c, enterPrecommit(c, height, round), w,
                             Prevotes(c.Votes, c.Round).maj23)
<1> DEFINE d == enterPrecommit(c, height, round)
           polkaData == Prevotes(c.Votes, round).maj23
           lock == lockOnPolka(c, round, polkaData)
           c1 == [c EXCEPT !.LockedRound = lock.round, !.LockedProposal = lock.data]
           w  == NewVote(PrecommitType, c1.Height, round, lock.precommit,
                         c1.lastCommittedData, c1.self)
           s  == signAddVote(c1, PrecommitType, round, lock.precommit)
<1>1. IsCore(c) /\ (c.LockedRound = -1 <=> c.LockedProposal = None)
      /\ VotesOK(c.Votes, committee(c))
  BY DEF Inv, LockOK
<1>2. /\ c.Height \in Nat /\ c.Round \in Nat /\ c.Round \in Int /\ c.Step \in 1..10
      /\ committee(c) \in SUBSET Validators
  BY <1>1, Numbers, CommitteeType
<1>3. height = c.Height /\ round = c.Round /\ c.Step < 7 /\ ~c.panicked /\ round \in Int
  BY <1>2 DEF Behind, RoundStepPrecommit
<1>4. polkaData \in DataOrNil
  <2>1. SetOK(Prevotes(c.Votes, round), c.Votes.height, round, PrevoteType,
              c.Votes.base, committee(c))
    BY <1>1, <1>2, LookUp DEF Assumptions, Prevotes, VoteTypes
  <2> QED
    BY <2>1 DEF SetOK, VoteSets
<1>5. d = scheduleTimeout(updateRoundStep(updateRoundStep(s, round, 7), round, 8),
                          height, round, 8)
  BY <1>3 DEF enterPrecommit, enterPrecommitFetch, RoundStepPrecommit,
    RoundStepPrecommitFetch
<1> HIDE DEF d, polkaData
<1>6. /\ lock.round \in Nat \cup {-1} /\ lock.data \in Data \cup {None}
      /\ lock.precommit \in DataOrNil
      /\ lock.precommit # Nil => lock.precommit = polkaData
      /\ \/ /\ polkaData = Nil /\ lock.precommit = Nil
            /\ lock.round = c.LockedRound /\ lock.data = c.LockedProposal
         \/ /\ polkaData # Nil /\ lock.precommit = polkaData
            /\ lock.round = round /\ lock.data = polkaData
         \/ /\ polkaData # Nil /\ lock.precommit = Nil
            /\ lock.round = -1 /\ lock.data = None
            /\ c.LockedProposal # polkaData
  BY <1>1, <1>4, lockOnPolkaResult
<1> HIDE DEF lock
<1>7. /\ IsCore(c1) /\ Frame(c, c1) /\ Quiet(c, c1)
      /\ c1.LockedRound = lock.round /\ c1.LockedProposal = lock.data
      /\ c1.Round = c.Round /\ c1.Step = c.Step
      /\ c1.Votes = c.Votes /\ c1.ticker = c.ticker
  <2> DEFINE lr == lock.round
             ld == lock.data
  <2>1. lr \in Nat \cup {-1} /\ ld \in Data \cup {None}
    BY <1>6
  <2> HIDE DEF lr, ld
  <2>2. c1 = [c EXCEPT !.LockedRound = lr, !.LockedProposal = ld]
    BY DEF lr, ld
  <2> QED
    <3>3. IsCore(c)
      BY <1>1
    <3> DEFINE e == [c EXCEPT !.LockedRound = lr]
    <3>4. IsCore(e)
      BY ONLY <2>1, <3>3 DEF IsCore
    <3>5. c1 = [e EXCEPT !.LockedProposal = ld]
      BY <2>2
    <3> HIDE DEF e, c1
    <3>1. IsCore(c1)
      BY ONLY <2>1, <3>4, <3>5 DEF IsCore
    <3>2. /\ Frame(c, c1) /\ Quiet(c, c1) /\ c1.Round = c.Round /\ c1.Step = c.Step
          /\ c1.LockedRound = lr /\ c1.LockedProposal = ld
          /\ c1.Votes = c.Votes /\ c1.ticker = c.ticker
      BY ONLY <1>1, <2>2, Fields DEF Frame, Quiet
    <3> QED
      BY <3>1, <3>2 DEF lr, ld
<1> HIDE DEF c1
<1>8. /\ IsCore(s) /\ Frame(c1, s) /\ SameLock(c1, s)
      /\ s.Round = c1.Round /\ s.Step = c1.Step
      /\ s.Votes = c1.Votes /\ s.ticker = c1.ticker
      /\ w \in Vote /\ w.Type = PrecommitType /\ w.Height = c1.Height
      /\ w.Round = round /\ w.Proposed = lock.precommit
      /\ IF isValidator(c1) THEN Signs(c1, s, w) ELSE Quiet(c1, s)
  <2>1. IsCore(c1) /\ PrecommitType \in {PrevoteType, PrecommitType, ProposalType}
    BY <1>7
  <2>2. SignsOne(c1, PrecommitType, round, lock.precommit, s, w)
    BY <1>3, <1>6, <2>1, SignResult
  <2> QED
    BY <2>2 DEF SignsOne
<1> HIDE DEF s, w
<1>9. Entered(s, d, round, 8)
  <2>1. IsCore(s) /\ 7 \in 1..10 /\ 8 \in 1..10
    BY <1>8
  <2>2. updateRoundStep(updateRoundStep(s, round, 7), round, 8)
          = updateRoundStep(s, round, 8)
    BY <2>1, StepAgain
  <2>3. s.Height = height
    BY <1>3, <1>7, <1>8 DEF Frame
  <2>4. d = scheduleTimeout(updateRoundStep(s, round, 8), s.Height, round, 8)
    BY <1>5, <2>2, <2>3
  <2> QED
    BY <2>1, <2>4, TimedStep
<1>10. /\ IsCore(d) /\ Frame(s, d) /\ SameLock(s, d) /\ Quiet(s, d)
       /\ d.Round = round /\ d.Step = 8 /\ d.Votes = s.Votes
       /\ d.ticker = ScheduleTimeout(s.ticker, Pos(d))
  BY <1>9 DEF Entered
<1>11. /\ Frame(c, d) /\ d.Votes = c.Votes /\ d.ticker = ScheduleTimeout(c.ticker, Pos(d))
       /\ w.Height = c.Height /\ d.LockedRound = lock.round /\ d.LockedProposal = lock.data
  BY <1>7, <1>8, <1>10 DEF Frame, SameLock
<1>12. IF isValidator(c) THEN Signs(c, d, w) ELSE Quiet(c, d)
  <2>1. isValidator(c1) = isValidator(c)
    BY <1>7 DEF isValidator, committee, Frame
  <2> QED
    BY <1>7, <1>8, <1>10, <2>1 DEF Signs, Quiet
<1>13. Precommitted(c, d, w, polkaData)
  BY <1>3, <1>6, <1>8, <1>10, <1>11, <1>12 DEF Precommitted, SameLock, RoundStepPrecommitFetch
<1> QED
  BY <1>3, <1>13 DEF d, polkaData

\* A precommit keeps the history of locks: with a polka, whoever precommitted
\* other data before is released.
LEMMA PrecommitLocks ==
  ASSUME Assumptions, NEW K, NEW c, Inv(c, K), NEW d, NEW w, c.Step < 7,
         LET polkaData == Prevotes(c.Votes, c.Round).maj23
         IN  Precommitted(c, d, w, polkaData),
         Hist(c), LockHist(c, c.Round)
  PROVE  LockHist(d, d.Round)
<1> DEFINE polkaData == Prevotes(c.Votes, c.Round).maj23
<1>1. IsCore(c) /\ VotesOK(c.Votes, committee(c))
  BY DEF Inv
<1>2. /\ c.Height \in Nat /\ c.Round \in Nat /\ c.Step \in 1..10
      /\ committee(c) \in SUBSET Validators /\ c.sent \in SUBSET Vote
  BY <1>1, Numbers, CommitteeType, CoreType
<1>3. polkaData # Nil => polkaData \in Data /\ PolkaIn(c.Votes, committee(c), c.Round, polkaData)
  BY <1>1, <1>2, MajorityIsPolka DEF HasTwoThirdsMajority
<1>4. Precommitted(c, d, w, polkaData)
  OBVIOUS
<1> HIDE DEF polkaData
<1>5. /\ d.Height = c.Height /\ d.Votes = c.Votes /\ committee(d) = committee(c)
      /\ d.Round = c.Round /\ w.Type = PrecommitType /\ w.Height = c.Height
      /\ w.Round = c.Round /\ w \in Vote
      /\ w.Proposed # Nil => w.Proposed = polkaData
      /\ d.sent = c.sent \/ d.sent = c.sent \cup {w}
  BY <1>4 DEF Precommitted, Frame, committee, Signs, Quiet
<1>6. \/ polkaData = Nil /\ w.Proposed = Nil /\ SameLock(c, d)
      \/ /\ polkaData # Nil /\ w.Proposed = polkaData
         /\ d.LockedRound = c.Round /\ d.LockedProposal = polkaData
      \/ /\ polkaData # Nil /\ w.Proposed = Nil
         /\ d.LockedRound = -1 /\ d.LockedProposal = None
         /\ c.LockedProposal # polkaData
  BY <1>4 DEF Precommitted
<1>7. ASSUME NEW v \in c.sent, v.Type = PrecommitType, v.Height = c.Height
      PROVE  v.Round < c.Round /\ v.Round \in Int /\ v.Proposed \in DataOrNil
  <2>1. v.Round \in Int /\ v.Proposed \in DataOrNil
    BY <1>2 DEF Vote
  <2>2. v.Round < c.Round \/ (v.Round = c.Round /\ StepOf(v.Type) <= c.Step)
    BY <1>2, <1>7 DEF Hist, SentBefore, Pos
  <2>3. StepOf(v.Type) = 7
    BY <1>7 DEF StepOf, RoundStepPrecommit, ProposalType, PrevoteType, PrecommitType
  <2> QED
    BY <1>2, <2>1, <2>2, <2>3
<1>8. ASSUME NEW v \in c.sent, v.Type = PrecommitType, v.Height = c.Height, v.Proposed # Nil
      PROVE  \/ d.LockedProposal = v.Proposed /\ d.LockedRound >= v.Round
             \/ Released(v, c.Votes, committee(c), c.Round)
  <2>1. v.Round < c.Round /\ v.Round \in Int
    BY <1>7, <1>8
  <2>2. \/ c.LockedProposal = v.Proposed /\ c.LockedRound >= v.Round
        \/ Released(v, c.Votes, committee(c), c.Round)
    BY <1>8 DEF LockHist, LockHeld
  <2>3. CASE polkaData = Nil
    BY <1>6, <2>2, <2>3 DEF SameLock
  <2>4. CASE polkaData # Nil /\ v.Proposed # polkaData
    <3>1. c.Round \in (v.Round + 1)..c.Round /\ polkaData \in Data \ {v.Proposed}
      BY <1>2, <1>3, <2>1, <2>4
    <3> QED
      BY <1>3, <2>4, <3>1 DEF Released
  <2>5. CASE polkaData # Nil /\ v.Proposed = polkaData
    BY <1>2, <1>6, <2>1, <2>2, <2>5
  <2> QED
    BY <2>3, <2>4, <2>5
<1>9. LockHeld(d.sent, d.Height, d.LockedRound, d.LockedProposal, d.Votes,
               committee(d), d.Round)
  <2>1. ASSUME w.Proposed # Nil
        PROVE  d.LockedProposal = w.Proposed /\ d.LockedRound >= w.Round
    BY <1>2, <1>5, <1>6, <2>1
  <2> QED
    BY <1>5, <1>8, <2>1 DEF LockHeld
<1>10. LockObeyed(d.sent, d.Height, d.Votes, committee(d))
  <2>1. ASSUME NEW u \in c.sent, u.Height = c.Height PROVE ~(w.Round < u.Round)
    <3>1. u.Round \in Int /\ u.Round <= c.Round
      BY <1>2, <2>1 DEF Hist, SentBefore, Pos, Vote
    <3> QED
      BY <1>2, <1>5, <3>1
  <2>2. w.Type # PrevoteType
    BY <1>5 DEF PrevoteType, PrecommitType
  <2>3. LockObeyed(c.sent, c.Height, c.Votes, committee(c))
    BY DEF LockHist
  <2> QED
    BY <1>5, <2>1, <2>2, <2>3 DEF LockObeyed
<1> QED
  BY <1>9, <1>10 DEF LockHist

\* enterPrecommit keeps the invariant, and locks as the rules of the protocol
\* allow.
LEMMA enterPrecommitKeeps ==
  ASSUME Assumptions, NEW K, NEW c, Inv(c, K), NEW height, NEW round \in Nat,
         c.panicked \/ round <= c.Round
  PROVE  LET d == enterPrecommit(c, height, round)
         IN  /\ Keeps(c, d, K) /\ Wakes(c, d) /\ Stays(c, d) /\ d.Round = c.Round
             /\ ~Behind(c, height, round, RoundStepPrecommit) => Awake(d) \/ d.panicked
             /\ d.Step # RoundStepCommit \/ d.panicked
<1> DEFINE d == enterPrecommit(c, height, round)
           polkaData == Prevotes(c.Votes, c.Round).maj23
<1>1. IsCore(c) /\ VotesOK(c.Votes, committee(c))
  BY DEF Inv
<1>2. /\ c.Height \in Nat /\ c.Round \in Nat /\ c.Step \in 1..10
      /\ committee(c) \in SUBSET Validators
  BY <1>1, Numbers, CommitteeType
<1>3. CASE Behind(c, height, round, RoundStepPrecommit)
  <2>1. d = c
    BY <1>3 DEF enterPrecommit
  <2>2. c.Step # RoundStepCommit \/ c.panicked
    BY DEF Inv, NotCommitting
  <2> QED
    BY <1>3, <2>1, <2>2, KeepsRefl, SameAnswersRefl DEF Stays
<1>4. CASE ~Behind(c, height, round, RoundStepPrecommit)
  <2>1. height = c.Height /\ round = c.Round /\ c.Step < 7 /\ ~c.panicked
    BY <1>2, <1>4 DEF Behind, RoundStepPrecommit
  <2>2. polkaData # Nil => polkaData \in Data /\ PolkaIn(c.Votes, committee(c), c.Round, polkaData)
    BY <1>1, <1>2, MajorityIsPolka DEF HasTwoThirdsMajority
  <2>3. CASE polkaData # Nil /\ POLRound(c.Votes) # c.Round
    <3>1. d = PanicSanity(c)
      BY <1>4, <2>1, <2>3 DEF enterPrecommit
    <3>2. ~Safe(c, c.Round)
      <4>1. SUFFICES ASSUME Safe(c, c.Round) PROVE POLRound(c.Votes) = c.Round
        BY <2>3
      <4>2. c.Votes.round \in Nat /\ c.Round <= c.Votes.round
        BY <1>1, <1>2, HeightVoteSetType DEF VotesOK, Inv, RoundsOK
      <4>3. HasTwoThirdsMajority(Prevotes(c.Votes, c.Round))
        BY <2>3 DEF HasTwoThirdsMajority
      <4>4. ASSUME NEW r \in Nat, HasTwoThirdsMajority(Prevotes(c.Votes, r))
            PROVE  r <= c.Round
        <5>1. /\ Prevotes(c.Votes, r).maj23 \in Data
              /\ PolkaIn(c.Votes, committee(c), r, Prevotes(c.Votes, r).maj23)
          BY <1>1, <1>2, <4>4, MajorityIsPolka
        <5> QED
          BY <4>1, <5>1 DEF Safe, NoPolkaAfter
      <4> QED
        BY <1>2, <4>2, <4>3, <4>4, POLRoundIsLast
    <3>3. Keeps(c, PanicSanity(c), K) /\ Wakes(c, PanicSanity(c))
      BY <3>2, PanicKeeps
    <3>4. /\ PanicSanity(c).Height = c.Height /\ PanicSanity(c).app = c.app
          /\ PanicSanity(c).Votes = c.Votes /\ PanicSanity(c).Round = c.Round
          /\ PanicSanity(c).panicked = TRUE
      BY <1>1 DEF PanicSanity, IsCore
    <3> QED
      BY <3>1, <3>3, <3>4, SameAnswersRefl DEF Stays
  <2>4. CASE polkaData = Nil \/ POLRound(c.Votes) = c.Round
    <3>1. PICK w : Precommitted(c, d, w, polkaData)
      BY <1>4, <2>4, enterPrecommitResult
    <3> HIDE DEF d, polkaData
    <3>2. /\ IsCore(d) /\ Frame(c, d) /\ d.Votes = c.Votes
          /\ d.Round = c.Round /\ d.Step = 8
          /\ d.ticker = ScheduleTimeout(c.ticker, Pos(d))
          /\ w \in Vote /\ w.Type = PrecommitType /\ w.Height = c.Height
          /\ w.Round = c.Round /\ (w.Proposed # Nil => w.Proposed = polkaData)
      BY <3>1 DEF Precommitted, RoundStepPrecommitFetch
    <3>3. IF isValidator(c) THEN Signs(c, d, w) ELSE Quiet(c, d)
      BY <3>1 DEF Precommitted
    <3>4. \/ polkaData = Nil /\ w.Proposed = Nil /\ SameLock(c, d)
          \/ /\ polkaData # Nil /\ w.Proposed = polkaData
             /\ d.LockedRound = c.Round /\ d.LockedProposal = polkaData
          \/ /\ polkaData # Nil /\ w.Proposed = Nil
             /\ d.LockedRound = -1 /\ d.LockedProposal = None
             /\ c.LockedProposal # polkaData
      BY <3>1 DEF Precommitted
    <3>5. Before(Pos(c), Pos(d)) /\ d.Step \in TimedSteps /\ Timed(c, d)
          /\ d.Step # RoundStepCommit
      BY <1>2, <2>1, <3>2 DEF Before, Pos, Frame, TimedSteps, RoundStepPrecommitFetch,
        Timed, RoundStepCommit
    <3>6. InTurn(c, d, w)
      <4>1. StepOf(w.Type) = 7
        BY <3>2 DEF StepOf, RoundStepPrecommit, ProposalType, PrevoteType, PrecommitType
      <4> QED
        BY <1>2, <2>1, <3>2, <4>1 DEF InTurn
    <3>7. c.sent \subseteq d.sent /\ SameAnswers(c.Votes, d.Votes)
      BY <3>2, <3>3, SameAnswersRefl DEF Signs, Quiet
    <3>8. LockOK(d.LockedRound, d.LockedProposal, c.Height, d.Round, d.Votes,
                 committee(c), d.sent, c.self)
      <4>1. CASE SameLock(c, d)
        BY <3>2, <3>7, <4>1 DEF Inv, LockOK, SameLock
      <4>2. CASE d.LockedRound = -1 /\ d.LockedProposal = None
        BY <4>2 DEF LockOK
      <4>3. CASE /\ polkaData # Nil /\ w.Proposed = polkaData
                 /\ d.LockedRound = c.Round /\ d.LockedProposal = polkaData
        <5>1. polkaData # None /\ c.Round # -1 /\ c.Round <= c.Round
          BY <1>2, <2>2, <4>3, ValueAssumption DEF DataOrNil, polkaData
        <5>2. PolkaIn(c.Votes, committee(c), c.Round, polkaData)
          BY <2>2, <4>3 DEF polkaData
        <5>3. c.self \in committee(c) => w \in d.sent
          BY <3>3 DEF isValidator, Signs
        <5> QED
          BY <3>2, <4>3, <5>1, <5>2, <5>3 DEF LockOK
      <4> QED
        BY <3>4, <4>1, <4>2, <4>3
    <3>9. VotesKnown(d.Votes, K \cup d.sent)
      <4>1. K \cup c.sent \subseteq K \cup d.sent /\ VotesKnown(c.Votes, K \cup c.sent)
        BY <3>7 DEF Inv
      <4> QED
        BY <3>7, <4>1, VotesStayKnown
    <3>10. Inv(d, K) /\ Advances(c, d) /\ (HasLast(c) => HasLast(d))
      <4>1. /\ VotesOK(d.Votes, committee(c)) /\ RoundsOK(d.Votes, d.Round, d.Step)
            /\ d.Votes.height = c.Votes.height /\ d.Votes.base = c.Votes.base
            /\ Quiet(c, d) \/ \E u : Signs(c, d, u)
            /\ d.LockedRound \in {-1, c.LockedRound} \/ d.LockedRound >= c.Round
        BY <1>2, <3>2, <3>3, <3>4 DEF Inv, RoundsOK, RoundStepNewHeight, SameLock
      <4> QED
        BY <3>2, <3>5, <3>8, <3>9, <4>1, MoveInv
    <3>11. Hist(c) => Hist(d)
      <4>1. Grows(c.Votes, d.Votes)
        BY <3>2 DEF Grows
      <4>2. w.Proposed # Nil => PolkaIn(d.Votes, committee(c), d.Round, w.Proposed)
        BY <2>2, <3>2 DEF polkaData
      <4>3. VotesOK(d.Votes, committee(c))
        BY <1>1, <3>2
      <4> QED
        BY <1>1, <3>2, <3>3, <3>5, <3>6, <4>1, <4>2, <4>3, MoveHist
    <3>12. Safe(c, c.Round) => Safe(d, d.Round)
      BY <1>1, <1>2, <3>2, <3>7, SafeMoves
    <3>13. Hist(c) /\ LockHist(c, c.Round) => LockHist(d, d.Round)
      BY <2>1, <3>1, PrecommitLocks DEF polkaData
    <3>14. Awake(d)
      BY <3>2, <3>5, MoveWakes
    <3> QED
      BY <3>2, <3>5, <3>7, <3>10, <3>11, <3>12, <3>13, <3>14
         DEF Keeps, KeepsFrom, Wakes, Stays, Frame, d
  <2> QED
    BY <2>3, <2>4
<1> QED
  BY <1>3, <1>4

-----------------------------------------------------------------------------
(***************************************************************************)
(* Commit.                                                                 *)
(***************************************************************************)

\* The votes of a majority decide.
LEMMA MajorityDecides ==
  ASSUME Assumptions, NEW height \in Nat, NEW voters \in SUBSET CommitteeAt(height),
         PowerOf[voters] >= Quorum(CommitteeAt(height))
  PROVE  DecidedBy(height, voters)
<1>1. CommitteeAt(height) \in SUBSET Validators
  BY DEF Assumptions, CommitteesOK
<1>2. voters \in SUBSET Validators /\ voters \cap CommitteeAt(height) = voters
  BY <1>1
<1>3. PowerOf[voters] \in Nat
  BY <1>2, PowerNat
<1> QED
  BY <1>1, <1>2, <1>3, QuorumIsExact DEF Assumptions, DecidedBy

\* More voters decide as well.
LEMMA DecidedByMore ==
  ASSUME Assumptions, NEW height \in Nat, NEW voters, NEW more, voters \subseteq more,
         DecidedBy(height, voters)
  PROVE  DecidedBy(height, more)
<1> DEFINE m == CommitteeAt(height)
<1>1. m \in SUBSET Validators
  BY DEF Assumptions, CommitteesOK
<1>2. /\ voters \cap m \in SUBSET Validators /\ more \cap m \in SUBSET Validators
      /\ voters \cap m \subseteq more \cap m
  BY <1>1
<1>3. /\ PowerOf[voters \cap m] \in Nat /\ PowerOf[more \cap m] \in Nat
      /\ PowerOf[m] \in Nat
      /\ PowerOf[voters \cap m] <= PowerOf[more \cap m]
  BY <1>1, <1>2, PowerNat, PowerMonotone
<1>4. 3 * PowerOf[voters \cap m] > 2 * PowerOf[m]
  BY DEF DecidedBy
<1> HIDE DEF m
<1>5. 3 * PowerOf[more \cap m] > 2 * PowerOf[m]
  BY <1>3, <1>4
<1> QED
  BY <1>5 DEF DecidedBy, m

\* rec is the evidence that the votes of vs decide a height.
RecordOf(rec, vs, height, base) ==
  /\ rec \in Commits /\ CommitIsValid(rec) /\ CommitHeight(rec) = height
  /\ rec.ProposedData = vs.maj23 /\ rec.Prev = base
  /\ rec.Precommits = VotesFor(vs, vs.maj23)
  /\ {v.Address : v \in rec.Precommits} = vs.votes[vs.maj23]
  /\ DecidedBy(height, vs.votes[vs.maj23])

\* MakeCommit collects the evidence.
LEMMA CommitRecord ==
  ASSUME Assumptions, NEW height \in Nat, NEW round \in Int, NEW base \in DataOrNil,
         NEW vs, SetOK(vs, height, round, PrecommitType, base, CommitteeAt(height)),
         vs.maj23 # Nil
  PROVE  RecordOf(MakeCommit(vs), vs, height, base)
<1> DEFINE rec   == MakeCommit(vs)
           e     == vs.maj23
           voters == vs.votes[e]
           S     == VotesFor(vs, e)
<1>1. /\ vs \in VoteSets /\ vs.height = height /\ vs.round = round
      /\ vs.type_ = PrecommitType /\ vs.base = base
      /\ CommitteeAt(height) \in SUBSET Validators
  BY DEF SetOK, Assumptions, CommitteesOK
<1>2. e \in Data /\ e \in DataOrNil
  BY <1>1 DEF VoteSets, DataOrNil
<1>3. voters \subseteq CommitteeAt(height) /\ PowerOf[voters] >= Quorum(CommitteeAt(height))
  BY <1>2 DEF SetOK
<1>4. DecidedBy(height, voters)
  BY <1>3, MajorityDecides
<1>5. voters # {}
  <2>1. ~(PowerOf[{}] >= Quorum(CommitteeAt(height)))
    <3>1. PrecommitType \in VoteTypes
      BY DEF VoteTypes
    <3> QED
      BY <1>1, <3>1, NewVoteSetOK DEF Assumptions
  <2> QED
    BY <1>3, <2>1
<1>6. S = {NewVote(PrecommitType, height, round, e, base, v) : v \in voters}
  BY <1>1 DEF VotesFor
<1>7. rec.ProposedData = e /\ rec.Prev = base /\ rec.Precommits = S
      /\ rec = [ProposedData |-> e, Prev |-> base, Precommits |-> S]
  BY <1>1 DEF MakeCommit
<1> HIDE DEF rec, S, voters, e
<1>8. ASSUME NEW v \in S
      PROVE  /\ v \in Vote /\ v.Type = PrecommitType /\ v.Height = height
             /\ v.Round = round /\ v.Proposed = e /\ v.Prev = base
             /\ v.Address \in voters
             /\ v = NewVote(PrecommitType, height, round, e, base, v.Address)
  <2>1. PICK a \in voters : v = NewVote(PrecommitType, height, round, e, base, a)
    BY <1>6
  <2>2. a \in Nodes
    BY <1>1, <1>3, ValueAssumption
  <2>3. /\ v.Type = PrecommitType /\ v.Height = height /\ v.Round = round
        /\ v.Proposed = e /\ v.Prev = base /\ v.Address = a
    BY <2>1 DEF NewVote
  <2>4. v \in Vote
    BY <1>2, <2>1, <2>2 DEF NewVote, Vote
  <2> QED
    BY <2>1, <2>3, <2>4
<1>9. \A a \in voters : NewVote(PrecommitType, height, round, e, base, a) \in S
                        /\ NewVote(PrecommitType, height, round, e, base, a).Address = a
  BY <1>6 DEF NewVote
<1>10. S # {}
  BY <1>5, <1>9
<1>11. rec \in Commits
  BY <1>2, <1>7, <1>8 DEF Commits
<1>12. CommitIsValid(rec)
  <2>1. \A v, w \in S : w.Address = v.Address => w = v
    BY <1>8
  <2>2. rec.ProposedData # Nil /\ rec.Precommits # {}
    BY <1>2, <1>7, <1>10, ValueAssumption
  <2>3. \A v \in S : /\ v.Type = PrecommitType /\ v.Prev = base /\ v.Proposed = e
                     /\ v.Height = height /\ v.Round = round
    BY <1>8
  <2>4. \A v \in rec.Precommits \ {None} :
          /\ v.Type = PrecommitType
          /\ v.Prev = rec.Prev
          /\ v.Proposed = rec.ProposedData
          /\ \A w \in rec.Precommits \ {None} :
               /\ w.Height = v.Height
               /\ w.Round = v.Round
               /\ w.Address = v.Address => w = v
    BY <1>7, <2>1, <2>3
  <2> QED
    BY <2>2, <2>4 DEF CommitIsValid
<1>13. CommitHeight(rec) = height
  <2>1. (CHOOSE v \in S : TRUE) \in S
    BY <1>10
  <2>2. S \ {None} = S
    BY <1>8, ValueAssumption
  <2> QED
    BY <1>7, <1>8, <1>10, <2>1, <2>2 DEF CommitHeight
<1>14. {v.Address : v \in rec.Precommits} = voters
  <2>1. \A a \in voters : \E v \in S : a = v.Address
    BY <1>9
  <2> QED
    BY <1>7, <1>8, <2>1
<1> QED
  BY <1>4, <1>7, <1>11, <1>12, <1>13, <1>14 DEF RecordOf, rec, S, voters, e

\* What is left of a core that has committed, and of one whose application
\* refused the commit.  lc is the set of the precommits.
Committed(c, d, lc) ==
  /\ IsCore(d)
  /\ d.self = c.self /\ d.Height = c.Height + 1 /\ d.Round = 0
  /\ d.Step = RoundStepNewHeight
  /\ d.LockedRound = -1 /\ d.LockedProposal = None /\ d.CommitRound = -1
  /\ d.LastCommit = lc /\ d.lastCommittedData = lc.maj23
  /\ d.Votes = NewHeightVoteSet(c.Height + 1, lc.maj23)
  /\ d.app.LastHeight = c.Height /\ d.app.LastProposedData = lc.maj23
  /\ d.commits = c.commits \cup {MakeCommit(lc)}
  /\ d.msgQueue = c.msgQueue /\ d.todo = c.todo /\ d.sent = c.sent
  /\ d.ticker = ScheduleTimeout(c.ticker, [Height |-> c.Height + 1, Round |-> 0,
                                           Step |-> RoundStepNewHeight])
  /\ d.panicked = FALSE

Refused(c, d) ==
  /\ IsCore(d)
  /\ d.self = c.self /\ d.Height = c.Height /\ d.Round = c.Round
  /\ d.Step = RoundStepCommit /\ SameLock(c, d) /\ Quiet(c, d)
  /\ d.LastCommit = c.LastCommit /\ d.lastCommittedData = c.lastCommittedData
  /\ d.Votes = c.Votes /\ d.app = c.app /\ d.commits = c.commits /\ d.todo = c.todo
  /\ d.ticker = ScheduleTimeout(c.ticker, [Height |-> c.Height, Round |-> 0,
                                           Step |-> RoundStepNewHeight])
  /\ d.panicked = TRUE

\* doCommit up to updateToAppState: the step, the broadcast and the Commit.
HandedTo(c, d, rec, commitRound) ==
  /\ IsCore(d)
  /\ d.self = c.self /\ d.Height = c.Height /\ d.Round = c.Round
  /\ d.Step = RoundStepCommit /\ SameLock(c, d) /\ Quiet(c, d)
  /\ d.LastCommit = c.LastCommit /\ d.lastCommittedData = c.lastCommittedData
  /\ d.Votes = c.Votes /\ d.todo = c.todo /\ d.ticker = c.ticker
  /\ d.CommitRound = commitRound /\ d.panicked = c.panicked
  /\ IF c.app.accepts
     THEN /\ d.commits = c.commits \cup {rec}
          /\ d.app.LastHeight = c.Height
          /\ d.app.LastProposedData = rec.ProposedData
     ELSE d.commits = c.commits /\ d.app = c.app

\* The part of enterCommit and finalizeCommit up to the application's Commit.
LEMMA HandedOver ==
  ASSUME NEW c, IsCore(c), NEW commitRound \in Nat, NEW rec \in Commits,
         rec = MakeCommit(Precommits(c.Votes, commitRound))
  PROVE  LET c2 == updateRoundStep([c EXCEPT !.CommitRound = commitRound],
                                   c.Round, RoundStepCommit)
             b  == IF c2.hasRecvCommitRecords THEN c2
                   ELSE [c2 EXCEPT !.announced = @ \cup {rec}]
         IN  /\ HandedTo(c, Commit(b, rec), rec, commitRound)
             /\ rec = MakeCommit(Precommits(c2.Votes, c2.CommitRound))
<1> DEFINE c2 == updateRoundStep([c EXCEPT !.CommitRound = commitRound],
                                 c.Round, RoundStepCommit)
           ann == c2.announced \cup {rec}
           b  == IF c2.hasRecvCommitRecords THEN c2
                 ELSE [c2 EXCEPT !.announced = @ \cup {rec}]
           d  == Commit(b, rec)
<1>1. /\ IsCore(c2) /\ c2.self = c.self /\ c2.Height = c.Height /\ c2.Round = c.Round
      /\ c2.Step = 10 /\ SameLock(c, c2) /\ Quiet(c, c2)
      /\ c2.LastCommit = c.LastCommit /\ c2.lastCommittedData = c.lastCommittedData
      /\ c2.Votes = c.Votes /\ c2.todo = c.todo /\ c2.ticker = c.ticker
      /\ c2.CommitRound = commitRound /\ c2.panicked = c.panicked
      /\ c2.app = c.app /\ c2.commits = c.commits
  <2> DEFINE c1 == [c EXCEPT !.CommitRound = commitRound]
  <2>1. /\ IsCore(c1) /\ c1.self = c.self /\ c1.Height = c.Height
        /\ c1.Round = c.Round /\ SameLock(c, c1) /\ Quiet(c, c1)
        /\ c1.LastCommit = c.LastCommit /\ c1.lastCommittedData = c.lastCommittedData
        /\ c1.Votes = c.Votes /\ c1.todo = c.todo /\ c1.ticker = c.ticker
        /\ c1.CommitRound = commitRound /\ c1.panicked = c.panicked
        /\ c1.app = c.app /\ c1.commits = c.commits
    BY DEF IsCore, SameLock, Quiet
  <2> HIDE DEF c1
  <2>2. c.Round \in Nat /\ 10 \in 1..10 /\ IsCore(c1)
    BY <2>1, Numbers
  <2>3. Stepped(c1, c2, c.Round, 10)
    BY <2>2, StepResult DEF c1, RoundStepCommit
  <2> HIDE DEF c2
  <2> QED
    BY <2>1, <2>3 DEF Stepped, Frame, SameLock, Quiet
<1> HIDE DEF c2
<1>2. ann \in SUBSET Commits
  BY <1>1, CoreType
<1>3. b = c2 \/ b = [c2 EXCEPT !.announced = ann]
  OBVIOUS
<1> HIDE DEF b, ann
<1>4. /\ IsCore(b) /\ b.self = c.self /\ b.Height = c.Height /\ b.Round = c.Round
      /\ b.Step = 10 /\ SameLock(c, b) /\ Quiet(c, b)
      /\ b.LastCommit = c.LastCommit /\ b.lastCommittedData = c.lastCommittedData
      /\ b.Votes = c.Votes /\ b.todo = c.todo /\ b.ticker = c.ticker
      /\ b.CommitRound = commitRound /\ b.panicked = c.panicked
      /\ b.app = c.app /\ b.commits = c.commits
  <2>1. CASE b = c2
    BY <1>1, <2>1
  <2>2. CASE b = [c2 EXCEPT !.announced = ann]
    <3>1. IsCore(b)
      BY <1>1, <1>2, <2>2, ZenonT(40) DEF IsCore
    <3> QED
      BY <1>1, <2>2, <3>1, ZenonT(40) DEF IsCore, SameLock, Quiet
  <2> QED
    BY <1>3, <2>1, <2>2
<1>5. rec = MakeCommit(Precommits(c2.Votes, c2.CommitRound))
  BY <1>1
<1>6. CASE ~c.app.accepts
  <2>1. d = b
    BY <1>4, <1>6 DEF Commit
  <2> QED
    BY <1>4, <1>5, <1>6, <2>1 DEF c2, b, RoundStepCommit, HandedTo
<1>7. CASE c.app.accepts
  <2> DEFINE e    == rec.ProposedData
             app  == [b.app EXCEPT !.LastHeight = b.Height, !.LastProposedData = e]
             recs == b.commits \cup {rec}
  <2>1. d = [b EXCEPT !.app = app, !.commits = recs]
    <3>1. d = [b EXCEPT !.app.LastHeight = b.Height, !.app.LastProposedData = e,
                        !.commits = recs]
      BY <1>4, <1>7 DEF Commit
    <3> QED
      BY <1>4, <3>1 DEF IsCore
  <2>2. /\ app \in [LastHeight : Nat, LastProposedData : DataOrNil, accepts : BOOLEAN]
        /\ app.LastHeight = c.Height /\ app.LastProposedData = e
        /\ recs \in SUBSET Commits /\ recs = c.commits \cup {rec}
    <3>1. /\ b.app \in [LastHeight : Nat, LastProposedData : DataOrNil, accepts : BOOLEAN]
          /\ b.Height \in Nat /\ b.Height = c.Height /\ b.commits \in SUBSET Commits
          /\ b.commits = c.commits
      BY <1>4, CoreType
    <3>2. e \in DataOrNil
      BY DEF Commits, DataOrNil
    <3> QED
      BY <3>1, <3>2
  <2> HIDE DEF app, recs, d
  <2>3. IsCore(d)
    <3>1. IsCore(b)
      BY <1>4
    <3>2. /\ app \in [LastHeight : Nat, LastProposedData : DataOrNil, accepts : BOOLEAN]
          /\ recs \in SUBSET Commits
      BY <2>2
    <3> QED
      BY ONLY <2>1, <3>1, <3>2 DEF IsCore
  <2>4. /\ d.self = c.self /\ d.Height = c.Height /\ d.Round = c.Round
        /\ d.Step = 10 /\ SameLock(c, d) /\ Quiet(c, d)
        /\ d.LastCommit = c.LastCommit /\ d.lastCommittedData = c.lastCommittedData
        /\ d.Votes = c.Votes /\ d.todo = c.todo /\ d.ticker = c.ticker
        /\ d.CommitRound = commitRound /\ d.panicked = c.panicked
        /\ d.app = app /\ d.commits = recs
    BY <1>4, <2>1 DEF IsCore, SameLock, Quiet
  <2> QED
    BY <1>5, <1>7, <2>2, <2>3, <2>4 DEF c2, b, d, RoundStepCommit, HandedTo
<1> QED
  BY <1>6, <1>7

\* The core stays one when updateToAppState sets the height and drops proposal
\* and lock.
LEMMA ResetType ==
  ASSUME NEW u, IsCore(u), NEW h \in Nat
  PROVE  IsCore([u EXCEPT !.Height = h, !.Proposal = None, !.LockedRound = -1,
                          !.LockedProposal = None])
<1> DEFINE e == [u EXCEPT !.Height = h, !.Proposal = None]
           f == [e EXCEPT !.LockedRound = -1, !.LockedProposal = None]
<1>1. None \in Data \cup {None} /\ -1 \in Nat \cup {-1}
  OBVIOUS
<1>2. IsCore(e)
  BY ONLY IsCore(u), h \in Nat, <1>1 DEF IsCore
<1> HIDE DEF e
<1>3. IsCore(f)
  BY ONLY <1>1, <1>2 DEF IsCore
<1>4. f = [u EXCEPT !.Height = h, !.Proposal = None, !.LockedRound = -1,
                    !.LockedProposal = None]
  BY DEF e
<1> QED
  BY <1>3, <1>4

\* updateToAppState in the middle of a commit.
LEMMA UpdateResult ==
  ASSUME Assumptions, NEW x, IsCore(x), x.CommitRound \in Nat, x.panicked = FALSE,
         Precommits(x.Votes, x.CommitRound) \in VoteSets,
         HasTwoThirdsMajority(Precommits(x.Votes, x.CommitRound))
  PROVE  /\ x.Height = x.app.LastHeight =>
              LET d == updateToAppState(x, x.app)
              IN  /\ IsCore(d)
                  /\ d.self = x.self /\ d.Height = x.Height + 1 /\ d.Round = 0
                  /\ d.Step = 1
                  /\ d.LockedRound = -1 /\ d.LockedProposal = None /\ d.CommitRound = -1
                  /\ d.LastCommit = Precommits(x.Votes, x.CommitRound)
                  /\ d.lastCommittedData = x.app.LastProposedData
                  /\ d.Votes = NewHeightVoteSet(x.Height + 1, x.app.LastProposedData)
                  /\ d.app = x.app /\ d.commits = x.commits
                  /\ Quiet(x, d) /\ d.todo = x.todo /\ d.ticker = x.ticker
                  /\ d.panicked = FALSE
         /\ x.Height = x.app.LastHeight + 1 =>
              updateToAppState(x, x.app) = PanicSanity(x)
<1>1. x.Votes # None
  BY DEF Assumptions, NilPointsNowhere, IsCore
<1>2. /\ x.app.LastHeight \in Nat /\ x.app.LastProposedData \in DataOrNil
      /\ x.Height \in Nat /\ 0 \in Nat /\ 1 \in 1..10
  BY CoreType
<1>3. ASSUME x.Height = x.app.LastHeight + 1
      PROVE  updateToAppState(x, x.app) = PanicSanity(x)
  BY <1>2, <1>3 DEF updateToAppState, unexpectedHeight
<1>4. CASE x.Height = x.app.LastHeight
  <2> DEFINE h  == x.app.LastHeight + 1
             b  == x.app.LastProposedData
             lc == lastPrecommits(x)
             vs == NewHeightVoteSet(h, b)
             u  == updateRoundStep(x, 0, 1)
             d  == updateToAppState(x, x.app)
  <2>1. d = [u EXCEPT !.Height = h, !.Proposal = None, !.LockedRound = -1,
                      !.LockedProposal = None, !.CommitRound = -1, !.LastCommit = lc,
                      !.lastCommittedData = b, !.Votes = vs]
    BY <1>2, <1>4 DEF updateToAppState, unexpectedHeight, RoundStepNewHeight
  <2>2. lc = Precommits(x.Votes, x.CommitRound) /\ lc \in VoteSets \cup {None}
    BY <1>1 DEF lastPrecommits
  <2>3. h \in Nat /\ h = x.Height + 1 /\ b \in DataOrNil
    BY <1>2, <1>4
  <2>4. IsHeightVoteSet(vs)
    <3>1. CommitteeAt(h) \in SUBSET Validators /\ NoOverflow
      BY <2>3 DEF Assumptions, CommitteesOK
    <3> QED
      BY <2>3, <3>1, NewHeightOK DEF VotesOK
  <2>5. Stepped(x, u, 0, 1)
    BY <1>2, StepResult
  <2> HIDE DEF h, b, lc, vs, u, d
  <2>6. IsCore(u) /\ u.Round = 0 /\ u.Step = 1
    BY <2>5 DEF Stepped
  <2>7. IsCore(d)
    <3> DEFINE e == [u EXCEPT !.Height = h, !.Proposal = None, !.LockedRound = -1,
                              !.LockedProposal = None]
    <3>1. IsCore(e)
      BY ONLY <2>3, <2>6, ResetType
    <3> HIDE DEF e
    <3>2. d = [e EXCEPT !.CommitRound = -1, !.LastCommit = lc,
                        !.lastCommittedData = b, !.Votes = vs]
      BY <2>1 DEF e
    <3>3. lc \in VoteSets \cup {None} /\ b \in DataOrNil
      BY <2>2, <2>3
    <3> QED
      BY ONLY <2>4, <3>1, <3>2, <3>3 DEF IsCore
  <2>8. /\ d.self = u.self /\ d.Height = h /\ d.Round = 0
        /\ d.Step = 1
        /\ d.LockedRound = -1 /\ d.LockedProposal = None /\ d.CommitRound = -1
        /\ d.LastCommit = lc /\ d.lastCommittedData = b /\ d.Votes = vs
        /\ d.app = u.app /\ d.commits = u.commits
        /\ Quiet(u, d) /\ d.todo = u.todo /\ d.ticker = u.ticker
        /\ d.panicked = u.panicked
    BY ONLY <2>1, <2>6 DEF IsCore, Quiet
  <2>9. /\ u.self = x.self /\ u.app = x.app /\ u.commits = x.commits
        /\ Quiet(x, u) /\ u.todo = x.todo /\ u.ticker = x.ticker
        /\ u.panicked = FALSE
    BY <2>5 DEF Stepped, Frame
  <2>10. x.Height # x.app.LastHeight + 1
    BY <1>2, <1>4
  <2>11. vs = NewHeightVoteSet(x.Height + 1, x.app.LastProposedData)
         /\ b = x.app.LastProposedData
    BY <2>3 DEF vs, b
  <2> QED
    BY <2>2, <2>3, <2>7, <2>8, <2>9, <2>10, <2>11 DEF d, Quiet
<1> QED
  BY <1>3, <1>4

\* doCommit: the next height, or a panic when the application refused.
LEMMA enterCommitResult ==
  ASSUME Assumptions, NEW K, NEW c, Inv(c, K), ~c.panicked, NEW commitRound \in Nat,
         HasTwoThirdsMajority(Precommits(c.Votes, commitRound))
  PROVE  LET d == enterCommit(c, c.Height, commitRound)
         IN  IF c.app.accepts THEN Committed(c, d, Precommits(c.Votes, commitRound))
             ELSE Refused(c, d)
<1> DEFINE lc  == Precommits(c.Votes, commitRound)
           rec == MakeCommit(lc)
           c2  == updateRoundStep([c EXCEPT !.CommitRound = commitRound],
                                  c.Round, RoundStepCommit)
           b   == IF c2.hasRecvCommitRecords THEN c2
                  ELSE [c2 EXCEPT !.announced = @ \cup {rec}]
           x   == Commit(b, rec)
           y   == updateToAppState(x, x.app)
           z   == [y EXCEPT !.hasRecvCommitRecords = FALSE]
           d   == enterCommit(c, c.Height, commitRound)
<1>1. /\ IsCore(c) /\ c.panicked = FALSE /\ c.Step # RoundStepCommit
      /\ c.Height = c.app.LastHeight + 1
      /\ VotesOK(c.Votes, committee(c)) /\ c.Votes.height = c.Height
      /\ committee(c) = CommitteeAt(c.Height)
  <2>1. IsCore(c)
    BY DEF Inv
  <2>2. c.panicked \in BOOLEAN
    BY <2>1, CoreType
  <2> QED
    BY <2>1, <2>2 DEF Inv, NotCommitting, AtHeight, committee
<1>2. c.Height \in Nat /\ c.Step \in 1..10 /\ ~(RoundStepCommit <= c.Step)
      /\ commitRound \in Int /\ c.Votes.base \in DataOrNil
  BY <1>1, Numbers, HeightVoteSetType DEF RoundStepCommit, VotesOK
<1>3. /\ SetOK(lc, c.Height, commitRound, PrecommitType, c.Votes.base,
               CommitteeAt(c.Height))
      /\ lc \in VoteSets /\ lc.maj23 # Nil
  <2>1. PrecommitType \in VoteTypes /\ NoOverflow /\ committee(c) \in SUBSET Validators
    BY <1>1, CommitteeType DEF VoteTypes, Assumptions
  <2>2. SetOK(lc, c.Height, commitRound, PrecommitType, c.Votes.base, CommitteeAt(c.Height))
    BY <1>1, <2>1, LookUp DEF Precommits
  <2> QED
    BY <2>2 DEF SetOK, HasTwoThirdsMajority
<1>4. rec \in Commits /\ rec.ProposedData = lc.maj23
  <2>1. RecordOf(rec, lc, c.Height, c.Votes.base)
    BY <1>2, <1>3, CommitRecord
  <2> QED
    BY <2>1 DEF RecordOf
<1>11. rec = MakeCommit(Precommits(c.Votes, commitRound))
  OBVIOUS
<1> HIDE DEF rec
<1>5. d = scheduleRound0(z)
  <2>1. d = doCommit(c2)
    BY <1>1, <1>2 DEF enterCommit
  <2>2. MakeCommit(Precommits(c2.Votes, c2.CommitRound)) = rec
    BY <1>1, <1>4, <1>11, HandedOver
  <2> QED
    BY <2>1, <2>2 DEF doCommit
<1>6. /\ IsCore(x)
      /\ x.self = c.self /\ x.Height = c.Height /\ x.Round = c.Round
      /\ x.Step = RoundStepCommit /\ SameLock(c, x) /\ Quiet(c, x)
      /\ x.LastCommit = c.LastCommit
      /\ x.lastCommittedData = c.lastCommittedData
      /\ x.Votes = c.Votes /\ x.todo = c.todo /\ x.ticker = c.ticker
      /\ x.CommitRound = commitRound /\ x.panicked = c.panicked
      /\ IF c.app.accepts
         THEN /\ x.commits = c.commits \cup {rec}
              /\ x.app.LastHeight = c.Height
              /\ x.app.LastProposedData = rec.ProposedData
         ELSE x.commits = c.commits /\ x.app = c.app
  <2>1. HandedTo(c, x, rec, commitRound)
    BY <1>1, <1>4, <1>11, HandedOver
  <2> QED
    BY <2>1 DEF HandedTo
<1> HIDE DEF x
<1>7. /\ IsCore(x) /\ x.CommitRound \in Nat /\ x.panicked = FALSE
      /\ Precommits(x.Votes, x.CommitRound) = lc
      /\ Precommits(x.Votes, x.CommitRound) \in VoteSets
      /\ HasTwoThirdsMajority(Precommits(x.Votes, x.CommitRound))
  BY <1>1, <1>3, <1>6
<1> HIDE DEF rec, lc, d, y
<1>8. ASSUME IsCore(y)
      PROVE  /\ IsCore(d) /\ Frame(y, d) /\ SameLock(y, d) /\ Quiet(y, d)
             /\ d.Round = y.Round /\ d.Step = y.Step /\ d.Votes = y.Votes
             /\ d.ticker = ScheduleTimeout(y.ticker, [Height |-> y.Height,
                               Round |-> 0, Step |-> RoundStepNewHeight])
  <2>1. /\ IsCore(z) /\ Frame(y, z) /\ SameLock(y, z) /\ Quiet(y, z)
        /\ z.Round = y.Round /\ z.Step = y.Step /\ z.Votes = y.Votes
        /\ z.ticker = y.ticker
    <3>1. IsCore(z)
      BY ONLY <1>8, ZenonT(40) DEF IsCore
    <3> QED
      BY ONLY <1>8, <3>1, Fields DEF Frame, SameLock, Quiet
  <2> HIDE DEF z
  <2>2. IsCore(z) /\ z.Height \in Nat /\ 0 \in Nat /\ RoundStepNewHeight \in 1..10
    BY <2>1, Numbers DEF RoundStepNewHeight
  <2>3. Scheduled(z, d, [Height |-> z.Height, Round |-> 0, Step |-> RoundStepNewHeight])
    BY <1>5, <2>2, TimeResult DEF scheduleRound0
  <2> QED
    BY <2>1, <2>3 DEF Scheduled, Frame, SameLock, Quiet
<1>9. CASE c.app.accepts
  <2>1. x.Height = x.app.LastHeight
    BY <1>6, <1>9
  <2>2. /\ IsCore(y)
        /\ y.self = x.self /\ y.Height = x.Height + 1 /\ y.Round = 0
        /\ y.Step = 1
        /\ y.LockedRound = -1 /\ y.LockedProposal = None /\ y.CommitRound = -1
        /\ y.LastCommit = Precommits(x.Votes, x.CommitRound)
        /\ y.lastCommittedData = x.app.LastProposedData
        /\ y.Votes = NewHeightVoteSet(x.Height + 1, x.app.LastProposedData)
        /\ y.app = x.app /\ y.commits = x.commits
        /\ Quiet(x, y) /\ y.todo = x.todo /\ y.ticker = x.ticker
        /\ y.panicked = FALSE
    BY <1>7, <2>1, UpdateResult DEF y
  <2>3. Committed(c, d, lc)
    BY <1>4, <1>6, <1>7, <1>8, <1>9, <2>2
       DEF Committed, Frame, SameLock, Quiet, rec, RoundStepNewHeight
  <2> QED
    BY <1>9, <2>3 DEF d, lc
<1>10. CASE ~c.app.accepts
  <2>1. x.Height = x.app.LastHeight + 1
    BY <1>1, <1>6, <1>10
  <2>2. y = PanicSanity(x)
    BY <1>7, <2>1, UpdateResult DEF y
  <2>3. /\ IsCore(y)
        /\ y.self = x.self /\ y.Height = x.Height /\ y.Round = x.Round
        /\ y.Step = x.Step /\ SameLock(x, y) /\ Quiet(x, y)
        /\ y.LastCommit = x.LastCommit /\ y.lastCommittedData = x.lastCommittedData
        /\ y.Votes = x.Votes /\ y.app = x.app /\ y.commits = x.commits
        /\ y.todo = x.todo /\ y.ticker = x.ticker /\ y.panicked = TRUE
    BY ONLY <1>7, <2>2 DEF PanicSanity, IsCore, SameLock, Quiet
  <2>4. Refused(c, d)
    BY <1>6, <1>8, <1>10, <2>3 DEF Refused, Frame, SameLock, Quiet
  <2> QED
    BY <1>10, <2>4 DEF d
<1> QED
  BY <1>9, <1>10

\* The commits of the application, with one more.
LEMMA OneMoreCommit ==
  ASSUME NEW commits, NEW app, NEW known, CommitsOK(commits, app, known),
         app.LastHeight \in Nat,
         NEW new, NEW rec, CommitIsValid(rec), rec.Precommits \subseteq known,
         \A v \in rec.Precommits : v.sigOK,
         CommitHeight(rec) = app.LastHeight + 1, rec.Prev = app.LastProposedData,
         DecidedBy(CommitHeight(rec), {v.Address : v \in rec.Precommits}),
         new.LastHeight = app.LastHeight + 1, new.LastProposedData = rec.ProposedData
  PROVE  CommitsOK(commits \cup {rec}, new, known)
<1>1. ASSUME NEW old \in commits
      PROVE  /\ CommitOK(old, new, known) /\ CommitHeight(old) \in Nat
             /\ CommitHeight(old) <= app.LastHeight
             /\ CommitHeight(old) = app.LastHeight => old.ProposedData = app.LastProposedData
  <2>1. CommitOK(old, app, known)
    BY DEF CommitsOK
  <2> QED
    BY <2>1 DEF CommitOK
<1>2. CommitOK(rec, new, known)
  BY DEF CommitOK
<1>3. \A old, other \in commits :
        /\ CommitHeight(old) = CommitHeight(other) => old = other
        /\ CommitHeight(other) = CommitHeight(old) + 1 => other.Prev = old.ProposedData
  BY DEF CommitsOK
<1>4. ASSUME NEW old \in commits
      PROVE  /\ CommitHeight(old) # CommitHeight(rec)
             /\ CommitHeight(old) # CommitHeight(rec) + 1
             /\ CommitHeight(rec) = CommitHeight(old) + 1 => rec.Prev = old.ProposedData
  BY <1>1
<1>5. CommitHeight(rec) # CommitHeight(rec) + 1
  OBVIOUS
<1> QED
  BY <1>1, <1>2, <1>3, <1>4, <1>5 DEF CommitsOK

\* A core that has committed.
LEMMA CommittedKeeps ==
  ASSUME Assumptions, NEW K, NEW c, Inv(c, K), ~c.panicked, NEW d, NEW lc, NEW r \in Nat,
         lc = Precommits(c.Votes, r), lc.maj23 # Nil, Committed(c, d, lc)
  PROVE  Keeps(c, d, K) /\ Awake(d)
<1>1. /\ IsCore(c) /\ VotesOK(c.Votes, committee(c)) /\ c.Votes.height = c.Height
      /\ c.Height = c.app.LastHeight + 1 /\ c.Votes.base = c.app.LastProposedData
      /\ committee(c) = CommitteeAt(c.Height)
  BY DEF Inv, AtHeight, committee
<1>2. /\ c.Height \in Nat /\ c.Round \in Nat /\ c.Step \in 1..10 /\ r \in Int
      /\ c.Votes.base \in DataOrNil /\ c.sent \in SUBSET Vote
      /\ c.app.LastHeight \in Nat /\ c.Height + 1 \in Nat
      /\ committee(c) \in SUBSET Validators /\ NoOverflow
      /\ CommitteeAt(c.Height + 1) \in SUBSET Validators
  <2>1. c.Height + 1 \in Nat
    BY <1>1, Numbers
  <2> QED
    BY <1>1, <2>1, CoreType, CommitteeType, HeightVoteSetType
       DEF VotesOK, Assumptions, CommitteesOK
<1>3. SetOK(lc, c.Height, r, PrecommitType, c.Votes.base, CommitteeAt(c.Height))
  <2>1. PrecommitType \in VoteTypes
    BY DEF VoteTypes
  <2> QED
    BY <1>1, <1>2, <2>1, LookUp DEF Precommits
<1> DEFINE rec == MakeCommit(lc)
           e   == lc.maj23
<1>4. /\ CommitIsValid(rec) /\ CommitHeight(rec) = c.Height
      /\ rec.ProposedData = e /\ rec.Prev = c.Votes.base
      /\ rec.Precommits = VotesFor(lc, e)
      /\ {v.Address : v \in rec.Precommits} = lc.votes[e]
      /\ DecidedBy(c.Height, lc.votes[e])
  <2>1. RecordOf(rec, lc, c.Height, c.Votes.base)
    BY <1>2, <1>3, CommitRecord
  <2> QED
    BY <2>1 DEF RecordOf
<1>5. lc \in VoteSets /\ lc.height = c.Height /\ e \in DataOrNil /\ e # Nil /\ lc # None
  BY <1>3 DEF SetOK, VoteSets, Assumptions, NilPointsNowhere
<1> HIDE DEF rec, e
<1>6. /\ IsCore(d)
      /\ d.self = c.self /\ d.Height = c.Height + 1 /\ d.Round = 0
      /\ d.Step = 1
      /\ d.LockedRound = -1 /\ d.LockedProposal = None /\ d.CommitRound = -1
      /\ d.LastCommit = lc /\ d.lastCommittedData = e
      /\ d.Votes = NewHeightVoteSet(c.Height + 1, e)
      /\ d.app.LastHeight = c.Height /\ d.app.LastProposedData = e
      /\ d.commits = c.commits \cup {rec}
      /\ d.msgQueue = c.msgQueue /\ d.todo = c.todo /\ d.sent = c.sent
      /\ d.ticker = ScheduleTimeout(c.ticker, Pos(d))
      /\ d.panicked = FALSE
      /\ committee(d) = CommitteeAt(c.Height + 1)
  BY DEF Committed, rec, e, Pos, RoundStepNewHeight, committee
<1>7. /\ VotesOK(d.Votes, committee(d))
      /\ d.Votes.height = c.Height + 1 /\ d.Votes.base = e /\ d.Votes.round = 0
      /\ DOMAIN d.Votes.roundVoteSets = {0}
      /\ \A q \in Nat : \A t \in VoteTypes :
           getVoteSet(d.Votes, q, t) = NewVoteSet(c.Height + 1, q, t, e)
  BY <1>2, <1>5, <1>6, NewHeightOK
<1>8. ASSUME NEW q \in Nat, NEW t \in VoteTypes
      PROVE  /\ TotalOK(getVoteSet(d.Votes, q, t))
             /\ \A x \in DataOrNil : getVoteSet(d.Votes, q, t).votes[x] = {}
             /\ ~(PowerOf[{}] >= Quorum(committee(d)))
  BY <1>2, <1>5, <1>6, <1>7, NewVoteSetOK
<1>9. AtHeight(d.Height, d.lastCommittedData, d.app, d.Votes)
  BY <1>6, <1>7 DEF AtHeight
<1>10. RoundsOK(d.Votes, d.Round, d.Step)
  <2>1. watermark \in Nat /\ 0..0 = {0}
    BY AppAssumption
  <2> QED
    BY <1>6, <1>7, <2>1 DEF RoundsOK
<1>11. Before(Pos(c), Pos(d)) /\ d.Step \in TimedSteps
  BY <1>2, <1>6 DEF Before, Pos, TimedSteps, RoundStepNewHeight
<1>12. TicksOK(d.ticker, Pos(d)) /\ Awake(d)
  <2>1. /\ Pos(c) \in timeoutInfo /\ Pos(d) \in timeoutInfo
        /\ c.ticker \in TimeoutTickers /\ TicksOK(c.ticker, Pos(c))
        /\ Pos(d).Step = d.Step
    BY <1>1, <1>6, PosType, CoreType DEF Inv, Pos
  <2> QED
    BY <1>6, <1>11, <2>1, TicksMove DEF Awake
<1>13. NotCommitting(d.panicked, d.CommitRound, d.Step)
  BY <1>6 DEF NotCommitting, RoundStepCommit
<1>14. LockOK(d.LockedRound, d.LockedProposal, d.Height, d.Round, d.Votes,
              committee(d), d.sent, d.self)
  BY <1>6 DEF LockOK
<1>15. LastOK(d.LastCommit, d.Height, d.lastCommittedData)
  BY <1>4, <1>5, <1>6 DEF LastOK, e
<1>16. CommitsOK(d.commits, d.app, K \cup d.sent)
  <2>1. rec.Precommits \subseteq K \cup c.sent
    <3>1. lc = getVoteSet(c.Votes, r, PrecommitType) /\ PrecommitType \in VoteTypes
      BY DEF Precommits, VoteTypes
    <3> QED
      BY <1>4, <1>5, <3>1 DEF Inv, VotesKnown
  <2>2. CommitsOK(c.commits, c.app, K \cup c.sent)
    BY DEF Inv
  <2>3. \A v \in rec.Precommits : v.sigOK
    BY <1>4 DEF VotesFor, NewVote
  <2> QED
    BY <1>1, <1>2, <1>4, <1>6, <2>1, <2>2, <2>3, OneMoreCommit
<1>17. VotesKnown(d.Votes, K \cup d.sent)
  BY <1>8 DEF VotesKnown, VotesFor
<1>18. QueueKnown(d.msgQueue, d.sent) /\ d.todo \subseteq K \cup {None}
  BY <1>6 DEF Inv
<1>19. Inv(d, K)
  BY <1>6, <1>7, <1>9, <1>10, <1>12, <1>13, <1>14, <1>15, <1>16, <1>17, <1>18 DEF Inv
<1>20. Advances(c, d) /\ HasLast(d)
  BY <1>2, <1>5, <1>6 DEF Advances, HasLast
<1>21. ASSUME Hist(c), NEW v \in d.sent PROVE v.Height \in Nat /\ v.Height < d.Height
  <2>1. v \in c.sent /\ v.Height \in Nat /\ (v.Height < c.Height \/ v.Height = c.Height)
    BY <1>2, <1>6, <1>21 DEF Hist, SentBefore, Pos, Vote
  <2> QED
    BY <1>2, <1>6, <2>1
<1>22. ASSUME Hist(c) PROVE Hist(d) /\ LockHist(d, d.Round)
  <2>1. \A v \in d.sent : v.Height < d.Height /\ v.Height # d.Height
    BY <1>6, <1>2, <1>21, <1>22
  <2> QED
    BY <1>6, <1>22, <2>1
       DEF Hist, SentBefore, SentOnce, SentJustified, LockHist, LockHeld, LockObeyed, Pos
<1>23. Safe(d, d.Round)
  <2>1. TotalsOK(d.Votes)
    BY <1>8 DEF TotalsOK
  <2>2. NoPolkaAfter(d.Votes, committee(d), d.Round)
    <3>1. \A q \in Nat, x \in Data : ~PolkaIn(d.Votes, committee(d), q, x)
      BY <1>8 DEF PolkaIn, Prevotes, VoteTypes, DataOrNil
    <3> QED
      BY <3>1 DEF NoPolkaAfter
  <2> QED
    BY <1>6, <2>1, <2>2 DEF Safe
<1> QED
  BY <1>6, <1>12, <1>19, <1>20, <1>22, <1>23 DEF Keeps, KeepsFrom

\* A core whose application refused the commit.
LEMMA RefusedKeeps ==
  ASSUME Assumptions, NEW K, NEW c, Inv(c, K), ~c.panicked, ~c.app.accepts,
         NEW d, Refused(c, d)
  PROVE  Keeps(c, d, K)
<1>1. IsCore(c) /\ IsCore(d) /\ c.Step # 10
  BY DEF Inv, Refused, NotCommitting, RoundStepCommit
<1>2. /\ c.Height \in Nat /\ c.Round \in Nat /\ c.Step \in 1..10
      /\ c.LockedRound \in Int
  BY <1>1, Numbers
<1>3. /\ d.self = c.self /\ d.Height = c.Height /\ d.Round = c.Round /\ d.Step = 10
      /\ SameLock(c, d) /\ Quiet(c, d)
      /\ d.LastCommit = c.LastCommit /\ d.lastCommittedData = c.lastCommittedData
      /\ d.Votes = c.Votes /\ d.app = c.app /\ d.commits = c.commits /\ d.todo = c.todo
      /\ d.panicked = TRUE /\ committee(d) = committee(c)
  BY DEF Refused, committee, RoundStepCommit
<1>4. Before(Pos(c), Pos(d))
  BY <1>1, <1>2, <1>3 DEF Before, Pos
<1>5. TicksOK(d.ticker, Pos(d))
  <2> DEFINE q == [Height |-> c.Height, Round |-> 0, Step |-> 1]
  <2>1. /\ Pos(c) \in timeoutInfo /\ Pos(d) \in timeoutInfo
        /\ c.ticker \in TimeoutTickers /\ TicksOK(c.ticker, Pos(c))
        /\ d.ticker = ScheduleTimeout(c.ticker, q)
    BY <1>1, PosType, CoreType DEF Inv, Refused, RoundStepNewHeight
  <2>2. TicksOK(c.ticker, Pos(d))
    BY <1>4, <2>1, TicksMove
  <2>3. Before(q, Pos(d)) /\ q.Step \in TimedSteps
    BY <1>2, <1>3 DEF Before, Pos, TimedSteps, RoundStepNewHeight
  <2> HIDE DEF q
  <2>4. \/ d.ticker = c.ticker
        \/ d.ticker.ti = q /\ d.ticker.tocks = c.ticker.tocks
    BY <2>1 DEF ScheduleTimeout, TimeoutTickers
  <2> QED
    BY <2>2, <2>3, <2>4 DEF TicksOK
<1>6. RoundsOK(d.Votes, d.Round, d.Step)
  BY <1>3 DEF Inv, RoundsOK, RoundStepNewHeight
<1>7. Inv(d, K)
  BY <1>1, <1>3, <1>5, <1>6 DEF Inv, NotCommitting, SameLock, Quiet
<1>8. Advances(c, d) /\ (HasLast(c) => HasLast(d))
  BY <1>2, <1>3 DEF Advances, HasLast, SameLock
<1>9. Hist(c) => Hist(d)
  <2>1. d.sent = c.sent
    BY <1>3 DEF Quiet
  <2>2. ASSUME NEW v \in c.sent, StepOf(v.Type) <= c.Step PROVE StepOf(v.Type) <= 10
    <3>1. StepOf(v.Type) \in Int
      BY DEF StepOf, RoundStepPropose, RoundStepPrevote, RoundStepPrecommit
    <3> QED
      BY <1>2, <2>2, <3>1
  <2>3. SentBefore(c.sent, Pos(c)) => SentBefore(d.sent, Pos(d))
    BY <1>3, <2>1, <2>2 DEF SentBefore, Pos
  <2> QED
    BY <1>3, <2>1, <2>3 DEF Hist
<1>10. /\ Safe(c, c.Round) => Safe(d, d.Round)
       /\ LockHist(c, c.Round) => LockHist(d, d.Round)
  BY <1>3 DEF Safe, LockHist, SameLock, Quiet
<1> QED
  BY <1>3, <1>7, <1>8, <1>9, <1>10 DEF Keeps, KeepsFrom

\* enterCommit with a majority: the core commits, or panics.
LEMMA enterCommitKeeps ==
  ASSUME Assumptions, NEW K, NEW c, Inv(c, K), NEW height, NEW commitRound \in Nat,
         HasTwoThirdsMajority(Precommits(c.Votes, commitRound))
  PROVE  LET d == enterCommit(c, height, commitRound)
         IN  Keeps(c, d, K) /\ Wakes(c, d)
<1> DEFINE d == enterCommit(c, height, commitRound)
<1>1. CASE c.panicked \/ c.Height # height \/ RoundStepCommit <= c.Step
  <2>1. d = c
    BY <1>1 DEF enterCommit
  <2> QED
    BY <2>1, KeepsRefl
<1>2. CASE ~c.panicked /\ c.Height = height
  <2>1. IF c.app.accepts THEN Committed(c, d, Precommits(c.Votes, commitRound))
        ELSE Refused(c, d)
    BY <1>2, enterCommitResult
  <2>2. CASE c.app.accepts
    BY <1>2, <2>1, <2>2, CommittedKeeps DEF Wakes, HasTwoThirdsMajority
  <2>3. CASE ~c.app.accepts
    <3>1. Refused(c, d)
      BY <2>1, <2>3
    <3> HIDE DEF d
    <3>2. Keeps(c, d, K) /\ d.panicked
      BY <1>2, <2>3, <3>1, RefusedKeeps DEF Refused
    <3> QED
      BY <3>2 DEF Wakes, d
  <2> QED
    BY <2>2, <2>3
<1> QED
  BY <1>1, <1>2

-----------------------------------------------------------------------------
(***************************************************************************)
(* Votes.  A vote may bring a polka of a later round, and the core follows *)
(* to that round in the same call: Guarded takes what is safe up to round  *)
(* R of c to what is safe up to round S of d.                              *)
(***************************************************************************)
Basics(c, d, K) ==
  /\ Inv(d, K)
  /\ Advances(c, d)
  /\ d.self = c.self /\ (c.panicked => d.panicked)
  /\ HasLast(c) => HasLast(d)
  /\ Hist(c) => Hist(d)

Guarded(c, d, R, S) ==
  /\ Safe(c, R) => Safe(d, S)
  /\ Hist(c) /\ Safe(c, R) /\ LockHist(c, R) => LockHist(d, S)

\* Keeps in two halves.
LEMMA KeepsHalves ==
  ASSUME NEW c, NEW d, NEW K, NEW R
  PROVE  KeepsFrom(c, d, K, R) <=> Basics(c, d, K) /\ Guarded(c, d, R, d.Round)
BY DEF KeepsFrom, Basics, Guarded

\* One function after another.
LEMMA BasicsTrans ==
  ASSUME NEW c, NEW d, NEW e, NEW K, IsCore(c), Basics(c, d, K), Basics(d, e, K)
  PROVE  Basics(c, e, K)
<1>1. /\ c.Height \in Nat /\ d.Height \in Nat /\ e.Height \in Nat
      /\ c.Round \in Nat /\ d.Round \in Nat /\ e.Round \in Nat
      /\ c.Step \in Int /\ d.Step \in Int /\ e.Step \in Int
      /\ c.LockedRound \in Int /\ d.LockedRound \in Int /\ e.LockedRound \in Int
  BY Numbers DEF Basics, Inv
<1>2. Advances(c, e)
  BY <1>1 DEF Basics, Advances
<1> QED
  BY <1>2 DEF Basics

\* What holds as long as the totals fit, through two calls in a row.
LEMMA GuardedTrans ==
  ASSUME NEW c, NEW d, NEW e, NEW K, NEW Q, NEW R, NEW S,
         Basics(c, d, K), Guarded(c, d, Q, R), Guarded(d, e, R, S)
  PROVE  Guarded(c, e, Q, S)
BY DEF Basics, Guarded

\* A core that differs only in what the invariant does not look into.
Alike(c, d) ==
  /\ d.self = c.self /\ d.Height = c.Height /\ d.Round = c.Round /\ d.Step = c.Step
  /\ SameLock(c, d) /\ d.Votes = c.Votes /\ d.CommitRound = c.CommitRound
  /\ d.lastCommittedData = c.lastCommittedData
  /\ d.app.LastHeight = c.app.LastHeight
  /\ d.app.LastProposedData = c.app.LastProposedData
  /\ d.sent = c.sent /\ d.commits = c.commits /\ d.panicked = c.panicked

\* The invariant does not depend on what Alike leaves open.
LEMMA AlikeKeeps ==
  ASSUME NEW K, NEW c, NEW d, Inv(c, K), IsCore(d), Alike(c, d),
         TicksOK(d.ticker, Pos(c)),
         LastOK(d.LastCommit, c.Height, c.lastCommittedData),
         d.LastCommit = None => c.LastCommit = None,
         QueueKnown(d.msgQueue, c.sent), d.todo \subseteq K \cup {None},
         d.app.accepts => c.app.accepts
  PROVE  Keeps(c, d, K) /\ Pos(d) = Pos(c)
<1>1. IsCore(c)
  BY DEF Inv
<1>2. Pos(d) = Pos(c) /\ committee(d) = committee(c)
  BY DEF Alike, Pos, committee
<1>3. CommitsOK(d.commits, d.app, K \cup d.sent)
  BY DEF Inv, Alike, CommitsOK, CommitOK
<1>4. AtHeight(d.Height, d.lastCommittedData, d.app, d.Votes)
  BY DEF Inv, Alike, AtHeight
<1>5. Inv(d, K)
  BY <1>2, <1>3, <1>4 DEF Inv, Alike, SameLock
<1>6. Advances(c, d) /\ (HasLast(c) => HasLast(d))
  BY <1>1, Numbers DEF Advances, HasLast, Alike, SameLock
<1>7. /\ Hist(c) => Hist(d)
      /\ Safe(c, c.Round) => Safe(d, d.Round)
      /\ LockHist(c, c.Round) => LockHist(d, d.Round)
  BY <1>2 DEF Alike, Hist, Safe, LockHist, SameLock
<1> QED
  BY <1>2, <1>5, <1>6, <1>7 DEF Keeps, KeepsFrom, Alike

\* fetchMissingVotes sends a request and sets the timer of its step again.
LEMMA fetchMissingVotesKeeps ==
  ASSUME Assumptions, NEW K, NEW c, Inv(c, K)
  PROVE  LET d == fetchMissingVotes(c)
         IN  /\ Keeps(c, d, K) /\ Wakes(c, d)
             /\ c.Step \in {RoundStepPrevoteFetch, RoundStepPrecommitFetch} => Awake(d)
<1> DEFINE d == fetchMissingVotes(c)
<1>1. CASE c.Step \notin {RoundStepPrevoteFetch, RoundStepPrecommitFetch}
  <2>1. d = c
    BY <1>1 DEF fetchMissingVotes
  <2> QED
    BY <1>1, <2>1, KeepsRefl
<1>2. CASE c.Step \in {RoundStepPrevoteFetch, RoundStepPrecommitFetch}
  <2> DEFINE vs  == IF c.Step = RoundStepPrevoteFetch THEN Prevotes(c.Votes, c.Round)
                    ELSE Precommits(c.Votes, c.Round)
             req == MakeFetchVotesReq(vs)
             c1  == [c EXCEPT !.fvr = req]
  <2>1. /\ IsCore(c) /\ VotesOK(c.Votes, committee(c))
        /\ TicksOK(c.ticker, Pos(c)) /\ RoundsOK(c.Votes, c.Round, c.Step)
    BY DEF Inv
  <2>2. /\ c.Height \in Nat /\ c.Round \in Nat /\ c.Step \in 1..10
        /\ committee(c) \in SUBSET Validators /\ c.ticker \in TimeoutTickers
        /\ Pos(c) \in timeoutInfo
    BY <2>1, Numbers, CommitteeType, CoreType, PosType
  <2>3. vs \in VoteSets
    <3>1. \A t \in VoteTypes : getVoteSet(c.Votes, c.Round, t) \in VoteSets
      BY <2>1, <2>2, LookUp DEF Assumptions, SetOK
    <3> QED
      BY <3>1 DEF Prevotes, Precommits, VoteTypes
  <2> HIDE DEF vs
  <2>4. req \in FetchVotesReqs
    BY <2>3, FetchVotesReqType DEF FetchVotesReqs, VoteTypes
  <2>5. d = scheduleTimeout(c1, c.Height, c.Round, c.Step)
    BY <1>2 DEF fetchMissingVotes, vs
  <2> HIDE DEF req, d
  <2>6. IsCore(c1)
    BY ONLY <2>1, <2>4 DEF IsCore
  <2>7. /\ Frame(c, c1) /\ SameLock(c, c1) /\ Quiet(c, c1)
        /\ c1.Round = c.Round /\ c1.Step = c.Step /\ c1.Votes = c.Votes
        /\ c1.ticker = c.ticker
    BY ONLY <2>1 DEF IsCore, Frame, SameLock, Quiet
  <2> HIDE DEF c1
  <2>8. Scheduled(c1, d, [Height |-> c.Height, Round |-> c.Round, Step |-> c.Step])
    BY <2>2, <2>5, <2>6, TimeResult
  <2>9. /\ IsCore(d) /\ Frame(c, d) /\ SameLock(c, d) /\ Quiet(c, d)
        /\ d.Round = c.Round /\ d.Step = c.Step /\ d.Votes = c.Votes
        /\ d.ticker = ScheduleTimeout(c.ticker, Pos(c))
    BY <2>7, <2>8 DEF Scheduled, Frame, SameLock, Quiet, Pos
  <2>10. /\ Pos(d) = Pos(c) /\ Timed(c, d) /\ d.Step # RoundStepCommit
         /\ Pos(c).Step \in {RoundStepPrevoteFetch, RoundStepPrecommitFetch}
    BY <1>2, <2>9 DEF Pos, Frame, Timed, TimedSteps, RoundStepCommit,
      RoundStepPrevoteFetch, RoundStepPrecommitFetch
  <2>11. Keeps(c, d, K)
    <3>1. /\ VotesOK(d.Votes, committee(c)) /\ SameAnswers(c.Votes, d.Votes)
          /\ RoundsOK(d.Votes, d.Round, d.Step)
          /\ c.Round <= c.Round /\ c.Round <= d.Round
      BY <2>1, <2>2, <2>9, SameAnswersRefl
    <3> QED
      BY <2>2, <2>9, <2>10, <3>1, MoveKeeps DEF Keeps
  <2>12. Awake(d)
    BY <2>1, <2>2, <2>9, <2>10, TicksMove DEF Awake
  <2> QED
    BY <2>11, <2>12 DEF Wakes, d
<1> QED
  BY <1>1, <1>2

\* A late precommit joins the evidence of the last commit.
LEMMA addLastCommitVoteKeeps ==
  ASSUME Assumptions, NEW K, NEW c, Inv(c, K), NEW vote \in Vote
  PROVE  LET d == addLastCommitVote(c, vote)
         IN  Keeps(c, d, K) /\ Wakes(c, d)
<1> DEFINE d     == addLastCommitVote(c, vote)
           res   == VoteSet_AddVote(c.LastCommit, vote, committee(c))
           vs    == res.vs
           added == [c EXCEPT !.LastCommit = vs]
<1>1. CASE \/ c.Step # RoundStepNewHeight \/ vote.Type # PrecommitType
           \/ c.LastCommit = None
  <2>1. d = c
    BY <1>1 DEF addLastCommitVote
  <2> QED
    BY <2>1, KeepsRefl
<1>2. CASE ~(\/ c.Step # RoundStepNewHeight \/ vote.Type # PrecommitType
             \/ c.LastCommit = None)
  <2>1. d = added \/ d = enterNewRound(added, c.Height, 0)
    BY <1>2 DEF addLastCommitVote
  <2>2. IsCore(c) /\ committee(c) \in SUBSET Validators /\ c.LastCommit \in VoteSets
    BY <1>2, CommitteeType, CoreType DEF Inv
  <2>3. /\ vs \in VoteSets /\ vs.height = c.LastCommit.height
        /\ c.LastCommit.maj23 # Nil => vs.maj23 = c.LastCommit.maj23
        /\ \A e \in DataOrNil : c.LastCommit.votes[e] \subseteq vs.votes[e]
    BY <2>2, AddVoteGrows
  <2> HIDE DEF vs
  <2>4. LastOK(vs, c.Height, c.lastCommittedData) /\ vs # None
    <3>1. /\ c.LastCommit.height + 1 = c.Height
          /\ c.LastCommit.maj23 = c.lastCommittedData /\ c.lastCommittedData # Nil
          /\ DecidedBy(c.LastCommit.height, c.LastCommit.votes[c.lastCommittedData])
      BY <1>2 DEF Inv, LastOK
    <3>2. c.lastCommittedData \in DataOrNil /\ c.LastCommit.height \in Nat
      BY <2>2, CoreType DEF VoteSets
    <3>3. DecidedBy(vs.height, vs.votes[c.lastCommittedData])
      BY <2>3, <3>1, <3>2, DecidedByMore
    <3> QED
      BY <2>3, <3>1, <3>3 DEF LastOK, Assumptions, NilPointsNowhere
  <2>5. IsCore(added)
    BY ONLY <2>2, <2>3 DEF IsCore
  <2>6. /\ Alike(c, added) /\ added.LastCommit = vs /\ added.ticker = c.ticker
        /\ added.msgQueue = c.msgQueue /\ added.todo = c.todo /\ added.app = c.app
    BY ONLY <2>2 DEF IsCore, Alike, SameLock
  <2> HIDE DEF added, d
  <2>7. Keeps(c, added, K) /\ Pos(added) = Pos(c)
    BY <2>4, <2>5, <2>6, AlikeKeeps DEF Inv
  <2>8. Inv(added, K) /\ added.Round \in Nat /\ 0 \in Nat
    BY <2>5, <2>7, Numbers DEF Keeps, KeepsFrom
  <2>9. Keeps(added, d, K) /\ Wakes(added, d)
    <3>1. CASE d = added
      BY <2>8, <3>1, KeepsRefl
    <3>2. CASE d = enterNewRound(added, c.Height, 0)
      BY <2>8, <3>2, enterNewRoundKeeps DEF Keeps
    <3> QED
      BY <2>1, <3>1, <3>2
  <2>10. Keeps(c, d, K)
    BY <2>2, <2>7, <2>9, KeepsTrans DEF Keeps
  <2> QED
    BY <2>6, <2>7, <2>9, <2>10 DEF Wakes, d
<1> QED
  BY <1>1, <1>2

\* Later rounds release as well.
LEMMA LockHistMore ==
  ASSUME NEW c, IsCore(c), NEW R \in Int, NEW S \in Int, R <= S, LockHist(c, R)
  PROVE  LockHist(c, S)
<1>1. \A v \in c.sent : v.Round \in Int
  BY CoreType DEF Vote
<1>2. ASSUME NEW v \in c.sent, Released(v, c.Votes, committee(c), R)
      PROVE  Released(v, c.Votes, committee(c), S)
  <2>1. v.Round \in Int
    BY <1>1
  <2>2. \A r \in (v.Round + 1)..R : r \in (v.Round + 1)..S
    BY <2>1
  <2> QED
    BY <1>2, <2>2 DEF Released
<1> QED
  BY <1>2 DEF LockHist, LockHeld

\* onPolka: whoever loses the lock is released.
Unlocked(c, d) ==
  /\ IsCore(d) /\ Frame(c, d) /\ Quiet(c, d) /\ d.Votes = c.Votes
  /\ d.Round = c.Round /\ d.Step = c.Step /\ d.ticker = c.ticker

\* The part of addedPrevote for a polka, which may release the lock.
LEMMA onPolkaKeeps ==
  ASSUME Assumptions, NEW K, NEW c, Inv(c, K), ~c.panicked, NEW voteRound \in Nat,
         HasTwoThirdsMajority(Prevotes(c.Votes, voteRound)),
         NEW R \in Nat, c.Round <= R, voteRound <= R
  PROVE  LET d == onPolka(c, voteRound, Prevotes(c.Votes, voteRound).maj23)
         IN  Unlocked(c, d) /\ Basics(c, d, K) /\ Guarded(c, d, R, R)
<1> DEFINE e  == Prevotes(c.Votes, voteRound).maj23
           d  == onPolka(c, voteRound, e)
           unlock == /\ c.LockedProposal # None
                     /\ c.LockedRound < voteRound
                     /\ c.LockedProposal # e
           lr == IF unlock THEN -1 ELSE c.LockedRound
           ld == IF unlock THEN None ELSE c.LockedProposal
           pr == IF voteRound = c.Round /\ c.Proposal # e THEN None ELSE c.Proposal
<1>1. /\ IsCore(c) /\ VotesOK(c.Votes, committee(c)) /\ c.Step # RoundStepCommit
      /\ RoundsOK(c.Votes, c.Round, c.Step)
      /\ VotesKnown(c.Votes, K \cup c.sent)
      /\ LockOK(c.LockedRound, c.LockedProposal, c.Height, c.Round, c.Votes,
                committee(c), c.sent, c.self)
  BY DEF Inv, NotCommitting
<1>2. /\ committee(c) \in SUBSET Validators /\ c.Round \in Nat
      /\ c.LockedRound \in Nat \cup {-1} /\ c.LockedProposal \in Data \cup {None}
      /\ c.Proposal \in Data \cup {None} /\ c.sent \in SUBSET Vote
  BY <1>1, CommitteeType, CoreType
<1>3. e \in Data /\ PolkaIn(c.Votes, committee(c), voteRound, e)
  BY <1>1, <1>2, MajorityIsPolka
<1>4. d = [c EXCEPT !.LockedRound = lr, !.LockedProposal = ld, !.Proposal = pr]
  BY DEF onPolka
<1> HIDE DEF e, d
<1>5. /\ lr \in Nat \cup {-1} /\ ld \in Data \cup {None} /\ pr \in Data \cup {None}
      /\ (lr = c.LockedRound /\ ld = c.LockedProposal) \/ (lr = -1 /\ ld = None /\ unlock)
  BY <1>2
<1> HIDE DEF lr, ld, pr
<1>6. /\ IsCore(d) /\ Frame(c, d) /\ Quiet(c, d) /\ d.Votes = c.Votes
      /\ d.Round = c.Round /\ d.Step = c.Step /\ d.ticker = c.ticker
      /\ d.LockedRound = lr /\ d.LockedProposal = ld
  <2>1. IsCore(d)
    BY ONLY <1>1, <1>4, <1>5, ZenonT(40) DEF IsCore
  <2> QED
    BY ONLY <1>1, <1>4, <2>1 DEF IsCore, Frame, Quiet
<1>7. Pos(d) = Pos(c) /\ committee(d) = committee(c) /\ d.sent = c.sent
      /\ d.Height = c.Height
  BY <1>6 DEF Pos, Frame, committee, Quiet
<1>8. LockOK(d.LockedRound, d.LockedProposal, c.Height, d.Round, d.Votes,
             committee(c), d.sent, c.self)
  BY <1>1, <1>5, <1>6, <1>7 DEF LockOK
<1>9. Inv(d, K) /\ Advances(c, d) /\ (HasLast(c) => HasLast(d))
  <2>1. /\ d.Votes.height = c.Votes.height /\ d.Votes.base = c.Votes.base
        /\ d.LockedRound \in {-1, c.LockedRound} /\ Timed(c, d)
        /\ VotesKnown(d.Votes, K \cup d.sent) /\ VotesOK(d.Votes, committee(c))
        /\ RoundsOK(d.Votes, d.Round, d.Step) /\ d.Step # RoundStepCommit
    BY <1>1, <1>5, <1>6, <1>7 DEF Timed
  <2> QED
    BY <1>6, <1>7, <1>8, <2>1, MoveInv
<1>10. /\ Hist(c) => Hist(d)
       /\ Safe(c, R) => Safe(d, R)
  BY <1>6, <1>7 DEF Hist, Safe, Frame
<1>11. ASSUME LockHist(c, R) PROVE LockHist(d, R)
  <2>1. ASSUME NEW v \in c.sent, v.Type = PrecommitType, v.Height = c.Height,
               v.Proposed # Nil
        PROVE  \/ ld = v.Proposed /\ lr >= v.Round
               \/ Released(v, c.Votes, committee(c), R)
    <3>1. \/ c.LockedProposal = v.Proposed /\ c.LockedRound >= v.Round
          \/ Released(v, c.Votes, committee(c), R)
      BY <1>11, <2>1 DEF LockHist, LockHeld
    <3>2. CASE unlock /\ c.LockedProposal = v.Proposed /\ c.LockedRound >= v.Round
      <4>1. v.Round \in Int
        BY <1>2 DEF Vote
      <4>2. voteRound \in (v.Round + 1)..R /\ e \in Data \ {v.Proposed}
        BY <1>2, <1>3, <3>2, <4>1
      <4> QED
        BY <1>3, <4>2 DEF Released
    <3> QED
      BY <1>5, <3>1, <3>2
  <2> QED
    BY <1>6, <1>7, <1>11, <2>1 DEF LockHist, LockHeld
<1>12. Unlocked(c, d)
  BY <1>6 DEF Unlocked
<1>13. Basics(c, d, K)
  BY <1>6, <1>9, <1>10 DEF Basics, Frame
<1>14. Guarded(c, d, R, R)
  BY <1>10, <1>11 DEF Guarded
<1> QED
  BY <1>12, <1>13, <1>14 DEF d, e

\* The only polka ahead of the core is in round r.
OnlyAhead(c, r) ==
  \A q \in Nat, x \in Data :
    PolkaIn(c.Votes, committee(c), q, x) => q <= c.Round \/ q = r

\* Without +2/3 prevotes in the round of the vote, nothing is ahead.
LEMMA NothingAhead ==
  ASSUME Assumptions, NEW K, NEW c, Inv(c, K), NEW r \in Nat, NEW R \in Nat,
         c.Round < r, c.Round <= R, OnlyAhead(c, r), Safe(c, R),
         ~HasTwoThirdsAny(Prevotes(c.Votes, r), committee(c))
  PROVE  /\ ~HasTwoThirdsMajority(Prevotes(c.Votes, r))
         /\ Safe(c, c.Round)
         /\ LockHist(c, R) => LockHist(c, c.Round)
<1>1. /\ IsCore(c) /\ VotesOK(c.Votes, committee(c))
  BY DEF Inv
<1>2. /\ committee(c) \in SUBSET Validators /\ c.Round \in Nat
      /\ c.sent \in SUBSET Vote
  BY <1>1, CommitteeType, CoreType
<1>3. ASSUME NEW x \in Data PROVE ~PolkaIn(c.Votes, committee(c), r, x)
  <2>1. Prevotes(c.Votes, r) \in VoteSets /\ NoOverflow /\ x \in DataOrNil
    BY <1>1, <1>2, LookUp DEF Assumptions, SetOK, Prevotes, VoteTypes, DataOrNil
  <2>2. TotalOK(Prevotes(c.Votes, r))
    BY DEF Safe, TotalsOK, Prevotes, VoteTypes
  <2> QED
    BY <1>2, <2>1, <2>2, QuorumIsAny DEF PolkaIn
<1>4. ~HasTwoThirdsMajority(Prevotes(c.Votes, r))
  BY <1>1, <1>2, <1>3, MajorityIsPolka
<1>5. \A q \in Nat, x \in Data : PolkaIn(c.Votes, committee(c), q, x) => q <= c.Round
  BY <1>3 DEF OnlyAhead
<1>6. Safe(c, c.Round)
  BY <1>5 DEF Safe, NoPolkaAfter
<1>7. ASSUME LockHist(c, R) PROVE LockHist(c, c.Round)
  <2>1. ASSUME NEW v \in c.sent, v.Type = PrecommitType, v.Height = c.Height,
               v.Proposed # Nil, Released(v, c.Votes, committee(c), R)
        PROVE  Released(v, c.Votes, committee(c), c.Round)
    <3>1. PICK q \in (v.Round + 1)..R, x \in Data \ {v.Proposed} :
             PolkaIn(c.Votes, committee(c), q, x)
      BY <2>1 DEF Released
    <3>2. v.Round \in Int
      BY <1>2 DEF Vote
    <3>3. q \in Int /\ q <= c.Round
      <4>1. CASE q \in Nat
        BY <1>5, <3>1, <4>1
      <4> QED
        BY <1>2, <3>1, <3>2, <4>1
    <3>4. q \in (v.Round + 1)..c.Round
      BY <1>2, <3>1, <3>2, <3>3
    <3> QED
      BY <3>1, <3>4 DEF Released
  <2> QED
    BY <1>7, <2>1 DEF LockHist, LockHeld
<1> QED
  BY <1>4, <1>6, <1>7

\* After a prevote was added.  R is the later one of its round and the core's.
LEMMA addedPrevoteKeeps ==
  ASSUME Assumptions, NEW K, NEW c, Inv(c, K), ~c.panicked, NEW vote, vote.Round \in Nat,
         NEW R \in Nat, \/ c.Round < vote.Round /\ R = vote.Round
                        \/ vote.Round <= c.Round /\ R = c.Round
  PROVE  LET d == addedPrevote(c, vote)
         IN  /\ Basics(c, d, K) /\ Wakes(c, d)
             /\ OnlyAhead(c, vote.Round) => Guarded(c, d, R, d.Round)
<1> DEFINE r  == vote.Round
           vs == Prevotes(c.Votes, r)
           polka == HasTwoThirdsMajority(vs)
           c1 == IF polka THEN onPolka(c, r, vs.maj23) ELSE c
           d  == addedPrevote(c, vote)
<1>1. IsCore(c) /\ c.Round \in Nat /\ c.Round <= R /\ r <= R /\ c.Step \in 1..10
  BY Numbers DEF Inv
<1>2. Unlocked(c, c1) /\ Basics(c, c1, K) /\ Guarded(c, c1, R, R)
  <2>1. CASE polka
    BY <1>1, <2>1, onPolkaKeeps
  <2>2. CASE ~polka
    <3>1. Unlocked(c, c)
      BY <1>1 DEF Unlocked, Frame, Quiet
    <3>2. Basics(c, c, K) /\ Guarded(c, c, R, R)
      BY KeepsRefl DEF Keeps, KeepsFrom, Basics, Guarded
    <3> QED
      BY <2>2, <3>1, <3>2
  <2> QED
    BY <2>1, <2>2
<1>3. ~polka => c1 = c
  OBVIOUS
<1> DEFINE skips == c.Round < r /\ HasTwoThirdsAny(vs, committee(c))
<1>4. \/ skips /\ d = enterNewRound(c1, c.Height, r)
      \/ /\ ~skips
         /\ \/ c.Round = r /\ d = enterPrecommit(c1, c.Height, r)
            \/ /\ c.Round = r /\ HasTwoThirdsAny(vs, committee(c))
               /\ d = enterPrevoteWait(c1, c.Height, r)
            \/ d = enterPrevote(c1, c.Height, c.Round)
            \/ d = c1
  BY DEF addedPrevote
<1> HIDE DEF c1, d
<1>5. /\ IsCore(c1) /\ Frame(c, c1) /\ c1.Votes = c.Votes
      /\ c1.Round = c.Round /\ c1.Step = c.Step /\ c1.ticker = c.ticker
      /\ c1.Height = c.Height /\ ~c1.panicked /\ Pos(c1) = Pos(c)
      /\ committee(c1) = committee(c) /\ Inv(c1, K)
  BY <1>2 DEF Unlocked, Frame, Pos, committee, Basics
<1>6. ASSUME Basics(c1, d, K), Wakes(c1, d) PROVE Basics(c, d, K) /\ Wakes(c, d)
  <2>1. Basics(c, d, K)
    BY <1>1, <1>2, <1>6, BasicsTrans
  <2> QED
    BY <1>5, <1>6, <2>1 DEF Wakes
<1>7. CASE skips
  <2>1. d = enterNewRound(c1, c.Height, r) /\ R = r
    BY <1>1, <1>4, <1>7
  <2>2. KeepsFrom(c1, d, K, R) /\ Wakes(c1, d)
    BY <1>1, <1>5, <2>1, enterNewRoundKeeps
  <2>3. Basics(c1, d, K) /\ Guarded(c1, d, R, d.Round)
    BY <2>2, KeepsHalves
  <2>4. Guarded(c, d, R, d.Round)
    BY <1>2, <2>3, GuardedTrans
  <2> QED
    BY <1>6, <2>2, <2>3, <2>4 DEF d
<1>8. CASE ~skips
  <2>1. Keeps(c1, d, K) /\ Wakes(c1, d)
    <3>1. CASE c.Round = r /\ d = enterPrecommit(c1, c.Height, r)
      <4>1. r <= c1.Round
        BY <1>1, <1>5, <3>1
      <4> QED
        BY <1>5, <3>1, <4>1, enterPrecommitKeeps
    <3>2. CASE /\ c.Round = r /\ HasTwoThirdsAny(vs, committee(c))
               /\ d = enterPrevoteWait(c1, c.Height, r)
      <4>1. r <= c1.Round /\ HasTwoThirdsAny(Prevotes(c1.Votes, r), committee(c1))
        BY <1>1, <1>5, <3>2
      <4> QED
        BY <1>5, <3>2, <4>1, enterPrevoteWaitKeeps
    <3>3. CASE d = enterPrevote(c1, c.Height, c.Round)
      <4>1. c.Round <= c1.Round
        BY <1>1, <1>5
      <4> QED
        BY <1>1, <1>5, <3>3, <4>1, enterPrevoteKeeps
    <3>4. CASE d = c1
      BY <1>5, <3>4, KeepsRefl
    <3> QED
      BY <1>4, <1>8, <3>1, <3>2, <3>3, <3>4
  <2>2. Basics(c1, d, K) /\ Guarded(c1, d, c1.Round, d.Round)
    BY <2>1, KeepsHalves DEF Keeps
  <2>3. ASSUME OnlyAhead(c, r) PROVE Guarded(c, c1, R, c1.Round)
    <3>1. CASE r <= c.Round
      <4>1. R = c1.Round
        BY <1>1, <1>5, <3>1
      <4> QED
        BY <1>2, <4>1
    <3>2. CASE c.Round < r
      <4>1. SUFFICES ASSUME Safe(c, R)
                     PROVE  Safe(c1, c1.Round) /\ (LockHist(c, R) => LockHist(c1, c1.Round))
        BY DEF Guarded
      <4>2. ~HasTwoThirdsAny(vs, committee(c))
        BY <1>8, <3>2
      <4>3. /\ ~HasTwoThirdsMajority(vs) /\ Safe(c, c.Round)
            /\ LockHist(c, R) => LockHist(c, c.Round)
        BY <1>1, <2>3, <3>2, <4>1, <4>2, NothingAhead
      <4> QED
        BY <1>3, <4>3
    <3> QED
      BY <1>1, <3>1, <3>2
  <2>4. OnlyAhead(c, r) => Guarded(c, d, R, d.Round)
    BY <1>2, <2>2, <2>3, GuardedTrans
  <2> QED
    BY <1>6, <2>1, <2>2, <2>4 DEF d
<1> QED
  BY <1>7, <1>8

\* After a precommit was added.
LEMMA addedPrecommitKeeps ==
  ASSUME Assumptions, NEW K, NEW c, Inv(c, K), ~c.panicked, NEW vote, vote.Round \in Nat
  PROVE  LET d == addedPrecommit(c, vote)
         IN  Keeps(c, d, K) /\ Wakes(c, d)
<1> DEFINE r  == vote.Round
           vs == Precommits(c.Votes, r)
           entered == enterNewRound(c, c.Height, r)
           pc   == enterPrecommit(entered, c.Height, r)
           done == enterCommit(pc, c.Height, r)
           next == enterNewRound(done, done.Height, 0)
           wait == enterPrecommitWait(entered, c.Height, r)
           d    == addedPrecommit(c, vote)
<1>1. IsCore(c) /\ c.Round \in Nat /\ c.Step \in 1..10 /\ 0 \in Nat
  BY Numbers DEF Inv
<1>2. /\ Keeps(c, entered, K) /\ Wakes(c, entered) /\ Stays(c, entered)
      /\ entered.panicked = c.panicked /\ entered.Round >= c.Round
      /\ ~Behind(c, c.Height, r, RoundStepNewRound) => entered.Round = r
  BY <1>1, enterNewRoundKeeps DEF Keeps
<1>3. Inv(entered, K) /\ entered.Round \in Nat
  BY <1>2, Numbers DEF Keeps, KeepsFrom, Inv
<1>4. r <= entered.Round
  <2>1. CASE Behind(c, c.Height, r, RoundStepNewRound)
    BY <1>1, <1>2, <1>3, <2>1 DEF Behind
  <2> QED
    BY <1>2, <1>3, <2>1
<1>5. \/ HasTwoThirdsMajority(vs) /\ (d = next \/ d = done)
      \/ HasTwoThirdsAny(vs, committee(c)) /\ d = wait
      \/ d = c
  BY DEF addedPrecommit
<1> HIDE DEF entered
<1>6. Keeps(entered, pc, K) /\ Wakes(entered, pc) /\ Stays(entered, pc)
  BY <1>3, <1>4, enterPrecommitKeeps
<1> HIDE DEF pc
<1>7. Keeps(c, pc, K) /\ Wakes(c, pc) /\ Stays(c, pc) /\ Inv(pc, K)
  <2>1. Keeps(c, pc, K)
    BY <1>1, <1>2, <1>6, KeepsTrans DEF Keeps
  <2>2. entered.panicked => pc.panicked
    BY <1>6 DEF Keeps, KeepsFrom
  <2>3. Wakes(c, pc)
    BY <1>2, <1>6, <2>2, WakesTrans
  <2> QED
    BY <1>2, <1>6, <2>1, <2>3, StaysTrans DEF Keeps, KeepsFrom
<1>8. ASSUME HasTwoThirdsMajority(vs)
      PROVE  Keeps(c, done, K) /\ Wakes(c, done) /\ Inv(done, K)
  <2>1. HasTwoThirdsMajority(Precommits(pc.Votes, r))
    BY <1>7, <1>8 DEF Stays, SameAnswers, Precommits, VoteTypes
  <2>2. Keeps(pc, done, K) /\ Wakes(pc, done)
    BY <1>7, <2>1, enterCommitKeeps
  <2> HIDE DEF done
  <2>3. Keeps(c, done, K)
    BY <1>1, <1>7, <2>2, KeepsTrans DEF Keeps
  <2>4. pc.panicked => done.panicked
    BY <2>2 DEF Keeps, KeepsFrom
  <2>5. Wakes(c, done)
    BY <1>7, <2>2, <2>4, WakesTrans
  <2> QED
    BY <2>3, <2>5 DEF Keeps, KeepsFrom
<1> HIDE DEF done
<1>9. CASE HasTwoThirdsMajority(vs) /\ d = next
  <2>1. done.Round \in Nat /\ Inv(done, K)
    BY <1>8, <1>9, Numbers DEF Inv
  <2>2. Keeps(done, next, K) /\ Wakes(done, next) /\ next.panicked = done.panicked
    BY <1>1, <2>1, enterNewRoundKeeps DEF Keeps
  <2> HIDE DEF next
  <2>3. Keeps(c, next, K)
    BY <1>1, <1>8, <1>9, <2>2, KeepsTrans DEF Keeps
  <2>4. Wakes(c, next)
    BY <1>8, <1>9, <2>2, WakesTrans
  <2> QED
    BY <1>9, <2>3, <2>4
<1>10. CASE HasTwoThirdsMajority(vs) /\ d = done
  BY <1>8, <1>10
<1>11. CASE HasTwoThirdsAny(vs, committee(c)) /\ d = wait
  <2>1. HasTwoThirdsAny(Precommits(entered.Votes, r), committee(entered))
    BY <1>2, <1>11 DEF Stays, SameAnswers, Precommits, VoteTypes, committee
  <2>2. Keeps(entered, wait, K) /\ Wakes(entered, wait)
    BY <1>3, <1>4, <2>1, enterPrecommitWaitKeeps
  <2> HIDE DEF wait
  <2>3. Keeps(c, wait, K)
    BY <1>1, <1>2, <2>2, KeepsTrans DEF Keeps
  <2>4. entered.panicked => wait.panicked
    BY <2>2 DEF Keeps, KeepsFrom
  <2>5. Wakes(c, wait)
    BY <1>2, <2>2, <2>4, WakesTrans
  <2> QED
    BY <1>11, <2>3, <2>5
<1>12. CASE d = c
  BY <1>12, KeepsRefl
<1> QED
  BY <1>5, <1>9, <1>10, <1>11, <1>12

\* The votes of a height after one more: nothing is lost, nothing but the vote
\* is gained, and no polka appears in another round.
LEMMA OneMoreVote ==
  ASSUME Assumptions, NEW members \in SUBSET Validators, NEW u, VotesOK(u, members),
         NEW vote \in Vote, vote.Round \in Nat, vote.Type \in VoteTypes,
         NEW known, vote \in known, VotesKnown(u, known)
  PROVE  LET w == HeightVoteSet_AddVote(u, vote, members).hvs
         IN  /\ VotesOK(w, members) /\ Grows(u, w) /\ VotesKnown(w, known)
             /\ w.height = u.height /\ w.base = u.base /\ w.round = u.round
             /\ \A r : r \in DOMAIN w.roundVoteSets
                         <=> r \in DOMAIN u.roundVoteSets \/ r = vote.Round
             /\ TotalsOK(u) /\ TotalsFit(u) => TotalsOK(w)
             /\ \A r \in Nat, x \in Data :
                  PolkaIn(w, members, r, x) =>
                    \/ PolkaIn(u, members, r, x)
                    \/ r = vote.Round /\ vote.Type = PrevoteType
             /\ ~HeightVoteSet_AddVote(u, vote, members).added => SameAnswers(u, w)
<1> DEFINE k   == vote.Round
           ty  == vote.Type
           res == HeightVoteSet_AddVote(u, vote, members)
           w   == res.hvs
           old == getVoteSet(u, k, ty)
           put == VoteSet_AddVote(old, vote, members)
           new == put.vs
<1>0. NoOverflow
  BY DEF Assumptions
<1>1. /\ VotesOK(w, members)
      /\ w.height = u.height /\ w.base = u.base /\ w.round = u.round
      /\ \A r : r \in DOMAIN w.roundVoteSets <=> r \in DOMAIN u.roundVoteSets \/ r = k
      /\ res.added = put.added
      /\ getVoteSet(w, k, ty) = new
      /\ \A r \in Nat : \A t \in VoteTypes :
           r # k \/ t # ty => getVoteSet(w, r, t) = getVoteSet(u, r, t)
  <2>1. OneSetChanged(u, vote, members)
    BY <1>0, HeightAddVoteOK
  <2> QED
    BY <2>1 DEF OneSetChanged
<1>2. SetOK(old, u.height, k, ty, u.base, members) /\ old \in VoteSets
  <2>1. SetOK(old, u.height, k, ty, u.base, members)
    BY <1>0, LookUp
  <2> QED
    BY <2>1 DEF SetOK
<1>3. /\ new \in VoteSets
      /\ new.height = old.height /\ new.round = old.round
      /\ new.type_ = old.type_ /\ new.base = old.base
      /\ \A e \in DataOrNil :
           /\ old.votes[e] \subseteq new.votes[e]
           /\ \A v \in new.votes[e] \ old.votes[e] :
                vote = NewVote(old.type_, old.height, old.round, e, old.base, v)
  BY <1>2, AddVoteGrows
<1>4. TotalOK(old) /\ TotalFits(old) => TotalOK(new)
  BY <1>2, AddVoteTotal
<1>5. ~put.added => new = old
  BY DEF VoteSet_AddVote
<1> HIDE DEF old, new, w, res, put
<1>6. Grows(u, w)
  <2>1. ASSUME NEW r \in Int, NEW e \in DataOrNil
        PROVE  Prevotes(u, r).votes[e] \subseteq Prevotes(w, r).votes[e]
    <3>1. CASE r \in Nat /\ (r # k \/ PrevoteType # ty)
      BY <1>1, <3>1 DEF Prevotes, VoteTypes
    <3>2. CASE r = k /\ PrevoteType = ty
      <4>1. Prevotes(u, r) = old /\ Prevotes(w, r) = new
        BY <1>1, <3>2 DEF Prevotes, old
      <4> QED
        BY <1>3, <4>1
    <3>3. CASE r \notin Nat
      <4>1. DOMAIN u.roundVoteSets \subseteq Nat /\ DOMAIN w.roundVoteSets \subseteq Nat
        BY <1>1, HeightVoteSetType DEF VotesOK
      <4> QED
        BY <1>1, <3>3, <4>1 DEF Prevotes, getVoteSet
    <3> QED
      BY <3>1, <3>2, <3>3
  <2> QED
    BY <2>1 DEF Grows
<1>7. VotesKnown(w, known)
  <2>1. ASSUME NEW e \in DataOrNil PROVE VotesFor(new, e) \subseteq known
    <3>1. VotesFor(old, e) \subseteq known
      BY DEF VotesKnown, old
    <3>2. ASSUME NEW v \in new.votes[e]
          PROVE  NewVote(new.type_, new.height, new.round, e, new.base, v) \in known
      <4>1. CASE v \in old.votes[e]
        <5>1. NewVote(old.type_, old.height, old.round, e, old.base, v) \in VotesFor(old, e)
          BY <4>1 DEF VotesFor
        <5> QED
          BY <1>3, <3>1, <5>1
      <4>2. CASE v \notin old.votes[e]
        <5>1. vote = NewVote(old.type_, old.height, old.round, e, old.base, v)
          BY <1>3, <4>2
        <5> QED
          BY <1>3, <5>1
      <4> QED
        BY <4>1, <4>2
    <3> QED
      BY <3>2 DEF VotesFor
  <2>2. ASSUME NEW r \in Nat, NEW t \in VoteTypes, NEW e \in DataOrNil
        PROVE  VotesFor(getVoteSet(w, r, t), e) \subseteq known
    <3>1. CASE r # k \/ t # ty
      BY <1>1, <3>1 DEF VotesKnown
    <3>2. CASE r = k /\ t = ty
      BY <1>1, <2>1, <3>2
    <3> QED
      BY <3>1, <3>2
  <2> QED
    BY <2>2 DEF VotesKnown
<1>8. ASSUME TotalsOK(u), TotalsFit(u) PROVE TotalsOK(w)
  <2>1. TotalOK(new)
    BY <1>4, <1>8 DEF TotalsOK, TotalsFit, old
  <2>2. ASSUME NEW r \in Nat, NEW t \in VoteTypes PROVE TotalOK(getVoteSet(w, r, t))
    <3>1. CASE r # k \/ t # ty
      BY <1>1, <1>8, <3>1 DEF TotalsOK
    <3>2. CASE r = k /\ t = ty
      BY <1>1, <2>1, <3>2
    <3> QED
      BY <3>1, <3>2
  <2> QED
    BY <2>2 DEF TotalsOK
<1>9. ASSUME NEW r \in Nat, NEW x \in Data, PolkaIn(w, members, r, x),
             r # k \/ ty # PrevoteType
      PROVE  PolkaIn(u, members, r, x)
  BY <1>1, <1>9 DEF PolkaIn, Prevotes, VoteTypes
<1>10. ASSUME ~res.added PROVE SameAnswers(u, w)
  <2>1. getVoteSet(w, k, ty) = getVoteSet(u, k, ty)
    BY <1>1, <1>5, <1>10 DEF old
  <2>2. ASSUME NEW r \in Nat, NEW t \in VoteTypes
        PROVE  getVoteSet(w, r, t) = getVoteSet(u, r, t)
    BY <1>1, <2>1
  <2> QED
    BY <1>1, <2>2 DEF SameAnswers
<1> QED
  BY <1>1, <1>6, <1>7, <1>8, <1>9, <1>10 DEF w, res

\* A core with one more vote: round R has to be the round of a prevote or later.
LEMMA VoteAdded ==
  ASSUME Assumptions, NEW K, NEW c, Inv(c, K), ~c.panicked,
         NEW vote \in Vote, vote \in K \cup c.sent, vote.Type \in VoteTypes,
         vote.Round \in Nat, vote.Round <= c.Round + watermark,
         NEW d, d = [c EXCEPT !.Votes = HeightVoteSet_AddVote(c.Votes, vote, committee(c)).hvs],
         NEW R \in Nat, c.Round <= R, vote.Type = PrevoteType => vote.Round <= R
  PROVE  /\ Basics(c, d, K) /\ Pos(d) = Pos(c) /\ d.ticker = c.ticker
         /\ d.panicked = c.panicked
         /\ TotalsFit(c.Votes) => Guarded(c, d, c.Round, R)
         /\ Safe(c, c.Round) => OnlyAhead(d, vote.Round)
         /\ ~HeightVoteSet_AddVote(c.Votes, vote, committee(c)).added => Keeps(c, d, K)
<1> DEFINE w == HeightVoteSet_AddVote(c.Votes, vote, committee(c)).hvs
<1>1. /\ IsCore(c) /\ VotesOK(c.Votes, committee(c)) /\ c.Step # RoundStepCommit
      /\ VotesKnown(c.Votes, K \cup c.sent)
      /\ RoundsOK(c.Votes, c.Round, c.Step)
      /\ LockOK(c.LockedRound, c.LockedProposal, c.Height, c.Round, c.Votes,
                committee(c), c.sent, c.self)
  BY DEF Inv, NotCommitting
<1>2. /\ committee(c) \in SUBSET Validators /\ c.Round \in Nat /\ watermark \in Nat
      /\ c.LockedRound \in Nat \cup {-1} /\ c.LockedProposal \in Data \cup {None}
  BY <1>1, CommitteeType, CoreType, AppAssumption
<1>3. /\ VotesOK(w, committee(c)) /\ Grows(c.Votes, w) /\ VotesKnown(w, K \cup c.sent)
      /\ w.height = c.Votes.height /\ w.base = c.Votes.base /\ w.round = c.Votes.round
      /\ \A r : r \in DOMAIN w.roundVoteSets
                  <=> r \in DOMAIN c.Votes.roundVoteSets \/ r = vote.Round
      /\ TotalsOK(c.Votes) /\ TotalsFit(c.Votes) => TotalsOK(w)
      /\ \A r \in Nat, x \in Data :
           PolkaIn(w, committee(c), r, x) =>
             \/ PolkaIn(c.Votes, committee(c), r, x)
             \/ r = vote.Round /\ vote.Type = PrevoteType
      /\ ~HeightVoteSet_AddVote(c.Votes, vote, committee(c)).added => SameAnswers(c.Votes, w)
  BY <1>1, <1>2, OneMoreVote
<1>4. d = [c EXCEPT !.Votes = w]
  OBVIOUS
<1> HIDE DEF w
<1>5. IsCore(d)
  <2>1. IsHeightVoteSet(w)
    BY <1>3 DEF VotesOK
  <2> QED
    BY ONLY <1>1, <1>4, <2>1 DEF IsCore
<1>6. /\ Frame(c, d) /\ SameLock(c, d) /\ Quiet(c, d) /\ d.Votes = w
      /\ d.Round = c.Round /\ d.Step = c.Step /\ d.ticker = c.ticker
  BY ONLY <1>1, <1>4 DEF IsCore, Frame, SameLock, Quiet
<1>7. /\ Pos(d) = Pos(c) /\ committee(d) = committee(c) /\ d.sent = c.sent
      /\ d.panicked = c.panicked /\ d.app = c.app /\ c.Round <= c.Round
      /\ Timed(c, d)
  BY <1>2, <1>6 DEF Pos, Frame, committee, Quiet, Timed
<1>8. RoundsOK(d.Votes, d.Round, d.Step)
  <2>1. \A r \in DOMAIN w.roundVoteSets : r <= c.Round + watermark \/ r <= c.Round + 1
    BY <1>1, <1>3 DEF RoundsOK
  <2>2. 0..w.round \subseteq DOMAIN w.roundVoteSets
    BY <1>1, <1>3 DEF RoundsOK
  <2> QED
    BY <1>1, <1>3, <1>6, <2>1, <2>2 DEF RoundsOK
<1>9. LockOK(d.LockedRound, d.LockedProposal, c.Height, d.Round, d.Votes,
             committee(c), d.sent, c.self)
  <2>1. LockOK(c.LockedRound, c.LockedProposal, c.Height, c.Round, w,
               committee(c), c.sent, c.self)
    BY <1>1, <1>2, <1>3, <1>7, LockKept
  <2> QED
    BY <1>6, <1>7, <2>1 DEF SameLock
<1>10. Inv(d, K) /\ Advances(c, d) /\ (HasLast(c) => HasLast(d))
  <2>1. /\ VotesOK(d.Votes, committee(c)) /\ VotesKnown(d.Votes, K \cup d.sent)
        /\ d.Votes.height = c.Votes.height /\ d.Votes.base = c.Votes.base
        /\ d.LockedRound \in {-1, c.LockedRound} /\ d.Step # RoundStepCommit
    BY <1>1, <1>3, <1>6, <1>7 DEF SameLock
  <2> QED
    BY <1>5, <1>6, <1>7, <1>8, <1>9, <2>1, MoveInv
<1>11. Hist(c) => Hist(d)
  BY <1>1, <1>3, <1>5, <1>6, <1>7, MoveHist
<1>12. Basics(c, d, K)
  BY <1>6, <1>10, <1>11 DEF Basics, Frame
<1>13. ASSUME Safe(c, c.Round) PROVE OnlyAhead(d, vote.Round)
  BY <1>3, <1>6, <1>7, <1>13 DEF OnlyAhead, Safe, NoPolkaAfter
<1>14. ASSUME Safe(c, c.Round), TotalsFit(c.Votes) PROVE Safe(d, R)
  <2>1. \A r \in Nat, x \in Data : PolkaIn(w, committee(c), r, x) => r <= R
    <3>1. ASSUME NEW r \in Nat, NEW x \in Data, PolkaIn(w, committee(c), r, x)
          PROVE  r <= R
      <4>1. r <= c.Round \/ (r = vote.Round /\ vote.Type = PrevoteType)
        BY <1>3, <1>14, <3>1 DEF Safe, NoPolkaAfter
      <4> QED
        BY <1>2, <4>1
    <3> QED
      BY <3>1
  <2> QED
    BY <1>3, <1>6, <1>7, <1>14, <2>1 DEF Safe, NoPolkaAfter
<1>15. ASSUME Hist(c), LockHist(c, c.Round) PROVE LockHist(d, R)
  <2>1. LockHist(d, d.Round)
    BY <1>1, <1>2, <1>3, <1>5, <1>6, <1>7, <1>15, MoveLock
  <2> QED
    BY <1>2, <1>5, <1>6, <2>1, LockHistMore
<1>16. ASSUME SameAnswers(c.Votes, w) PROVE Keeps(c, d, K)
  <2>1. /\ VotesOK(d.Votes, committee(c)) /\ SameAnswers(c.Votes, d.Votes)
        /\ d.Step # RoundStepCommit /\ c.Round <= d.Round
    BY <1>1, <1>3, <1>6, <1>7, <1>16
  <2> QED
    BY <1>2, <1>5, <1>6, <1>7, <1>8, <2>1, MoveKeeps DEF Keeps
<1>17. TotalsFit(c.Votes) => Guarded(c, d, c.Round, R)
  BY <1>14, <1>15 DEF Guarded
<1> QED
  BY <1>3, <1>6, <1>7, <1>12, <1>13, <1>16, <1>17

\* What handling anything does: it keeps a core in order, and safe as long as
\* its totals fit.
Handled(c, d, K) ==
  /\ Basics(c, d, K) /\ Wakes(c, d)
  /\ TotalsFit(c.Votes) => Guarded(c, d, c.Round, d.Round)

\* A call of an enter function is a way to handle a message.
LEMMA KeepsHandled ==
  ASSUME NEW c, NEW d, NEW K, Keeps(c, d, K), Wakes(c, d)
  PROVE  Handled(c, d, K)
BY KeepsHalves DEF Keeps, Handled

\* addVote, for whatever vote.
LEMMA addVoteKeeps ==
  ASSUME Assumptions, NEW K, NEW c, Inv(c, K), ~c.panicked,
         NEW vote \in Vote, vote \in K \cup c.sent
  PROVE  Handled(c, addVote(c, vote), K)
<1> DEFINE res   == HeightVoteSet_AddVote(c.Votes, vote, committee(c))
           added == [c EXCEPT !.Votes = res.hvs]
           d     == addVote(c, vote)
<1>1. CASE vote.Height + 1 = c.Height
  <2>1. d = addLastCommitVote(c, vote)
    BY <1>1 DEF addVote
  <2> QED
    BY <2>1, addLastCommitVoteKeeps, KeepsHandled
<1>2. CASE /\ vote.Height + 1 # c.Height
           /\ vote.Height # c.Height \/ (vote.Type # ProposalType /\ ErrVoteInvalidRound(c, vote))
  <2>1. d = c
    BY <1>2 DEF addVote
  <2> QED
    BY <2>1, KeepsRefl, KeepsHandled
<1>3. CASE /\ vote.Height + 1 # c.Height /\ vote.Height = c.Height
           /\ vote.Type = ProposalType
  <2>1. d = defaultSetProposal(c, vote)
    BY <1>3 DEF addVote
  <2> QED
    BY <2>1, defaultSetProposalKeeps, KeepsHandled
<1>4. CASE /\ vote.Height + 1 # c.Height /\ vote.Height = c.Height
           /\ vote.Type # ProposalType /\ ~ErrVoteInvalidRound(c, vote)
  <2>1. IsCore(c) /\ c.Round \in Nat /\ watermark \in Nat /\ c.Round <= c.Round
        /\ c.panicked \in BOOLEAN
    BY Numbers, CoreType, AppAssumption DEF Inv
  <2>2. vote.Type \in VoteTypes /\ vote.Round \in Nat /\ vote.Round <= c.Round + watermark
    BY <1>4, <2>1 DEF Vote, VoteTypes, ErrVoteInvalidRound
  <2> DEFINE R == IF vote.Type = PrevoteType /\ c.Round < vote.Round
                  THEN vote.Round ELSE c.Round
  <2>3. R \in Nat /\ c.Round <= R /\ (vote.Type = PrevoteType => vote.Round <= R)
    BY <2>1, <2>2
  <2>4. /\ Basics(c, added, K) /\ Pos(added) = Pos(c) /\ added.ticker = c.ticker
        /\ added.panicked = c.panicked
        /\ TotalsFit(c.Votes) => Guarded(c, added, c.Round, R)
        /\ Safe(c, c.Round) => OnlyAhead(added, vote.Round)
        /\ ~res.added => Keeps(c, added, K)
    BY <2>2, <2>3, VoteAdded
  <2>5. \/ ~res.added /\ d = added
        \/ vote.Type = PrevoteType /\ d = addedPrevote(added, vote)
        \/ vote.Type # PrevoteType /\ d = addedPrecommit(added, vote)
    BY <1>4 DEF addVote
  <2> HIDE DEF added, d, res
  <2>6. Inv(added, K) /\ ~added.panicked /\ added.Round = c.Round /\ added.Round \in Nat
    BY <2>1, <2>4 DEF Basics, Pos
  <2>7. CASE ~res.added /\ d = added
    <3>1. Keeps(c, d, K) /\ Wakes(c, d)
      BY <2>4, <2>7 DEF Wakes
    <3> QED
      BY <3>1, KeepsHandled DEF d
  <2>8. CASE vote.Type = PrevoteType /\ d = addedPrevote(added, vote)
    <3>1. /\ \/ added.Round < vote.Round /\ R = vote.Round
             \/ vote.Round <= added.Round /\ R = added.Round
          /\ vote.Round \in Nat
      BY <2>1, <2>2, <2>6, <2>8
    <3> HIDE DEF R
    <3>2. /\ Basics(added, d, K) /\ Wakes(added, d)
          /\ OnlyAhead(added, vote.Round) => Guarded(added, d, R, d.Round)
      BY <2>3, <2>6, <2>8, <3>1, addedPrevoteKeeps
    <3>3. Basics(c, d, K) /\ Wakes(c, d)
      <4>1. Basics(c, d, K)
        BY <2>1, <2>4, <3>2, BasicsTrans
      <4> QED
        BY <2>4, <3>2, <4>1 DEF Wakes
    <3>4. ASSUME TotalsFit(c.Votes) PROVE Guarded(c, d, c.Round, d.Round)
      <4>1. CASE Safe(c, c.Round)
        BY <2>4, <3>2, <3>4, <4>1, GuardedTrans
      <4>2. CASE ~Safe(c, c.Round)
        BY <4>2 DEF Guarded
      <4> QED
        BY <4>1, <4>2
    <3> QED
      BY <3>3, <3>4 DEF Handled, d
  <2>9. CASE vote.Type # PrevoteType /\ d = addedPrecommit(added, vote)
    <3>1. Keeps(added, d, K) /\ Wakes(added, d)
      BY <2>2, <2>6, <2>9, addedPrecommitKeeps
    <3>2. Basics(added, d, K) /\ Guarded(added, d, c.Round, d.Round)
      BY <2>6, <3>1, KeepsHalves DEF Keeps
    <3>3. Basics(c, d, K)
      BY <2>1, <2>4, <3>2, BasicsTrans
    <3>4. Wakes(c, d)
      BY <2>4, <3>1 DEF Wakes
    <3>5. R = c.Round
      BY <2>9
    <3>6. TotalsFit(c.Votes) => Guarded(c, d, c.Round, d.Round)
      BY <2>4, <3>2, <3>5, GuardedTrans
    <3> QED
      BY <3>3, <3>4, <3>6 DEF Handled, d
  <2> QED
    BY <2>5, <2>7, <2>8, <2>9
<1> QED
  BY <1>1, <1>2, <1>3, <1>4

\* The invariant of a core that was sent more votes.
LEMMA MoreHeard ==
  ASSUME NEW c, NEW K, NEW L, K \subseteq L, Inv(c, K)
  PROVE  Inv(c, L)
<1>1. K \cup c.sent \subseteq L \cup c.sent
  OBVIOUS
<1>2. CommitsOK(c.commits, c.app, L \cup c.sent)
  BY <1>1, CommitsKnown DEF Inv
<1>3. VotesKnown(c.Votes, L \cup c.sent)
  BY <1>1 DEF Inv, VotesKnown
<1> QED
  BY <1>2, <1>3 DEF Inv

\* A timeout that was received.  It is ignored unless it is for the position of
\* the core, and then the core moves on and waits for the next one.
LEMMA handleTimeoutKeeps ==
  ASSUME Assumptions, NEW K, NEW c, Inv(c, K), ~c.panicked, NEW ti \in c.ticker.tocks
  PROVE  LET d == handleTimeout(c, ti)
         IN  /\ Keeps(c, d, K)
             /\ \/ d.panicked \/ Awake(d)
                \/ ~Awake(c) /\ Pos(d) = Pos(c) /\ d.ticker.ti = c.ticker.ti
<1> DEFINE d    == handleTimeout(c, ti)
           left == c.ticker.tocks \ {ti}
           tk   == [c.ticker EXCEPT !.tocks = left]
           rec  == [c EXCEPT !.ticker.tocks = @ \ {ti}]
<1>1. /\ IsCore(c) /\ TicksOK(c.ticker, Pos(c)) /\ c.panicked = FALSE
      /\ c.Step = RoundStepNewHeight => c.Round = 0
  BY CoreType DEF Inv, RoundsOK
<1>2. /\ c.Height \in Nat /\ c.Round \in Nat /\ c.Step \in 1..10
      /\ c.ticker \in TimeoutTickers /\ ti \in timeoutInfo
  BY <1>1, CoreType DEF TimeoutTickers
<1>3. /\ tk \in TimeoutTickers /\ tk.ti = c.ticker.ti /\ tk.armed = c.ticker.armed
      /\ tk.tocks = left
  BY <1>2 DEF TimeoutTickers
<1>4. rec = [c EXCEPT !.ticker = tk]
  BY <1>1 DEF IsCore, TimeoutTickers
<1> HIDE DEF tk, rec
<1>5. IsCore(rec)
  BY ONLY <1>1, <1>3, <1>4 DEF IsCore
<1>6. /\ Alike(c, rec) /\ rec.ticker = tk /\ rec.LastCommit = c.LastCommit
      /\ rec.msgQueue = c.msgQueue /\ rec.todo = c.todo /\ rec.app = c.app
  BY ONLY <1>1, <1>4 DEF IsCore, Alike, SameLock
<1>7. TicksOK(rec.ticker, Pos(c))
  BY <1>1, <1>3, <1>6 DEF TicksOK
<1>8. Keeps(c, rec, K) /\ Pos(rec) = Pos(c)
  <2>1. /\ LastOK(rec.LastCommit, c.Height, c.lastCommittedData)
        /\ QueueKnown(rec.msgQueue, c.sent) /\ rec.todo \subseteq K \cup {None}
        /\ rec.LastCommit = None => c.LastCommit = None
        /\ rec.app.accepts => c.app.accepts
    BY <1>6 DEF Inv
  <2>2. Alike(c, rec)
    BY <1>6
  <2> QED
    BY <1>5, <1>7, <2>1, <2>2, AlikeKeeps
<1>9. /\ Inv(rec, K) /\ rec.Height = c.Height /\ rec.Round = c.Round
      /\ rec.Step = c.Step /\ rec.panicked = FALSE
  BY <1>1, <1>6, <1>8 DEF Keeps, KeepsFrom, Alike
<1>10. ASSUME Keeps(rec, d, K), d.panicked \/ Awake(d)
       PROVE  Keeps(c, d, K) /\ (d.panicked \/ Awake(d))
  <2> HIDE DEF d
  <2> QED
    BY <1>1, <1>8, <1>10, KeepsTrans DEF Keeps
<1>11. (Before(ti, Pos(c)) \/ ti = Pos(c)) /\ ti.Step \in TimedSteps
  BY <1>1 DEF TicksOK
<1>12. /\ ti.Height \in Nat /\ ti.Round \in Nat /\ ti.Step \in Int
  BY <1>2 DEF timeoutInfo, RoundStepCommit
<1>13. CASE ti # Pos(c)
  <2>1. d = rec
    <3>1. \/ ti.Height # c.Height \/ ti.Round < c.Round
          \/ ti.Round = c.Round /\ ti.Step < c.Step
      BY <1>2, <1>11, <1>12, <1>13 DEF Before, Pos
    <3> QED
      BY <3>1 DEF handleTimeout, rec
  <2>2. Awake(c) => Awake(rec)
    BY <1>3, <1>6, <1>8, <1>13 DEF Awake
  <2> QED
    BY <1>3, <1>6, <1>8, <2>1, <2>2
<1>14. CASE ti = Pos(c)
  <2>1. ti.Height = c.Height /\ ti.Round = c.Round /\ ti.Step = c.Step
    BY <1>14 DEF Pos
  <2>2. ~(\/ ti.Height # c.Height \/ ti.Round < c.Round
          \/ ti.Round = c.Round /\ ti.Step < c.Step)
    BY <1>2, <2>1
  <2>3. c.Step \in {1, 3, 5, 6, 8, 9}
    BY <1>11, <2>1 DEF TimedSteps, RoundStepNewHeight, RoundStepPropose,
      RoundStepPrevoteFetch, RoundStepPrevoteWait, RoundStepPrecommitFetch,
      RoundStepPrecommitWait
  <2>4. CASE c.Step = 1
    <3>1. d = enterNewRound(rec, c.Height, 0) /\ c.Round = 0
      BY <1>1, <2>1, <2>2, <2>4 DEF handleTimeout, rec, RoundStepNewHeight,
        RoundStepNewRound, RoundStepPropose, RoundStepPrevoteFetch, RoundStepPrevoteWait,
        RoundStepPrecommitFetch, RoundStepPrecommitWait
    <3>2. ~Behind(rec, c.Height, 0, RoundStepNewRound)
      BY <1>9, <2>4, <3>1 DEF Behind, RoundStepNewRound
    <3>3. Keeps(rec, d, K) /\ Awake(d)
      BY <1>2, <1>9, <3>1, <3>2, enterNewRoundKeeps DEF Keeps
    <3> QED
      BY <1>10, <3>3
  <2>5. CASE c.Step = 3
    <3>1. d = enterPrevote(rec, c.Height, c.Round)
      BY <2>1, <2>2, <2>5 DEF handleTimeout, rec, RoundStepNewHeight,
        RoundStepNewRound, RoundStepPropose, RoundStepPrevoteFetch, RoundStepPrevoteWait,
        RoundStepPrecommitFetch, RoundStepPrecommitWait
    <3>2. ~Behind(rec, c.Height, c.Round, RoundStepPrevote) /\ c.Round <= rec.Round
      BY <1>2, <1>9, <2>5 DEF Behind, RoundStepPrevote
    <3>3. Keeps(rec, d, K) /\ Awake(d)
      BY <1>2, <1>9, <3>1, <3>2, enterPrevoteKeeps
    <3> QED
      BY <1>10, <3>3
  <2>6. CASE c.Step \in {5, 8}
    <3>1. d = fetchMissingVotes(rec)
      BY <2>1, <2>2, <2>6 DEF handleTimeout, rec, RoundStepNewHeight,
        RoundStepNewRound, RoundStepPropose, RoundStepPrevoteFetch, RoundStepPrevoteWait,
        RoundStepPrecommitFetch, RoundStepPrecommitWait
    <3>2. rec.Step \in {RoundStepPrevoteFetch, RoundStepPrecommitFetch}
      BY <1>9, <2>6 DEF RoundStepPrevoteFetch, RoundStepPrecommitFetch
    <3>3. Keeps(rec, d, K) /\ Awake(d)
      BY <1>9, <3>1, <3>2, fetchMissingVotesKeeps
    <3> QED
      BY <1>10, <3>3
  <2>7. CASE c.Step = 6
    <3>1. d = enterPrecommit(rec, c.Height, c.Round)
      BY <2>1, <2>2, <2>7 DEF handleTimeout, rec, RoundStepNewHeight,
        RoundStepNewRound, RoundStepPropose, RoundStepPrevoteFetch, RoundStepPrevoteWait,
        RoundStepPrecommitFetch, RoundStepPrecommitWait
    <3>2. ~Behind(rec, c.Height, c.Round, RoundStepPrecommit) /\ c.Round <= rec.Round
      BY <1>2, <1>9, <2>7 DEF Behind, RoundStepPrecommit
    <3>3. Keeps(rec, d, K) /\ (Awake(d) \/ d.panicked)
      BY <1>2, <1>9, <3>1, <3>2, enterPrecommitKeeps
    <3> QED
      BY <1>10, <3>3
  <2>8. CASE c.Step = 9
    <3>1. d = enterNewRound(enterPrecommit(rec, c.Height, c.Round), c.Height, c.Round + 1)
      BY <2>1, <2>2, <2>8 DEF handleTimeout, rec, RoundStepNewHeight,
        RoundStepNewRound, RoundStepPropose, RoundStepPrevoteFetch, RoundStepPrevoteWait,
        RoundStepPrecommitFetch, RoundStepPrecommitWait
    <3>2. enterPrecommit(rec, c.Height, c.Round) = rec
      BY <1>2, <1>9, <2>8 DEF enterPrecommit, Behind, RoundStepPrecommit
    <3>3. ~Behind(rec, c.Height, c.Round + 1, RoundStepNewRound) /\ c.Round + 1 \in Nat
      BY <1>2, <1>9, <2>8 DEF Behind, RoundStepNewRound
    <3>4. Keeps(rec, d, K) /\ Awake(d)
      BY <1>2, <1>9, <3>1, <3>2, <3>3, enterNewRoundKeeps DEF Keeps
    <3> QED
      BY <1>10, <3>4
  <2> QED
    BY <2>3, <2>4, <2>5, <2>6, <2>7, <2>8
<1> QED
  BY <1>13, <1>14

\* A core that was started up goes for the height after the application's.
Fresh(d) ==
  /\ IsCore(d)
  /\ d.Height = d.app.LastHeight + 1 /\ d.Round = 0 /\ d.Step = 1
  /\ d.LockedRound = -1 /\ d.LockedProposal = None
  /\ d.CommitRound = -1 /\ d.LastCommit = None
  /\ d.lastCommittedData = d.app.LastProposedData
  /\ d.Votes = NewHeightVoteSet(d.app.LastHeight + 1, d.app.LastProposedData)

StartedUp(x, d) ==
  /\ Fresh(d) /\ d.self = x.self
  /\ d.app = x.app /\ d.commits = x.commits /\ Quiet(x, d) /\ d.todo = x.todo
  /\ d.ticker = NewTimeoutTicker /\ d.panicked = x.panicked

\* startUp, of a core that is not in the middle of a commit.
LEMMA startUpResult ==
  ASSUME Assumptions, NEW x, IsCore(x), x.CommitRound = -1 \/ x.Height = 0
  PROVE  StartedUp(x, startUp(x))
<1> DEFINE h  == x.app.LastHeight + 1
           b  == x.app.LastProposedData
           vs == NewHeightVoteSet(h, b)
           n  == NewTimeoutTicker
           y  == [x EXCEPT !.ticker = n, !.Votes = None]
           t  == [x EXCEPT !.ticker = n, !.Round = 0, !.Step = 1]
           e  == [t EXCEPT !.Height = h, !.Proposal = None, !.LockedRound = -1,
                           !.LockedProposal = None]
           d  == startUp(x)
<1>1. /\ h \in Nat /\ b \in DataOrNil /\ x.Height \in Nat /\ x.CommitRound \in Int
  BY CoreType
<1>2. IsHeightVoteSet(vs)
  <2>1. CommitteeAt(h) \in SUBSET Validators /\ NoOverflow
    BY <1>1 DEF Assumptions, CommitteesOK
  <2> QED
    BY <1>1, <2>1, NewHeightOK DEF VotesOK
<1>3. n \in TimeoutTickers
  BY DEF NewTimeoutTicker, TimeoutTickers, timeoutInfo, RoundStepCommit
<1>4. /\ y.Votes = None /\ y.CommitRound = x.CommitRound /\ y.Height = x.Height
  BY DEF IsCore
<1>5. d = [[y EXCEPT !.Round = 0, !.Step = 1] EXCEPT
             !.Height = h, !.Proposal = None, !.LockedRound = -1,
             !.LockedProposal = None, !.CommitRound = -1, !.LastCommit = None,
             !.lastCommittedData = b, !.Votes = vs]
  <2> HIDE DEF y, vs, n
  <2>1. d = updateToAppState(y, x.app)
    BY DEF startUp, y, n
  <2>2. ~unexpectedHeight(y, x.app)
    BY <1>1, <1>4 DEF unexpectedHeight
  <2>3. lastPrecommits(y) = None
    BY <1>4 DEF lastPrecommits
  <2> QED
    BY <1>4, <2>1, <2>2, <2>3 DEF updateToAppState, updateRoundStep, RoundStepNewHeight, vs
<1> HIDE DEF vs, n, h, b
<1>6. d = [e EXCEPT !.CommitRound = -1, !.LastCommit = None,
                    !.lastCommittedData = b, !.Votes = vs]
  BY ONLY <1>5
<1> HIDE DEF d, t, e
<1>7. IsCore(t) /\ t.Round = 0 /\ t.Step = 1 /\ t.ticker = n
  <2>1. 0 \in Nat /\ 1 \in RoundStepNewHeight..RoundStepCommit
    BY DEF RoundStepNewHeight, RoundStepCommit
  <2> QED
    BY ONLY <1>3, <2>1, IsCore(x) DEF IsCore, t
<1>8. IsCore(e)
  BY ONLY <1>1, <1>7, ResetType DEF e
<1>9. IsCore(d)
  BY ONLY <1>1, <1>2, <1>6, <1>8 DEF IsCore
<1>10. /\ t.self = x.self /\ t.app = x.app /\ t.commits = x.commits
       /\ Quiet(x, t) /\ t.todo = x.todo /\ t.panicked = x.panicked
  BY DEF IsCore, t, Quiet
<1>11. /\ e.self = t.self /\ e.app = t.app /\ e.commits = t.commits
       /\ Quiet(t, e) /\ e.todo = t.todo /\ e.panicked = t.panicked
       /\ e.Height = h /\ e.Round = 0 /\ e.Step = 1 /\ e.ticker = n
       /\ e.LockedRound = -1 /\ e.LockedProposal = None
  BY ONLY <1>7 DEF IsCore, e, Quiet
<1>12. /\ d.self = e.self /\ d.app = e.app /\ d.commits = e.commits
       /\ Quiet(e, d) /\ d.todo = e.todo /\ d.panicked = e.panicked
       /\ d.Height = h /\ d.Round = 0 /\ d.Step = 1 /\ d.ticker = n
       /\ d.LockedRound = -1 /\ d.LockedProposal = None
       /\ d.CommitRound = -1 /\ d.LastCommit = None
       /\ d.lastCommittedData = b /\ d.Votes = vs
  BY ONLY <1>6, <1>8, <1>11 DEF IsCore, Quiet
<1>13. StartedUp(x, d)
  BY <1>9, <1>10, <1>11, <1>12 DEF StartedUp, Fresh, Quiet, h, b, n, vs
<1> QED
  BY <1>13 DEF d

\* Whoever just started up is in order, when the application's commits are.
LEMMA FreshOK ==
  ASSUME Assumptions, NEW K, NEW d, Fresh(d), d.panicked = FALSE,
         TicksOK(d.ticker, Pos(d)), CommitsOK(d.commits, d.app, K \cup d.sent),
         QueueKnown(d.msgQueue, d.sent), d.todo \subseteq K \cup {None}
  PROVE  Inv(d, K) /\ Safe(d, d.Round)
<1> DEFINE h == d.app.LastHeight + 1
           e == d.app.LastProposedData
<1>1. /\ h \in Nat /\ e \in DataOrNil
  BY CoreType DEF Fresh
<1>2. /\ IsCore(d) /\ d.Height = h /\ d.Round = 0 /\ d.Step = 1
      /\ d.LockedRound = -1 /\ d.LockedProposal = None
      /\ d.CommitRound = -1 /\ d.LastCommit = None /\ d.lastCommittedData = e
      /\ d.Votes = NewHeightVoteSet(h, e)
      /\ d.app.LastHeight + 1 = h /\ d.app.LastProposedData = e
      /\ committee(d) = CommitteeAt(h)
  BY DEF Fresh, committee
<1>3. committee(d) \in SUBSET Validators /\ NoOverflow
  BY <1>2, CommitteeType DEF Assumptions
<1>4. /\ VotesOK(d.Votes, committee(d))
      /\ d.Votes.height = h /\ d.Votes.base = e /\ d.Votes.round = 0
      /\ DOMAIN d.Votes.roundVoteSets = {0}
      /\ \A q \in Nat : \A t \in VoteTypes :
           getVoteSet(d.Votes, q, t) = NewVoteSet(h, q, t, e)
  <2> HIDE DEF h, e
  <2> DEFINE m == committee(d)
             n == NewHeightVoteSet(h, e)
  <2>1. m \in SUBSET Validators
    BY <1>3
  <2> HIDE DEF m
  <2>2. /\ VotesOK(n, m) /\ n.height = h /\ n.base = e /\ n.round = 0
        /\ DOMAIN n.roundVoteSets = {0}
        /\ \A q \in Nat : \A t \in VoteTypes :
             getVoteSet(n, q, t) = NewVoteSet(h, q, t, e)
    BY ONLY <1>1, <1>3, <2>1, NewHeightOK
  <2> QED
    BY <1>2, <2>2 DEF m
<1>5. ASSUME NEW q \in Nat, NEW t \in VoteTypes
      PROVE  /\ TotalOK(getVoteSet(d.Votes, q, t))
             /\ \A v \in DataOrNil : getVoteSet(d.Votes, q, t).votes[v] = {}
             /\ ~(PowerOf[{}] >= Quorum(committee(d)))
  <2> HIDE DEF h, e
  <2>1. q \in Int
    OBVIOUS
  <2>2. LET vs == NewVoteSet(h, q, t, e)
        IN  /\ TotalOK(vs) /\ \A v \in DataOrNil : vs.votes[v] = {}
            /\ ~(PowerOf[{}] >= Quorum(committee(d)))
    BY ONLY <1>1, <1>3, <1>5, <2>1, NewVoteSetOK
  <2> QED
    BY <1>4, <2>2
<1>6. AtHeight(d.Height, d.lastCommittedData, d.app, d.Votes)
  BY <1>1, <1>2, <1>4 DEF AtHeight
<1>7. RoundsOK(d.Votes, d.Round, d.Step)
  <2>1. watermark \in Nat /\ 0..0 = {0}
    BY AppAssumption
  <2> QED
    BY <1>2, <1>4, <2>1 DEF RoundsOK
<1>9. /\ NotCommitting(d.panicked, d.CommitRound, d.Step)
      /\ LockOK(d.LockedRound, d.LockedProposal, d.Height, d.Round, d.Votes,
                committee(d), d.sent, d.self)
      /\ LastOK(d.LastCommit, d.Height, d.lastCommittedData)
  BY <1>2 DEF NotCommitting, LockOK, LastOK, RoundStepCommit
<1>10. VotesKnown(d.Votes, K \cup d.sent)
  BY <1>5 DEF VotesKnown, VotesFor
<1>11. TotalsOK(d.Votes)
  BY <1>5 DEF TotalsOK
<1>12. NoPolkaAfter(d.Votes, committee(d), d.Round)
  <2>1. \A q \in Nat, v \in Data : ~PolkaIn(d.Votes, committee(d), q, v)
    BY <1>5 DEF PolkaIn, Prevotes, VoteTypes, DataOrNil
  <2> QED
    BY <2>1 DEF NoPolkaAfter
<1> QED
  BY <1>2, <1>4, <1>6, <1>7, <1>9, <1>10, <1>11, <1>12 DEF Inv, Safe

\* No timeout is under way at a ticker that was just made.
LEMMA NewTicker ==
  ASSUME NEW d, IsCore(d), d.Height > 0
  PROVE  /\ TicksOK(NewTimeoutTicker, Pos(d)) /\ NewTimeoutTicker \in TimeoutTickers
         /\ NewTimeoutTicker.ti # Pos(d) /\ Before(NewTimeoutTicker.ti, Pos(d))
<1>1. /\ NewTimeoutTicker.ti.Height = 0 /\ NewTimeoutTicker.armed = FALSE
      /\ NewTimeoutTicker.tocks = {} /\ Pos(d).Height = d.Height
  BY DEF NewTimeoutTicker, Pos
<1>2. 0 < d.Height /\ d.Height # 0
  BY Numbers
<1>3. NewTimeoutTicker \in TimeoutTickers
  BY DEF NewTimeoutTicker, TimeoutTickers, timeoutInfo, RoundStepCommit
<1> QED
  BY <1>1, <1>2, <1>3 DEF TicksOK, Before

\* A core d that was just started, and waits for round 0.
Starts(self, app, d) ==
  /\ Fresh(d) /\ d.self = self /\ d.app = app /\ d.panicked = FALSE
  /\ d.todo = {} /\ d.msgQueue = <<>> /\ d.sent = {} /\ d.commits = {}
  /\ TicksOK(d.ticker, Pos(d)) /\ Awake(d)

\* Start of a core that was just made.  Crash sets the record of what was sent
\* and committed.
LEMMA StartResult ==
  ASSUME Assumptions, NEW self \in Nodes,
         NEW app \in [LastHeight : Nat, LastProposedData : DataOrNil, accepts : BOOLEAN]
  PROVE  Starts(self, app, Start(NewCore(self, app)))
<1> DEFINE vs == NewHeightVoteSet(0, Nil)
           n  == NewCore(self, app)
           x  == [n EXCEPT !.Votes = vs]
           u  == startUp(x)
           d  == Start(n)
<1>1. IsHeightVoteSet(vs)
  <2>1. /\ CommitteeAt(0) \in SUBSET Validators /\ NoOverflow /\ 0 \in Nat
        /\ Nil \in DataOrNil
    BY DEF Assumptions, CommitteesOK, DataOrNil
  <2> QED
    BY ONLY <2>1, NewHeightOK DEF VotesOK
<1>2. NewTimeoutTicker \in TimeoutTickers
  BY DEF NewTimeoutTicker, TimeoutTickers, timeoutInfo, RoundStepCommit
<1> HIDE DEF vs
<1>3. /\ x.self = self /\ x.Height = 0 /\ x.app = app /\ x.msgQueue = <<>>
      /\ x.todo = {} /\ x.sent = {} /\ x.commits = {} /\ x.panicked = FALSE
      /\ x.Votes = vs
  BY DEF NewCore
<1>4. IsCore(x)
  <2>1. /\ Nil \in DataOrNil /\ <<>> \in Seq(Vote)
        /\ 1 \in RoundStepNewHeight..RoundStepCommit /\ RoundStepNewHeight = 1
    BY DEF DataOrNil, RoundStepNewHeight, RoundStepCommit
  <2>2. /\ 0 \in Nat /\ 0 \in Nat \cup {-1} /\ None \in Data \cup {None}
        /\ None \in VoteSets \cup {None} /\ None \in FetchVotesReqs \cup {None}
        /\ FALSE \in BOOLEAN /\ {} \in SUBSET Vote /\ {} \in SUBSET Commits
    OBVIOUS
  <2> DEFINE S(votes) ==
               [self : Nodes, Height : Nat, Round : Nat,
                Step : RoundStepNewHeight..RoundStepCommit,
                Proposal : Data \cup {None}, LockedRound : Nat \cup {-1},
                LockedProposal : Data \cup {None}, Votes : {votes},
                CommitRound : Nat \cup {-1}, LastCommit : VoteSets \cup {None},
                lastCommittedData : DataOrNil, hasRecvCommitRecords : BOOLEAN,
                app : [LastHeight : Nat, LastProposedData : DataOrNil, accepts : BOOLEAN],
                msgQueue : Seq(Vote), todo : SUBSET Vote, ticker : TimeoutTickers,
                sent : SUBSET Vote, fvr : FetchVotesReqs \cup {None},
                commits : SUBSET Commits, announced : SUBSET Commits,
                panicked : BOOLEAN]
  <2>3. n \in S(None)
    BY ONLY <1>2, <2>1, <2>2, self \in Nodes,
         app \in [LastHeight : Nat, LastProposedData : DataOrNil, accepts : BOOLEAN]
       DEF NewCore
  <2> HIDE DEF n
  <2>4. x \in S(vs) /\ x.Votes = vs
    BY ONLY <2>3
  <2> QED
    BY ONLY <1>1, <2>4 DEF IsCore
<1>5. startUp(n) = startUp(x)
  <2>1. x.app = n.app
    BY DEF NewCore
  <2>2. [n EXCEPT !.ticker = NewTimeoutTicker, !.Votes = None] =
        [x EXCEPT !.ticker = NewTimeoutTicker, !.Votes = None]
    BY ZenonT(40) DEF NewCore
  <2> QED
    BY <2>1, <2>2 DEF startUp
<1> HIDE DEF x, n
<1>6. StartedUp(x, u)
  BY <1>3, <1>4, startUpResult
<1> HIDE DEF u
<1>7. /\ Fresh(u) /\ u.self = self /\ u.app = app /\ u.panicked = FALSE
      /\ u.todo = {} /\ u.msgQueue = <<>> /\ u.sent = {} /\ u.commits = {}
      /\ u.ticker = NewTimeoutTicker
  BY <1>3, <1>6 DEF StartedUp, Quiet
<1>8. /\ IsCore(u) /\ u.Height \in Nat /\ u.Height > 0 /\ u.Round = 0 /\ u.Step = 1
      /\ 0 \in Nat /\ 1 \in 1..10
  BY <1>7, CoreType DEF Fresh
<1>9. d = scheduleTimeout(u, u.Height, 0, 1)
  BY <1>5 DEF Start, scheduleRound0, RoundStepNewHeight, u
<1> HIDE DEF d
<1>10. Scheduled(u, d, Pos(u))
  <2>1. Scheduled(u, d, [Height |-> u.Height, Round |-> 0, Step |-> 1])
    BY <1>8, <1>9, TimeResult
  <2> QED
    BY <1>8, <2>1 DEF Pos
<1>11. /\ Fresh(d) /\ d.self = self /\ d.app = app /\ d.panicked = FALSE
       /\ d.todo = {} /\ d.msgQueue = <<>> /\ d.sent = {} /\ d.commits = {}
       /\ Pos(d) = Pos(u)
       /\ d.ticker = ScheduleTimeout(NewTimeoutTicker, Pos(u))
  BY <1>7, <1>10 DEF Scheduled, Frame, SameLock, Quiet, Fresh, Pos
<1>12. TicksOK(d.ticker, Pos(d)) /\ Awake(d)
  <2>1. /\ Pos(u) \in timeoutInfo /\ Pos(u).Step = 1 /\ 1 \in TimedSteps
        /\ NewTimeoutTicker.ti.Height = 0 /\ Pos(u).Height = u.Height
        /\ NewTimeoutTicker.ti.Step = 0
    BY <1>8, PosType DEF Pos, TimedSteps, RoundStepNewHeight, NewTimeoutTicker
  <2>2. TicksOK(NewTimeoutTicker, Pos(u)) /\ NewTimeoutTicker \in TimeoutTickers
    BY <1>8, NewTicker
  <2>3. ~ignoresTick(NewTimeoutTicker.ti, Pos(u))
    BY <1>8, <2>1 DEF ignoresTick
  <2>4. d.ticker.ti = Pos(u) /\ d.ticker.armed
    BY <1>11, <2>2, <2>3 DEF ScheduleTimeout, TimeoutTickers
  <2>5. TicksOK(d.ticker, Pos(u))
    BY <1>11, <2>1, <2>2, TicksMove
  <2> QED
    BY <1>11, <2>4, <2>5 DEF Awake
<1> QED
  BY <1>11, <1>12 DEF Starts, d, n

\* A core that differs only in what the invariant does not look into waits for
\* the same timeouts.
LEMMA AlikeWakes ==
  ASSUME NEW K, NEW c, NEW d, Inv(c, K), IsCore(d), Alike(c, d), d.ticker = c.ticker,
         d.LastCommit = c.LastCommit, QueueKnown(d.msgQueue, c.sent), d.todo \subseteq K \cup {None},
         d.app.accepts => c.app.accepts
  PROVE  Keeps(c, d, K) /\ Wakes(c, d)
<1>1. /\ TicksOK(d.ticker, Pos(c)) /\ LastOK(d.LastCommit, c.Height, c.lastCommittedData)
      /\ d.LastCommit = None => c.LastCommit = None
  BY DEF Inv
<1>2. Keeps(c, d, K) /\ Pos(d) = Pos(c)
  BY <1>1, AlikeKeeps
<1> QED
  BY <1>2 DEF Wakes

\* Something else before or after a message is handled.
LEMMA HandledLater ==
  ASSUME NEW K, NEW c, NEW x, NEW d, IsCore(c), Keeps(c, x, K), Wakes(c, x),
         x.Votes = c.Votes, Handled(x, d, K)
  PROVE  Handled(c, d, K)
<1>1. Basics(c, x, K) /\ Guarded(c, x, c.Round, x.Round)
  BY KeepsHalves DEF Keeps
<1>2. /\ Basics(x, d, K) /\ Wakes(x, d)
      /\ TotalsFit(c.Votes) => Guarded(x, d, x.Round, d.Round)
  BY DEF Handled
<1>3. Basics(c, d, K)
  BY <1>1, <1>2, BasicsTrans
<1>4. x.panicked => d.panicked
  BY <1>2 DEF Basics
<1>5. Wakes(c, d)
  BY <1>2, <1>4, WakesTrans
<1>6. TotalsFit(c.Votes) => Guarded(c, d, c.Round, d.Round)
  BY <1>1, <1>2, GuardedTrans
<1> QED
  BY <1>3, <1>5, <1>6 DEF Handled

\* An enter function called at the end of a handler.
LEMMA HandledBefore ==
  ASSUME NEW K, NEW c, NEW x, NEW d, IsCore(c), Handled(c, x, K), Keeps(x, d, K),
         Wakes(x, d)
  PROVE  Handled(c, d, K)
<1>1. Basics(x, d, K) /\ Guarded(x, d, x.Round, d.Round)
  BY KeepsHalves DEF Keeps
<1>2. /\ Basics(c, x, K) /\ Wakes(c, x)
      /\ TotalsFit(c.Votes) => Guarded(c, x, c.Round, x.Round)
  BY DEF Handled
<1>3. Basics(c, d, K)
  BY <1>1, <1>2, BasicsTrans
<1>4. x.panicked => d.panicked
  BY <1>1 DEF Basics
<1>5. Wakes(c, d)
  BY <1>2, <1>4, WakesTrans
<1>6. TotalsFit(c.Votes) => Guarded(c, d, c.Round, d.Round)
  BY <1>1, <1>2, GuardedTrans
<1> QED
  BY <1>3, <1>5, <1>6 DEF Handled

\* A vote of others, or the core's own.
LEMMA handleVoteKeeps ==
  ASSUME Assumptions, NEW K, NEW c, Inv(c, K), ~c.panicked,
         NEW vote \in Vote, vote \in K \cup c.sent
  PROVE  Handled(c, handleVote(c, vote), K)
<1>1. CASE isValidator(c)
  <2>1. handleVote(c, vote) = addVote(c, vote)
    BY <1>1 DEF handleVote
  <2> QED
    BY <2>1, addVoteKeeps
<1>2. CASE ~isValidator(c)
  <2>1. handleVote(c, vote) = c
    BY <1>2 DEF handleVote
  <2> QED
    BY <2>1, KeepsRefl, KeepsHandled
<1> QED
  BY <1>1, <1>2

\* The votes of a message are noted, to be added one by one.
LEMMA NotedKeeps ==
  ASSUME NEW K, NEW c, Inv(c, K), NEW votes \in SUBSET (Vote \cup {None}),
         votes \subseteq K \cup {None}, NEW recv \in BOOLEAN
  PROVE  Handled(c, [c EXCEPT !.hasRecvCommitRecords = recv, !.todo = votes], K)
<1> DEFINE d == [c EXCEPT !.hasRecvCommitRecords = recv, !.todo = votes]
<1>1. IsCore(c) /\ QueueKnown(c.msgQueue, c.sent)
  BY DEF Inv
<1>2. IsCore(d)
  <2> DEFINE e == [c EXCEPT !.todo = votes]
  <2>1. IsCore(e)
    BY ONLY <1>1, votes \in SUBSET (Vote \cup {None}) DEF IsCore
  <2>2. d = [e EXCEPT !.hasRecvCommitRecords = recv]
    BY ONLY <1>1 DEF IsCore
  <2> HIDE DEF d, e
  <2> QED
    BY ONLY <2>1, <2>2, recv \in BOOLEAN DEF IsCore
<1>3. /\ Alike(c, d) /\ d.ticker = c.ticker /\ d.LastCommit = c.LastCommit
      /\ d.msgQueue = c.msgQueue /\ d.todo = votes /\ d.app = c.app
  BY ONLY <1>1 DEF IsCore, Alike, SameLock
<1> HIDE DEF d
<1>4. Keeps(c, d, K) /\ Wakes(c, d)
  BY <1>1, <1>2, <1>3, AlikeWakes
<1>5. Handled(c, d, K)
  BY <1>4, KeepsHandled
<1> QED
  BY <1>5 DEF d

\* handleCommit, up to the loop over the precommits.
LEMMA handleCommitKeeps ==
  ASSUME NEW K, NEW c, Inv(c, K), NEW commit,
         commit.Precommits \subseteq Vote \cup {None},
         commit.Precommits \subseteq K \cup {None}
  PROVE  Handled(c, handleCommit(c, commit), K)
<1>1. CASE ~CommitIsValid(commit) \/ CommitHeight(commit) < c.Height
  <2>1. handleCommit(c, commit) = c
    BY <1>1 DEF handleCommit
  <2> QED
    BY <2>1, KeepsRefl, KeepsHandled
<1>2. CASE ~(~CommitIsValid(commit) \/ CommitHeight(commit) < c.Height)
  <2> DEFINE recv  == c.hasRecvCommitRecords \/ CommitHeight(commit) = c.Height
             votes == commit.Precommits
  <2>1. handleCommit(c, commit) = [c EXCEPT !.hasRecvCommitRecords = recv, !.todo = votes]
    BY <1>2 DEF handleCommit
  <2>2. /\ recv \in BOOLEAN /\ votes \in SUBSET (Vote \cup {None})
        /\ votes \subseteq K \cup {None}
    OBVIOUS
  <2> HIDE DEF recv, votes
  <2>3. Handled(c, [c EXCEPT !.hasRecvCommitRecords = recv, !.todo = votes], K)
    BY <2>2, NotedKeeps
  <2> QED
    BY <2>1, <2>3
<1> QED
  BY <1>1, <1>2

\* handleFetchRsp, up to the loop over the votes.
LEMMA handleFetchRspKeeps ==
  ASSUME NEW K, NEW c, Inv(c, K), NEW rsp,
         rsp.MissingVotes \subseteq Vote \cup {None},
         rsp.MissingVotes \subseteq K \cup {None}
  PROVE  Handled(c, handleFetchRsp(c, rsp), K)
<1> DEFINE votes == rsp.MissingVotes
           recv  == c.hasRecvCommitRecords
<1>1. CASE handleFetchRsp(c, rsp) = c
  BY <1>1, KeepsRefl, KeepsHandled
<1>2. CASE handleFetchRsp(c, rsp) = [c EXCEPT !.todo = votes]
  <2>1. IsCore(c)
    BY DEF Inv
  <2>2. /\ recv \in BOOLEAN /\ votes \in SUBSET (Vote \cup {None})
        /\ votes \subseteq K \cup {None}
    BY <2>1, CoreType
  <2> HIDE DEF votes
  <2>3. [c EXCEPT !.todo = votes] = [c EXCEPT !.hasRecvCommitRecords = recv, !.todo = votes]
    BY <2>1 DEF IsCore
  <2> HIDE DEF recv
  <2>4. Handled(c, [c EXCEPT !.hasRecvCommitRecords = recv, !.todo = votes], K)
    BY <2>2, NotedKeeps
  <2> QED
    BY <1>2, <2>3, <2>4
<1> QED
  BY <1>1, <1>2 DEF handleFetchRsp

\* One vote of a message that is not nil (tryAddVote).
LEMMA TryAddKeeps ==
  ASSUME Assumptions, NEW K, NEW c, Inv(c, K), ~c.panicked, NEW vote \in Vote, vote \in K,
         NEW rest \in SUBSET (Vote \cup {None}), rest \subseteq K \cup {None}
  PROVE  Handled(c, [tryAddVote(c, vote) EXCEPT !.todo = rest], K)
<1> DEFINE a == tryAddVote(c, vote)
           d == [a EXCEPT !.todo = rest]
<1>1. Handled(c, a, K)
  <2>1. a = addVote(c, vote)
    BY ValueAssumption DEF tryAddVote
  <2> QED
    BY <2>1, addVoteKeeps
<1> HIDE DEF a
<1>2. /\ Inv(a, K) /\ IsCore(a) /\ QueueKnown(a.msgQueue, a.sent) /\ IsCore(c)
  BY <1>1 DEF Handled, Basics, Inv
<1>3. IsCore(d)
  BY ONLY <1>2, rest \in SUBSET (Vote \cup {None}) DEF IsCore
<1>4. /\ Alike(a, d) /\ d.ticker = a.ticker /\ d.LastCommit = a.LastCommit
      /\ d.msgQueue = a.msgQueue /\ d.todo = rest /\ d.app = a.app
  BY ONLY <1>2 DEF IsCore, Alike, SameLock
<1> HIDE DEF d
<1>5. Keeps(a, d, K) /\ Wakes(a, d)
  BY <1>2, <1>3, <1>4, AlikeWakes
<1>6. Handled(c, d, K)
  BY <1>1, <1>2, <1>5, HandledBefore
<1> QED
  BY <1>6 DEF a, d

\* A nil pointer is dereferenced: the process ends with its state in order.
LEMMA NilKeeps ==
  ASSUME NEW K, NEW c, Inv(c, K), ~c.panicked,
         NEW rest \in SUBSET (Vote \cup {None}), rest \subseteq K \cup {None}
  PROVE  LET d == [NilDereference(c) EXCEPT !.todo = rest]
         IN  /\ Inv(d, K) /\ Advances(c, d) /\ d.panicked
             /\ d.Votes = c.Votes /\ committee(d) = committee(c)
             /\ d.Round = c.Round /\ d.Height = c.Height
             /\ HasLast(c) => HasLast(d)
             /\ Hist(c) => Hist(d)
             /\ LockHist(c, c.Round) => LockHist(d, d.Round)
<1> DEFINE d == [NilDereference(c) EXCEPT !.todo = rest]
<1>1. IsCore(c)
  BY DEF Inv
<1>2. IsCore(d)
  BY ONLY <1>1, rest \in SUBSET (Vote \cup {None}) DEF NilDereference, IsCore
<1>3. /\ d.self = c.self /\ d.Height = c.Height /\ d.Round = c.Round /\ d.Step = c.Step
      /\ d.LockedRound = c.LockedRound /\ d.LockedProposal = c.LockedProposal
      /\ d.Votes = c.Votes /\ d.CommitRound = c.CommitRound
      /\ d.LastCommit = c.LastCommit /\ d.lastCommittedData = c.lastCommittedData
      /\ d.app = c.app /\ d.msgQueue = c.msgQueue /\ d.todo = rest
      /\ d.ticker = c.ticker /\ d.sent = c.sent /\ d.commits = c.commits
      /\ d.panicked = TRUE
  BY ONLY <1>1 DEF NilDereference, IsCore
<1> HIDE DEF d
<1>4. Inv(d, K)
  BY <1>2, <1>3 DEF Inv, committee, NotCommitting, Pos
<1>5. Advances(c, d)
  BY <1>1, <1>3, Numbers DEF Advances
<1>6. /\ HasLast(c) => HasLast(d)
      /\ Hist(c) => Hist(d)
      /\ LockHist(c, c.Round) => LockHist(d, d.Round)
      /\ committee(d) = committee(c)
  BY <1>3 DEF HasLast, Hist, LockHist, committee, Pos
<1> QED
  BY <1>3, <1>4, <1>5, <1>6 DEF d

\* The first vote of the queue is taken out of it.
LEMMA TailKeeps ==
  ASSUME NEW K, NEW c, Inv(c, K), c.msgQueue # <<>>
  PROVE  LET d == [c EXCEPT !.msgQueue = Tail(@)]
         IN  /\ Keeps(c, d, K) /\ Wakes(c, d) /\ d.Votes = c.Votes /\ d.sent = c.sent
             /\ d.panicked = c.panicked
             /\ Head(c.msgQueue) \in c.sent /\ Head(c.msgQueue) \in Vote
<1> DEFINE q == c.msgQueue
           t == Tail(q)
           d == [c EXCEPT !.msgQueue = t]
<1>1. IsCore(c) /\ QueueKnown(q, c.sent) /\ c.todo \subseteq K \cup {None}
  BY DEF Inv
<1>2. q \in Seq(Vote) /\ c.sent \subseteq Vote
  BY <1>1, CoreType
<1>3. /\ t \in Seq(Vote) /\ Len(q) \in Nat /\ Len(q) >= 1 /\ Len(t) = Len(q) - 1
      /\ Head(q) = q[1]
      /\ \A i \in 1..Len(t) : t[i] = q[i + 1]
  BY <1>2
<1>4. Head(q) \in c.sent /\ QueueKnown(t, c.sent)
  <2>1. \A i \in 1..Len(q) : q[i] \in c.sent
    BY <1>1 DEF QueueKnown
  <2>2. \A i \in 1..Len(t) : i + 1 \in 1..Len(q)
    BY <1>3
  <2>3. 1 \in 1..Len(q)
    BY <1>3
  <2> QED
    BY <1>3, <2>1, <2>2, <2>3 DEF QueueKnown
<1> HIDE DEF t
<1>5. IsCore(d)
  BY ONLY <1>1, <1>3 DEF IsCore
<1>6. /\ Alike(c, d) /\ d.ticker = c.ticker /\ d.LastCommit = c.LastCommit
      /\ d.msgQueue = t /\ d.todo = c.todo /\ d.app = c.app
  BY ONLY <1>1 DEF IsCore, Alike, SameLock
<1>7. Keeps(c, d, K) /\ Wakes(c, d)
  <2> HIDE DEF d
  <2> QED
    BY <1>1, <1>4, <1>5, <1>6, AlikeWakes
<1>8. d = [c EXCEPT !.msgQueue = Tail(@)]
  BY DEF t
<1> HIDE DEF d
<1> QED
  BY <1>2, <1>4, <1>6, <1>7, <1>8 DEF Alike

\* The core's own vote, from the queue.
LEMMA OwnVoteKeeps ==
  ASSUME Assumptions, NEW K, NEW c, Inv(c, K), ~c.panicked, c.msgQueue # <<>>
  PROVE  Handled(c, handleVote([c EXCEPT !.msgQueue = Tail(@)], Head(c.msgQueue)), K)
<1> DEFINE x == [c EXCEPT !.msgQueue = Tail(@)]
           v == Head(c.msgQueue)
<1>1. /\ Keeps(c, x, K) /\ Wakes(c, x) /\ x.Votes = c.Votes /\ x.sent = c.sent
      /\ x.panicked = c.panicked /\ v \in c.sent /\ v \in Vote
  BY TailKeeps
<1> HIDE DEF x, v
<1>2. Inv(x, K) /\ ~x.panicked /\ v \in K \cup x.sent /\ IsCore(c)
  BY <1>1 DEF Keeps, KeepsFrom, Inv
<1>3. Handled(x, handleVote(x, v), K)
  BY <1>1, <1>2, handleVoteKeeps
<1>4. Handled(c, handleVote(x, v), K)
  BY <1>1, <1>2, <1>3, HandledLater
<1> QED
  BY <1>4 DEF x, v

\* The timer fires, and its timeout is on its way.
LEMMA TimeOutKeeps ==
  ASSUME NEW K, NEW c, Inv(c, K), c.ticker.armed
  PROVE  LET d == [c EXCEPT !.ticker = TimeOut(@)]
         IN  /\ Keeps(c, d, K) /\ Pos(d) = Pos(c) /\ d.ticker.ti = c.ticker.ti
             /\ Awake(c) => Awake(d)
<1> DEFINE t == TimeOut(c.ticker)
           d == [c EXCEPT !.ticker = t]
<1>1. /\ IsCore(c) /\ TicksOK(c.ticker, Pos(c)) /\ QueueKnown(c.msgQueue, c.sent)
      /\ c.todo \subseteq K \cup {None} /\ LastOK(c.LastCommit, c.Height, c.lastCommittedData)
  BY DEF Inv
<1>2. c.ticker \in TimeoutTickers
  BY <1>1, CoreType
<1>3. /\ t \in TimeoutTickers /\ t.ti = c.ticker.ti /\ t.armed = FALSE
      /\ t.tocks = c.ticker.tocks \cup {c.ticker.ti}
  BY <1>2 DEF TimeOut, TimeoutTickers
<1> HIDE DEF t
<1>4. IsCore(d)
  BY ONLY <1>1, <1>3 DEF IsCore
<1>5. /\ Alike(c, d) /\ d.ticker = t /\ d.LastCommit = c.LastCommit
      /\ d.msgQueue = c.msgQueue /\ d.todo = c.todo /\ d.app = c.app
  BY ONLY <1>1 DEF IsCore, Alike, SameLock
<1>6. TicksOK(d.ticker, Pos(c))
  BY <1>1, <1>3, <1>5 DEF TicksOK
<1>7. Keeps(c, d, K) /\ Pos(d) = Pos(c)
  <2> HIDE DEF d
  <2>1. /\ LastOK(d.LastCommit, c.Height, c.lastCommittedData)
        /\ QueueKnown(d.msgQueue, c.sent) /\ d.todo \subseteq K \cup {None}
        /\ d.LastCommit = None => c.LastCommit = None
        /\ d.app.accepts => c.app.accepts
    BY <1>1, <1>5
  <2>2. Alike(c, d)
    BY <1>5
  <2> QED
    BY <1>4, <1>6, <2>1, <2>2, AlikeKeeps
<1>8. Awake(c) => Awake(d)
  BY <1>3, <1>5, <1>7 DEF Awake
<1>9. d = [c EXCEPT !.ticker = TimeOut(@)]
  BY DEF t
<1> HIDE DEF d
<1> QED
  BY <1>3, <1>5, <1>7, <1>8, <1>9

\* Start schedules round 0 of a height that may have passed by now: it never
\* replaces the timeout the core waits for.
LEMMA LateRound0Keeps ==
  ASSUME NEW K, NEW c, Inv(c, K), NEW height \in Nat, height <= c.Height
  PROVE  LET d == scheduleTimeout(c, height, 0, RoundStepNewHeight)
         IN  /\ Keeps(c, d, K) /\ Pos(d) = Pos(c)
             /\ Awake(c) => Awake(d)
             /\ /\ height = c.Height /\ c.Round = 0 /\ c.Step = 1 /\ c.ticker.ti # Pos(c)
                => Awake(d)
<1> DEFINE ti == [Height |-> height, Round |-> 0, Step |-> 1]
           t  == ScheduleTimeout(c.ticker, ti)
           d  == scheduleTimeout(c, height, 0, RoundStepNewHeight)
<1>1. /\ IsCore(c) /\ TicksOK(c.ticker, Pos(c)) /\ QueueKnown(c.msgQueue, c.sent)
      /\ c.todo \subseteq K \cup {None} /\ LastOK(c.LastCommit, c.Height, c.lastCommittedData)
  BY DEF Inv
<1>2. /\ c.ticker \in TimeoutTickers /\ c.ticker.ti \in timeoutInfo
      /\ c.Height \in Nat /\ c.Round \in Nat /\ c.Step \in 1..10
      /\ 0 \in Nat /\ 1 \in 1..10
  BY <1>1, CoreType DEF TimeoutTickers
<1>3. /\ c.ticker.ti.Height \in Nat /\ c.ticker.ti.Round \in Nat
      /\ c.ticker.ti.Step \in Int /\ c.ticker.ti.Step >= 0
  BY <1>2 DEF timeoutInfo
<1>4. Scheduled(c, d, ti)
  <2>1. Scheduled(c, scheduleTimeout(c, height, 0, 1), ti)
    BY <1>1, <1>2, TimeResult
  <2> QED
    BY <2>1 DEF RoundStepNewHeight
<1> HIDE DEF d
<1>5. /\ IsCore(d) /\ Alike(c, d) /\ d.ticker = t /\ d.LastCommit = c.LastCommit
      /\ d.msgQueue = c.msgQueue /\ d.todo = c.todo /\ d.app = c.app
  BY <1>4 DEF Scheduled, Alike, Frame, Quiet, SameLock
<1>6. /\ t.tocks = c.ticker.tocks
      /\ IF ignoresTick(c.ticker.ti, ti) THEN t = c.ticker ELSE t.ti = ti /\ t.armed = TRUE
  BY <1>2 DEF ScheduleTimeout, TimeoutTickers
<1>7. Before(ti, Pos(c)) \/ ti = Pos(c)
  BY <1>2 DEF Before, Pos
<1>8. ti.Step \in TimedSteps
  BY DEF TimedSteps, RoundStepNewHeight
<1> HIDE DEF t
<1>9. TicksOK(d.ticker, Pos(c))
  BY <1>1, <1>5, <1>6, <1>7, <1>8 DEF TicksOK
<1>10. Keeps(c, d, K) /\ Pos(d) = Pos(c)
  <2>1. /\ LastOK(d.LastCommit, c.Height, c.lastCommittedData)
        /\ QueueKnown(d.msgQueue, c.sent) /\ d.todo \subseteq K \cup {None}
        /\ d.LastCommit = None => c.LastCommit = None
        /\ d.app.accepts => c.app.accepts
    BY <1>1, <1>5
  <2>2. Alike(c, d) /\ IsCore(d)
    BY <1>5
  <2> QED
    BY <1>9, <2>1, <2>2, AlikeKeeps
<1>11. ASSUME Awake(c) PROVE Awake(d)
  <2>1. CASE c.ticker.armed /\ c.ticker.ti = Pos(c)
    <3>1. ignoresTick(c.ticker.ti, ti)
      BY <1>2, <2>1
         DEF ignoresTick, Pos, RoundStepPrevoteFetch, RoundStepPrecommitFetch
    <3> QED
      BY <1>5, <1>6, <1>10, <2>1, <3>1 DEF Awake
  <2>2. CASE Pos(c) \in c.ticker.tocks
    BY <1>5, <1>6, <1>10, <2>2 DEF Awake
  <2> QED
    BY <1>11, <2>1, <2>2 DEF Awake
<1>12. ASSUME height = c.Height, c.Round = 0, c.Step = 1, c.ticker.ti # Pos(c)
       PROVE  Awake(d)
  <2>1. ti = Pos(c)
    BY <1>12 DEF Pos
  <2>2. Before(c.ticker.ti, ti)
    BY <1>1, <1>12, <2>1 DEF TicksOK
  <2>3. ~ignoresTick(c.ticker.ti, ti)
    BY <1>2, <1>3, <2>2 DEF Before, ignoresTick
  <2> QED
    BY <1>5, <1>6, <1>10, <2>1, <2>3 DEF Awake
<1> QED
  BY <1>10, <1>11, <1>12 DEF d

\* The application breaks.
LEMMA BreaksKeeps ==
  ASSUME NEW K, NEW c, Inv(c, K)
  PROVE  LET d == [c EXCEPT !.app.accepts = FALSE]
         IN  Keeps(c, d, K) /\ Wakes(c, d)
<1> DEFINE a == [c.app EXCEPT !.accepts = FALSE]
           d == [c EXCEPT !.app = a]
<1>1. IsCore(c) /\ QueueKnown(c.msgQueue, c.sent) /\ c.todo \subseteq K \cup {None}
  BY DEF Inv
<1>2. c.app \in [LastHeight : Nat, LastProposedData : DataOrNil, accepts : BOOLEAN]
  BY <1>1, CoreType
<1>3. /\ a \in [LastHeight : Nat, LastProposedData : DataOrNil, accepts : BOOLEAN]
      /\ a.LastHeight = c.app.LastHeight /\ a.LastProposedData = c.app.LastProposedData
      /\ a.accepts = FALSE
  BY <1>2
<1>4. d = [c EXCEPT !.app.accepts = FALSE]
  BY <1>1 DEF IsCore
<1> HIDE DEF a
<1>5. IsCore(d)
  BY ONLY <1>1, <1>3 DEF IsCore
<1>6. /\ Alike(c, d) /\ d.ticker = c.ticker /\ d.LastCommit = c.LastCommit
      /\ d.msgQueue = c.msgQueue /\ d.todo = c.todo /\ d.app = a
  BY ONLY <1>1, <1>3 DEF IsCore, Alike, SameLock
<1> HIDE DEF d
<1>7. Keeps(c, d, K) /\ Wakes(c, d)
  BY <1>1, <1>3, <1>5, <1>6, AlikeWakes
<1> QED
  BY <1>4, <1>7
=============================================================================
