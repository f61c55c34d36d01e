-------------------------------- MODULE Core ---------------------------------
(***************************************************************************)
(* bftcore.go: the round state of a core and the functions downstream of   *)
(* receiveRoutine.  A core is a record; a function is an operator that     *)
(* returns the core it leaves.  The call graph has no cycle (a core's own  *)
(* votes go through its queue), so neither have the definitions.           *)
(*                                                                         *)
(* The user's application behind ICommittee is external: app is its state, *)
(* CommitteeAt, Proposer, DecidesProposal and ValidData are its answers.   *)
(* GetAppState is taken to answer with a state, never with nil.            *)
(***************************************************************************)
EXTENDS HeightVoteSet, Ticker, Sequences

CONSTANTS
  CommitteeAt(_),     \* the members of the committee that decides a height
  Proposer(_, _),     \* GetCurrentProposer at a height and a round
  DecidesProposal,    \* the data a node proposes
  ValidData,          \* the data ValidateProposal approves
  SkipTimeoutCommit,  \* cfg.SkipTimeoutCommit
  watermark           \* config.go's bound on rounds ahead

ASSUME AppAssumption ==
  /\ DecidesProposal \in [Nodes -> Data]
  /\ ValidData \subseteq Data
  /\ SkipTimeoutCommit \in BOOLEAN
  /\ watermark \in Nat

\* What Commit(records) hands to the application, MakeCommit's result.
Commits == [ProposedData : Data, Prev : DataOrNil, Precommits : SUBSET Vote]

FetchVotesReqs == [Type : {PrevoteType, PrecommitType}, Height : Nat,
                   Round : Int, Voters : SUBSET Validators, len : Nat]

IsCore(c) ==
  /\ IsHeightVoteSet(c.Votes)
  /\ c \in [
       self     : Nodes,
       Height   : Nat,
       Round    : Nat,
       Step     : RoundStepNewHeight..RoundStepCommit,
       Proposal : Data \cup {None},        \* only Proposed is ever read
       LockedRound    : Nat \cup {-1},
       LockedProposal : Data \cup {None},
       Votes          : {c.Votes},
       CommitRound    : Nat \cup {-1},
       LastCommit     : VoteSets \cup {None},
       lastCommittedData    : DataOrNil,
       hasRecvCommitRecords : BOOLEAN,
       app      : [LastHeight : Nat, LastProposedData : DataOrNil,
                   accepts : BOOLEAN],     \* accepts: Commit will succeed
       msgQueue : Seq(Vote),               \* own votes not yet received back
       todo     : SUBSET (Vote \cup {None}),  \* rest of a loop over a message's votes
       ticker   : TimeoutTickers,
       sent     : SUBSET Vote,             \* every vote ever signed and broadcast
       fvr      : FetchVotesReqs \cup {None},  \* the last request sent
       commits  : SUBSET Commits,          \* every Commit the application accepted
       announced : SUBSET Commits,         \* every Commit broadcast
       panicked : BOOLEAN]                 \* the process exits

PanicSanity(c) == [c EXCEPT !.panicked = TRUE]

\* Nothing recovers from a nil pointer that is dereferenced either.
NilDereference(c) == [c EXCEPT !.panicked = TRUE]

\* Mutant: the committee of the last height is still used.
committee_Last(c) == CommitteeAt(c.app.LastHeight)

\* The application changes the committee when it takes a Commit: the members are
\* those who decide the height after its last one.
committee(c) == CommitteeAt(c.app.LastHeight + 1)

isValidator(c) == c.self \in committee(c)

updateRoundStep(c, round, step) == [c EXCEPT !.Round = round, !.Step = step]

scheduleTimeout(c, height, round, step) ==
  [c EXCEPT !.ticker =
     ScheduleTimeout(@, [Height |-> height, Round |-> round, Step |-> step])]

scheduleRound0(c) == scheduleTimeout(c, c.Height, 0, RoundStepNewHeight)

\* Mutant: a step of the current round can be entered again.
Behind_NoStep(c, height, round, step) ==
  c.panicked \/ c.Height # height \/ round < c.Round

\* The guard shared by the enter functions: true when (height, round, step) is
\* not ahead of the core.  Nothing runs after a panic.
Behind(c, height, round, step) ==
  \/ c.panicked
  \/ c.Height # height
  \/ round < c.Round
  \/ c.Round = round /\ step <= c.Step

\* Sign, publish on the core's own queue and broadcast.
signAddVote(c, type, round, proposed) ==
  LET vote == NewVote(type, c.Height, round, proposed,
                      c.lastCommittedData, c.self)
  IN  IF isValidator(c)
      THEN [c EXCEPT !.msgQueue = Append(@, vote), !.sent = @ \cup {vote}]
      ELSE c

-----------------------------------------------------------------------------
\* Propose and prevote

\* Mutant: the lock does not bind.
doPrevote_IgnoresLock(c) ==
  signAddVote(c, PrevoteType, c.Round,
    IF c.Proposal # None /\ c.Proposal \in ValidData THEN c.Proposal ELSE Nil)

doPrevote(c) ==
  signAddVote(c, PrevoteType, c.Round,
    IF c.LockedRound >= 0 /\ c.LockedProposal # None THEN c.LockedProposal
    ELSE IF c.Proposal # None /\ c.Proposal \in ValidData THEN c.Proposal
    ELSE Nil)

enterPrevoteFetch(c, height, round) ==
  scheduleTimeout(updateRoundStep(c, round, RoundStepPrevoteFetch),
                  height, round, RoundStepPrevoteFetch)

enterPrevote(c, height, round) ==
  IF Behind(c, height, round, RoundStepPrevote) THEN c
  ELSE enterPrevoteFetch(updateRoundStep(doPrevote(c), round, RoundStepPrevote),
                         height, round)

doPropose(c, round) ==
  LET data == IF c.LockedRound > -1 /\ c.LockedProposal # None
              THEN c.LockedProposal ELSE DecidesProposal[c.self]
  IN  [signAddVote(c, ProposalType, round, data) EXCEPT !.Proposal = data]

isReadyToPrevote(c) == c.Proposal # None \/ c.LockedRound >= 0

enterPropose(c, height, round) ==
  LET timed    == scheduleTimeout(c, height, round, RoundStepPropose)
      proposed == IF isValidator(c) /\ Proposer(c.Height, c.Round) = c.self
                  THEN doPropose(timed, round) ELSE timed
      done     == updateRoundStep(proposed, round, RoundStepPropose)
  IN  IF Behind(c, height, round, RoundStepPropose) THEN c
      ELSE IF isReadyToPrevote(done) THEN enterPrevote(done, height, done.Round)
      ELSE done

\* Round 0 keeps a proposal that came before its time.  (The guard c.Step !=
\* RoundStepNewHeight is Behind with the next step.)
enterNewRound(c, height, round) ==
  LET fresh == [updateRoundStep(c, round, RoundStepNewRound) EXCEPT
                  !.Proposal = IF round = 0 THEN @ ELSE None,
                  !.Votes    = SetRound(@, round + 1)]
  IN  IF Behind(c, height, round, RoundStepNewRound) THEN c
      ELSE IF SetRoundPanics(c.Votes, round + 1) THEN PanicSanity(c)
      ELSE enterPropose(fresh, height, round)

defaultSetProposal(c, proposal) ==
  IF /\ c.Proposal = None
     /\ proposal.Height = c.Height
     /\ proposal.Round = c.Round
     /\ proposal.Prev = c.lastCommittedData
     /\ Proposer(c.Height, c.Round) = proposal.Address
     /\ VerifySignature(proposal, committee(c))
     /\ proposal.Proposed \in ValidData
  THEN enterPrevote([c EXCEPT !.Proposal = proposal.Proposed], c.Height, c.Round)
  ELSE c

fetchMissingVotes(c) ==
  LET voteSet == IF c.Step = RoundStepPrevoteFetch THEN Prevotes(c.Votes, c.Round)
                 ELSE Precommits(c.Votes, c.Round)
  IN  IF c.Step \in {RoundStepPrevoteFetch, RoundStepPrecommitFetch}
      THEN scheduleTimeout([c EXCEPT !.fvr = MakeFetchVotesReq(voteSet)],
                           c.Height, c.Round, c.Step)
      ELSE c

\* Mutant: the wait has no timeout.
enterPrevoteWait_NoTimeout(c, height, round) ==
  IF Behind(c, height, round, RoundStepPrevoteWait) THEN c
  ELSE updateRoundStep(c, round, RoundStepPrevoteWait)

enterPrevoteWait(c, height, round) ==
  IF Behind(c, height, round, RoundStepPrevoteWait) THEN c
  ELSE IF ~HasTwoThirdsAny(Prevotes(c.Votes, round), committee(c)) THEN PanicSanity(c)
  ELSE updateRoundStep(scheduleTimeout(c, height, round, RoundStepPrevoteWait),
                       round, RoundStepPrevoteWait)

-----------------------------------------------------------------------------
\* Precommit and commit

enterPrecommitFetch(c, height, round) ==
  scheduleTimeout(updateRoundStep(c, round, RoundStepPrecommitFetch),
                  height, round, RoundStepPrecommitFetch)

\* Mutant: the proposal is precommitted without a polka.
lockOnPolka_NoPolka(c, round, polkaData) ==
  IF c.Proposal = None
  THEN [round |-> c.LockedRound, data |-> c.LockedProposal, precommit |-> Nil]
  ELSE [round |-> round, data |-> c.Proposal, precommit |-> c.Proposal]

\* Mutant: what is precommitted is not locked.
lockOnPolka_NoLock(c, round, polkaData) ==
  [round |-> c.LockedRound, data |-> c.LockedProposal,
   precommit |-> IF c.Proposal = polkaData THEN polkaData ELSE Nil]

\* The lock after the prevotes of a round gave polkaData (Nil: no majority),
\* and what to precommit.  A nil majority is never reported by the VoteSet, so
\* the code's branch that unlocks on one is not reached.
lockOnPolka(c, round, polkaData) ==
  IF polkaData = Nil
  THEN [round |-> c.LockedRound, data |-> c.LockedProposal, precommit |-> Nil]
  ELSE IF \/ c.LockedRound >= 0 /\ c.LockedProposal = polkaData
          \/ c.Proposal = polkaData
  THEN [round |-> round, data |-> polkaData, precommit |-> polkaData]
  ELSE [round |-> -1, data |-> None, precommit |-> Nil]

enterPrecommit(c, height, round) ==
  LET polkaData == Prevotes(c.Votes, round).maj23
      lock      == lockOnPolka(c, round, polkaData)
      voted     == signAddVote([c EXCEPT !.LockedRound = lock.round,
                                         !.LockedProposal = lock.data],
                               PrecommitType, round, lock.precommit)
  IN  IF Behind(c, height, round, RoundStepPrecommit) THEN c
      ELSE IF polkaData # Nil /\ POLRound(c.Votes) # round THEN PanicSanity(c)
      ELSE enterPrecommitFetch(updateRoundStep(voted, round, RoundStepPrecommit),
                               height, round)

enterPrecommitWait(c, height, round) ==
  IF Behind(c, height, round, RoundStepPrecommitWait) THEN c
  ELSE IF ~HasTwoThirdsAny(Precommits(c.Votes, round), committee(c)) THEN PanicSanity(c)
  ELSE updateRoundStep(scheduleTimeout(c, height, round, RoundStepPrecommitWait),
                       round, RoundStepPrecommitWait)

\* Mutant: the application's height is trusted.
unexpectedHeight_Never(c, appState) == FALSE

\* The application did not take the commit.
unexpectedHeight(c, appState) ==
  c.CommitRound > -1 /\ 0 < c.Height /\ c.Height > appState.LastHeight

\* Mutants: the current round's precommits; no reset when nothing was committed.
lastPrecommits_Round(c) ==
  IF c.CommitRound > -1 /\ c.Votes # None THEN Precommits(c.Votes, c.Round)
  ELSE None
lastPrecommits_Keeps(c) ==
  IF c.CommitRound > -1 /\ c.Votes # None THEN Precommits(c.Votes, c.CommitRound)
  ELSE c.LastCommit

\* The precommits that ended the last height; None after Start.
lastPrecommits(c) ==
  IF c.CommitRound > -1 /\ c.Votes # None THEN Precommits(c.Votes, c.CommitRound)
  ELSE None

\* The next height.
updateToAppState(c, appState) ==
  LET base == appState.LastProposedData
      next == [updateRoundStep(c, 0, RoundStepNewHeight) EXCEPT
                 !.Height = appState.LastHeight + 1,
                 !.Proposal = None, !.LockedRound = -1, !.LockedProposal = None,
                 !.CommitRound = -1,
                 !.LastCommit = lastPrecommits(c),
                 !.lastCommittedData = base,
                 !.Votes = NewHeightVoteSet(appState.LastHeight + 1, base)]
  IN  IF \/ unexpectedHeight(c, appState)
         \/ /\ c.CommitRound > -1 /\ c.Votes # None
            /\ ~HasTwoThirdsMajority(Precommits(c.Votes, c.CommitRound))
      THEN PanicSanity(c) ELSE next

\* External: the application's Commit.  A failed one changes nothing, and the
\* caller ignores the error.
Commit(c, records) ==
  IF c.app.accepts
  THEN [c EXCEPT !.app.LastHeight = c.Height,
                 !.app.LastProposedData = records.ProposedData,
                 !.commits = @ \cup {records}]
  ELSE c

doCommit(c) ==
  LET records   == MakeCommit(Precommits(c.Votes, c.CommitRound))
      broadcast == IF c.hasRecvCommitRecords THEN c
                   ELSE [c EXCEPT !.announced = @ \cup {records}]
      committed == Commit(broadcast, records)
  IN  scheduleRound0([updateToAppState(committed, committed.app)
                        EXCEPT !.hasRecvCommitRecords = FALSE])

enterCommit(c, height, commitRound) ==
  IF c.panicked \/ c.Height # height \/ RoundStepCommit <= c.Step THEN c
  ELSE IF ~HasTwoThirdsMajority(Precommits(c.Votes, commitRound))
  THEN PanicSanity(c)
  ELSE doCommit(updateRoundStep([c EXCEPT !.CommitRound = commitRound],
                                c.Round, RoundStepCommit))

-----------------------------------------------------------------------------
\* Votes

\* A late precommit of the previous height joins LastCommit.  It is verified and
\* weighed, and HasAll decided, by the committee of the current height.
addLastCommitVote(c, vote) ==
  LET res   == VoteSet_AddVote(c.LastCommit, vote, committee(c))
      added == [c EXCEPT !.LastCommit = res.vs]
  IN  IF \/ c.Step # RoundStepNewHeight
         \/ vote.Type # PrecommitType
         \/ c.LastCommit = None THEN c
      ELSE IF res.added /\ SkipTimeoutCommit /\ HasAll(res.vs, committee(c))
      THEN enterNewRound(added, c.Height, 0)
      ELSE added

\* Mutants: the lock's round is not reset; the proposal becomes NilData.
onPolka_KeepsRound(c, voteRound, polkaData) ==
  [c EXCEPT !.LockedProposal = IF @ # polkaData THEN None ELSE @]
onPolka_NilProposal(c, voteRound, polkaData) ==
  [c EXCEPT !.Proposal = IF voteRound = c.Round /\ @ # polkaData THEN Nil ELSE @]

\* A polka on other data releases the lock, also when its round is ahead; in
\* the current round it also discards another proposal.
onPolka(c, voteRound, polkaData) ==
  LET unlock == /\ c.LockedProposal # None
                /\ c.LockedRound < voteRound
                /\ c.LockedProposal # polkaData
  IN  [c EXCEPT !.LockedRound    = IF unlock THEN -1 ELSE @,
                !.LockedProposal = IF unlock THEN None ELSE @,
                !.Proposal = IF voteRound = c.Round /\ @ # polkaData
                             THEN None ELSE @]

addedPrevote(c, vote) ==
  LET prevotes == Prevotes(c.Votes, vote.Round)
      polka    == HasTwoThirdsMajority(prevotes)
      c1       == IF polka THEN onPolka(c, vote.Round, prevotes.maj23) ELSE c
  IN  IF c.Round < vote.Round /\ HasTwoThirdsAny(prevotes, committee(c))
      THEN enterNewRound(c1, c.Height, vote.Round)
      ELSE IF c.Round = vote.Round /\ RoundStepPrevote <= c.Step
      THEN IF polka THEN enterPrecommit(c1, c.Height, vote.Round)
           ELSE IF HasTwoThirdsAny(prevotes, committee(c))
           THEN enterPrevoteWait(c1, c.Height, vote.Round)
           ELSE c1
      ELSE IF c.Step < RoundStepPrevote /\ c1.Proposal # None
      THEN enterPrevote(c1, c.Height, c.Round)
      ELSE c1

addedPrecommit(c, vote) ==
  LET precommits == Precommits(c.Votes, vote.Round)
      entered == enterNewRound(c, c.Height, vote.Round)
      done    == enterCommit(enterPrecommit(entered, c.Height, vote.Round),
                             c.Height, vote.Round)
  IN  IF HasTwoThirdsMajority(precommits)
      THEN IF SkipTimeoutCommit /\ HasAll(precommits, committee(done))
           THEN enterNewRound(done, done.Height, 0) ELSE done
      ELSE IF c.Round <= vote.Round /\ HasTwoThirdsAny(precommits, committee(c))
      THEN enterPrecommitWait(entered, c.Height, vote.Round)
      ELSE c

\* Mutant: no bound ahead.
ErrVoteInvalidRound_Ahead(c, vote) == vote.Round < 0

ErrVoteInvalidRound(c, vote) ==
  c.Round + watermark < vote.Round \/ vote.Round < 0

addVote(c, vote) ==
  LET res   == HeightVoteSet_AddVote(c.Votes, vote, committee(c))
      added == [c EXCEPT !.Votes = res.hvs]
  IN  IF vote.Height + 1 = c.Height THEN addLastCommitVote(c, vote)
      ELSE IF vote.Height # c.Height THEN c
      ELSE IF vote.Type = ProposalType THEN defaultSetProposal(c, vote)
      ELSE IF ErrVoteInvalidRound(c, vote) THEN c
      ELSE IF ~res.added THEN added
      ELSE IF vote.Type = PrevoteType THEN addedPrevote(added, vote)
      ELSE addedPrecommit(added, vote)

\* The lists of a message may have nil entries, which addVote dereferences.
tryAddVote(c, vote) ==
  IF vote = None THEN NilDereference(c) ELSE addVote(c, vote)

-----------------------------------------------------------------------------
\* handleMsg, one operator per message type, and handleTimeout

\* Vote.ValidateBasic, without which RecvMsg does not queue a vote.  (The votes
\* inside a Commit or a FetchVotesRsp are not checked.)
VoteIsValid(vote) == vote.Height >= 0 /\ vote.Round >= 0

handleVote(c, vote) == IF isValidator(c) THEN addVote(c, vote) ELSE c

\* Commit.Height: that of the first precommit that is not nil, if there is one.
CommitHeight(commit) ==
  LET votes == commit.Precommits \ {None}
  IN  IF votes = {} THEN 0 ELSE (CHOOSE v \in votes : TRUE).Height

\* Commit.ValidateBasic: "It's OK for precommits to be missing".
CommitIsValid(commit) ==
  /\ commit.ProposedData # Nil
  /\ commit.Precommits # {}
  /\ \A v \in commit.Precommits \ {None} :
       /\ v.Type = PrecommitType
       /\ v.Prev = commit.Prev
       /\ v.Proposed = commit.ProposedData
       /\ \A w \in commit.Precommits \ {None} :
            /\ w.Height = v.Height
            /\ w.Round = v.Round
            /\ w.Address = v.Address => w = v

\* The votes are added one by one, from todo, before anything else is handled.
handleCommit(c, commit) ==
  IF ~CommitIsValid(commit) \/ CommitHeight(commit) < c.Height THEN c
  ELSE [c EXCEPT !.hasRecvCommitRecords = @ \/ CommitHeight(commit) = c.Height,
                 !.todo = commit.Precommits]

\* ValidateBasic accepts a request for a negative Round, which is before every
\* round of the core and has no vote sets: MakeFetchVotesRsp is called on nil.
DereferencesNil(c, req) ==
  /\ ReqIsValid(req)
  /\ req.Height = c.Height /\ req.Round <= c.Round
  /\ req.Round \notin DOMAIN c.Votes.roundVoteSets

\* Mutant: a request for an earlier height is answered from the current votes.
handleFetch_CurrentVotes(c, req) ==
  IF req.Height <= c.Height
  THEN {MakeFetchVotesRsp(getVoteSet(c.Votes, req.Round, req.Type), req)}
  ELSE {}

\* The responses (none or one) to a request; the core does not change, unless it
\* dies of the request.
handleFetch(c, req) ==
  IF ~ReqIsValid(req) \/ DereferencesNil(c, req) THEN {}
  ELSE IF req.Height < c.Height
  THEN {[Type |-> PrecommitType, Height |-> req.Height, Round |-> req.Round,
         MissingVotes |-> commit.Precommits] :
          commit \in {d \in c.commits : CommitHeight(d) = req.Height}}
  ELSE IF req.Height = c.Height /\ req.Round <= c.Round
  THEN {MakeFetchVotesRsp(getVoteSet(c.Votes, req.Round, req.Type), req)}
  ELSE {}

handleFetchRsp(c, rsp) ==
  IF /\ c.Height = rsp.Height
     /\ c.Round <= rsp.Round
     /\ c.Step \in {RoundStepPrevoteFetch, RoundStepPrecommitFetch}
     /\ RspIsValid(rsp)
  THEN [c EXCEPT !.todo = rsp.MissingVotes]
  ELSE c

handleTimeout(c, ti) ==
  LET received == [c EXCEPT !.ticker.tocks = @ \ {ti}]
  IN  IF \/ ti.Height # c.Height
         \/ ti.Round < c.Round
         \/ ti.Round = c.Round /\ ti.Step < c.Step THEN received
      ELSE CASE ti.Step = RoundStepNewHeight -> enterNewRound(received, ti.Height, 0)
             [] ti.Step = RoundStepNewRound -> enterPropose(received, ti.Height, 0)
             [] ti.Step = RoundStepPropose ->
                  enterPrevote(received, ti.Height, ti.Round)
             [] ti.Step \in {RoundStepPrevoteFetch, RoundStepPrecommitFetch} ->
                  fetchMissingVotes(received)
             [] ti.Step = RoundStepPrevoteWait ->
                  enterPrecommit(received, ti.Height, ti.Round)
             [] ti.Step = RoundStepPrecommitWait ->
                  enterNewRound(enterPrecommit(received, ti.Height, ti.Round),
                                ti.Height, ti.Round + 1)
             [] OTHER -> PanicSanity(received)

-----------------------------------------------------------------------------
\* A core as NewCore leaves it, and Start.  Only the application's state and
\* the own votes still in the queue survive a Stop.

NewCore(self, app) ==
  [self |-> self, Height |-> 0, Round |-> 0, Step |-> RoundStepNewHeight,
   Proposal |-> None, LockedRound |-> 0, LockedProposal |-> None,
   Votes |-> None, CommitRound |-> 0, LastCommit |-> None,
   lastCommittedData |-> Nil, hasRecvCommitRecords |-> FALSE, app |-> app,
   msgQueue |-> <<>>, todo |-> {}, ticker |-> NewTimeoutTicker, sent |-> {},
   fvr |-> None, commits |-> {}, announced |-> {}, panicked |-> FALSE]

\* Mutant: a core that ran before goes on where it stopped.
startUp_Resumes(c) ==
  IF c.Votes = None THEN updateToAppState(c, c.app)
  ELSE [c EXCEPT !.ticker = NewTimeoutTicker]

\* What Start does before it spawns receiveRoutine.
startUp(c) ==
  updateToAppState([c EXCEPT !.ticker = NewTimeoutTicker, !.Votes = None], c.app)

\* All of Start, when there are no messages for receiveRoutine to handle yet.
Start(c) == scheduleRound0(startUp(c))
=============================================================================
