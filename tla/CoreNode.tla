------------------------------ MODULE CoreNode -------------------------------
(***************************************************************************)
(* One core, run by receiveRoutine, in an arbitrary environment: messages  *)
(* of EnvVotes, EnvCommits and EnvRsps arrive in any order, any number of  *)
(* times or never; timers fire at any moment and their tocks are received  *)
(* in any order; the queue may drop one of the core's own votes; the node  *)
(* may be stopped and started again, and the application may meanwhile     *)
(* have learnt of later heights; the application's Commit may fail.  The   *)
(* environment is bound by nothing but the core's signature, so all that   *)
(* holds here holds whatever the other validators sign, or show in another *)
(* round than they signed it for.                                          *)
(***************************************************************************)
EXTENDS Core

CONSTANTS
  Selves,       \* the nodes whose core this may be
  EnvVotes,     \* the votes other nodes may send
  EnvCommits,   \* the Commit messages they may send
  EnvRsps,      \* the FetchVotesRsp messages they may send
  EnvReqs,      \* the FetchVotesReq messages they may send
  MaxTocks,     \* bound: how many tocks are under way at once
  MaxRestarts,  \* bound: how often the node is stopped and started
  MaxSkipped,   \* bound: how many heights the application gains meanwhile
  CommitMayFail,  \* whether the application's Commit may fail
  MayDrop       \* whether the message queue may be full

ASSUME NodeAssumption ==
  /\ Selves \subseteq Nodes
  /\ EnvVotes \subseteq Vote
  /\ \A commit \in EnvCommits : commit.Precommits \subseteq Vote \cup {None}
  /\ \A rsp \in EnvRsps : rsp.MissingVotes \subseteq Vote \cup {None}
  /\ EnvReqs \subseteq FetchVotesReqs
  /\ MaxTocks \in Nat
  /\ MaxRestarts \in Nat
  /\ MaxSkipped \in Nat
  /\ CommitMayFail \in BOOLEAN
  /\ MayDrop \in BOOLEAN

VARIABLES
  c,         \* the core
  heard,     \* history: the votes received that had an effect on the core
  nilRead,   \* history: the process died of a nil pointer
  restarts,  \* how often it was started again
  starter    \* Start after it spawned receiveRoutine: the copy of the height
             \* it schedules round 0 for (0: none yet), or None when it is done

vars == <<c, heard, nilRead, restarts, starter>>

\* receiveRoutine is at its select.
Selecting == ~c.panicked /\ c.todo = {}

\* What the others sign and send is theirs to decide, but nobody else makes the
\* core's signature: a vote that verifies under its key is one it signed, now or
\* before a crash, for this or for another round.
Signable(votes) ==
  \A v \in votes \ {None} :
    v.Address = c.self /\ v.sigOK => \E w \in c.sent : Digest(w) = Digest(v)

-----------------------------------------------------------------------------
RecvVote(vote) ==
  /\ Selecting
  /\ VoteIsValid(vote)
  /\ Signable({vote})
  /\ c' = handleVote(c, vote)
  /\ heard' = IF c' = c THEN heard ELSE heard \cup {vote}
  /\ UNCHANGED <<nilRead, restarts, starter>>

RecvCommit(commit) ==
  /\ Selecting
  /\ Signable(commit.Precommits)
  /\ c' = handleCommit(c, commit)
  /\ heard' = IF c' = c THEN heard ELSE heard \cup (commit.Precommits \ {None})
  /\ UNCHANGED <<nilRead, restarts, starter>>

RecvFetchRsp(rsp) ==
  /\ Selecting
  /\ Signable(rsp.MissingVotes)
  /\ c' = handleFetchRsp(c, rsp)
  /\ heard' = IF c' = c THEN heard ELSE heard \cup (rsp.MissingVotes \ {None})
  /\ UNCHANGED <<nilRead, restarts, starter>>

\* A request leaves the core as it is (AnswersAreEvidence is about the answer),
\* or ends the process.
RecvFetchReq(req) ==
  /\ Selecting
  /\ c' = IF DereferencesNil(c, req) THEN NilDereference(c) ELSE c
  /\ nilRead' = DereferencesNil(c, req)
  /\ UNCHANGED <<heard, restarts, starter>>

\* One iteration of the loop over a message's votes (tryAddVote).  The order is
\* arbitrary: the sender collected them from a map.
TryAddVote(vote) ==
  /\ ~c.panicked
  /\ c' = [tryAddVote(c, vote) EXCEPT !.todo = c.todo \ {vote}]
  /\ nilRead' = (vote = None)
  /\ UNCHANGED <<heard, restarts, starter>>

\* The core receives its own vote from the queue ...
RecvOwn ==
  /\ Selecting
  /\ c.msgQueue # <<>>
  /\ c' = handleVote([c EXCEPT !.msgQueue = Tail(@)], Head(c.msgQueue))
  /\ UNCHANGED <<heard, nilRead, restarts, starter>>

\* ... unless the queue was full when the vote was signed.
DropOwn ==
  /\ MayDrop
  /\ ~c.panicked
  /\ c.msgQueue # <<>>
  /\ c' = [c EXCEPT !.msgQueue = Tail(@)]
  /\ UNCHANGED <<heard, nilRead, restarts, starter>>

TimerFires ==
  /\ c.ticker.armed
  /\ ~c.panicked
  /\ Cardinality(c.ticker.tocks) < MaxTocks
  /\ c' = [c EXCEPT !.ticker = TimeOut(@)]
  /\ UNCHANGED <<heard, nilRead, restarts, starter>>

RecvTock(ti) ==
  /\ Selecting
  /\ c' = handleTimeout(c, ti)
  /\ UNCHANGED <<heard, nilRead, restarts, starter>>

\* Stop, then Start up to where receiveRoutine is spawned; the application may
\* have moved on in between.  RecvMsg refuses messages until Start is done, but
\* those still in the queue from before the Stop are handled.
Restart(skipped, data) ==
  /\ Selecting
  /\ starter = None
  /\ restarts < MaxRestarts
  /\ restarts' = restarts + 1
  /\ c' = startUp([c EXCEPT !.app.LastHeight = @ + skipped,
                            !.app.LastProposedData = data])
  /\ skipped = 0 => data = c.app.LastProposedData
  /\ starter' = 0
  /\ UNCHANGED <<heard, nilRead>>

\* Start copies the round state, between two messages (GetRoundState) ...
CopyRoundState ==
  /\ Selecting
  /\ starter = 0
  /\ starter' = c.Height
  /\ UNCHANGED <<c, heard, nilRead, restarts>>

\* ... and schedules round 0 of the height it saw, whatever that is by now.
ScheduleRound0 ==
  /\ ~c.panicked
  /\ starter \notin {None, 0}
  /\ c' = scheduleTimeout(c, starter, 0, RoundStepNewHeight)
  /\ starter' = None
  /\ UNCHANGED <<heard, nilRead, restarts>>

\* The process dies, even in the middle of a message, and is run again: the
\* queue is lost too.  (sent, commits and announced only record history.)
Crash ==
  /\ restarts < MaxRestarts
  /\ restarts' = restarts + 1
  /\ c' = [Start(NewCore(c.self, c.app)) EXCEPT
             !.sent = c.sent, !.commits = c.commits, !.announced = c.announced]
  /\ starter' = None
  /\ nilRead' = FALSE
  /\ UNCHANGED heard

\* The application breaks: its Commit fails from now on.
AppBreaks ==
  /\ CommitMayFail
  /\ c.app.accepts
  /\ ~c.panicked
  /\ c' = [c EXCEPT !.app.accepts = FALSE]
  /\ UNCHANGED <<heard, nilRead, restarts, starter>>

Init ==
  /\ \E self \in Selves :
       c = Start(NewCore(self, [LastHeight |-> 0, LastProposedData |-> Nil,
                                accepts |-> TRUE]))
  /\ heard = {}
  /\ nilRead = FALSE
  /\ restarts = 0
  /\ starter = None

Next ==
  \/ \E vote \in EnvVotes : RecvVote(vote)
  \/ \E commit \in EnvCommits : RecvCommit(commit)
  \/ \E rsp \in EnvRsps : RecvFetchRsp(rsp)
  \/ \E req \in EnvReqs : RecvFetchReq(req)
  \/ \E vote \in c.todo : TryAddVote(vote)
  \/ RecvOwn
  \/ DropOwn
  \/ TimerFires
  \/ \E ti \in c.ticker.tocks : RecvTock(ti)
  \/ \E skipped \in 0..MaxSkipped, data \in DataOrNil : Restart(skipped, data)
  \/ CopyRoundState
  \/ ScheduleRound0
  \/ Crash
  \/ AppBreaks

Spec == Init /\ [][Next]_vars

\* Go's select chooses at random among the ready channels, so a tock that is
\* ready again and again is received; the runtime fires an armed timer, and a
\* handler runs to its end.
Fairness ==
  /\ WF_vars(TimerFires)
  /\ SF_vars(\E ti \in c.ticker.tocks : RecvTock(ti))
  /\ WF_vars(\E vote \in c.todo : TryAddVote(vote))

FairSpec == Spec /\ Fairness

-----------------------------------------------------------------------------
TypeOK ==
  /\ IsCore(c)
  /\ heard \subseteq Vote
  /\ nilRead \in BOOLEAN
  /\ restarts \in 0..MaxRestarts
  /\ starter \in Nat \cup {None}

\* No sanity check of the code ever fails: SetRound always moves forward, the
\* waits are entered with +2/3 of the votes, the polka enterPrecommit acts on is
\* the latest one, a commit finds its majority (PanicSanity in bftcore.go and
\* height_vote_set.go).  The exception is the check of the application's height
\* after a Commit that failed.  (A nil entry of a message and a request for a
\* negative round end the process too, without any sanity check: nilRead.)
NoPanic == c.panicked => ~c.app.accepts \/ nilRead

\* A valid request for the round, as it may come from any node.
RequestFor(type, round) ==
  [Type |-> type, Height |-> c.Height, Round |-> round, Voters |-> {}, len |-> 0]

\* The maps of votes cover every round up to hvs.round, which is one ahead of the
\* core's, except when round 0 was entered by a proposal that came before the
\* core left RoundStepNewHeight; so the sets of fetchMissingVotes are never nil,
\* and those of handleFetch only for a request with a negative round.  Votes of
\* rounds ahead, valid or not, never grow the maps beyond the watermark.
TrackedRounds ==
  /\ \A r \in DOMAIN c.Votes.roundVoteSets :
       r <= c.Round + watermark \/ r <= c.Round + 1
  /\ 0..c.Votes.round \subseteq DOMAIN c.Votes.roundVoteSets
  /\ \/ c.Votes.round = c.Round + 1
     \/ c.Votes.round = 0 /\ c.Round = 0
  /\ \A type \in {PrevoteType, PrecommitType}, r \in -1..(c.Round + 1) :
       DereferencesNil(c, RequestFor(type, r)) <=> r < 0

\* The voters include +2/3 of the committee that decides the height.
Decides(height, voters) ==
  LET members == CommitteeAt(height)
  IN  3 * PowerOf[voters \cap members] > 2 * PowerOf[members]

\* What the votes of this height say about a value in a round.
Polka(round, d) ==
  d # Nil /\ PowerOf[Prevotes(c.Votes, round).votes[d]] >= Quorum(committee(c))

\* +2/3 prevotes of a round take the core to that round (round skipping), so a
\* polka is never ahead of the core: POLInfo cannot overtake enterPrecommit.
PolkaNotAhead ==
  \A r \in DOMAIN c.Votes.roundVoteSets :
    (\E d \in Data : Polka(r, d)) => r <= c.Round

\* A core signs at most one vote of a type for a height and a round, whatever
\* arrives and in whatever order (as long as it is not restarted).
NoEquivocation ==
  \A v, w \in c.sent :
    v.Type = w.Type /\ v.Height = w.Height /\ v.Round = w.Round => v = w

\* A precommit for data is only signed with +2/3 prevotes for that data in the
\* same round (enterPrecommit).
PrecommitJustified ==
  \A v \in c.sent :
    v.Type = PrecommitType /\ v.Height = c.Height /\ v.Proposed # Nil
      => Polka(v.Round, v.Proposed)

\* The rule agreement rests on: after precommitting data, a core prevotes
\* something else in a later round only if it has seen a polka for something
\* else in a round between the two (doPrevote, and where locks are released).
LockRule ==
  \A v, w \in c.sent :
    /\ v.Type = PrecommitType /\ v.Proposed # Nil
    /\ w.Type = PrevoteType /\ w.Proposed # v.Proposed
    /\ v.Height = c.Height /\ w.Height = c.Height
    /\ v.Round < w.Round
    => \E r \in (v.Round + 1)..w.Round, d \in Data \ {v.Proposed} : Polka(r, d)

\* The lock is the data of a polka of its round, is never from a later round
\* than the core's, and a validator that holds it has precommitted it there.
LockJustified ==
  /\ c.LockedRound = -1 <=> c.LockedProposal = None
  /\ c.LockedProposal # None =>
       /\ c.LockedRound <= c.Round
       /\ Polka(c.LockedRound, c.LockedProposal)
       /\ isValidator(c) =>
            \E v \in c.sent : /\ v.Type = PrecommitType
                            /\ v.Height = c.Height
                            /\ v.Round = c.LockedRound
                            /\ v.Proposed = c.LockedProposal

\* Between messages the core waits for something that will come: for the step
\* it is in, a timeout it will not ignore is running or has fired.  Without it
\* a lost message would stop the node for ever.  It holds as soon as Start is
\* done, even if messages were handled before it scheduled round 0.
WakeUp ==
  LET wake == [Height |-> c.Height, Round |-> c.Round, Step |-> c.Step]
  IN  Selecting /\ starter = None =>
        \/ c.ticker.armed /\ c.ticker.ti = wake
        \/ wake \in c.ticker.tocks

\* The core works on the height after the application's, on top of the
\* application's data; a Commit that fails never lets it move on (doCommit
\* ignores the error, updateToAppState catches it).
InStepWithApp ==
  ~c.panicked =>
    /\ c.Height = c.app.LastHeight + 1
    /\ c.lastCommittedData = c.app.LastProposedData
    /\ c.Votes.height = c.Height /\ c.Votes.base = c.lastCommittedData

\* The precommits kept for the previous height are the evidence that
\* lastCommittedData was committed there, stragglers included; a core that has
\* committed a height since it was started has them (GetLastCommit would
\* otherwise dereference nil).
LastCommitIsEvidence ==
  /\ restarts = 0 /\ c.Height > 1 => c.LastCommit # None
  /\ c.LastCommit # None =>
    /\ c.LastCommit.height + 1 = c.Height
    /\ c.LastCommit.maj23 = c.lastCommittedData
    /\ Decides(c.LastCommit.height, c.LastCommit.votes[c.lastCommittedData])

\* Every commit handed to the application carries precommits of +2/3 of the
\* power, all really signed, for one value at one height and round; heights are
\* committed once and each on top of the one before.
CommitsAreFinal ==
  /\ \A rec \in c.commits :
       /\ CommitIsValid(rec)
       /\ \A v \in rec.Precommits : v.sigOK /\ v \in heard \cup c.sent
       /\ Decides(CommitHeight(rec), {v.Address : v \in rec.Precommits})
  /\ \A rec, other \in c.commits :
       /\ CommitHeight(rec) = CommitHeight(other) => rec = other
       /\ CommitHeight(other) = CommitHeight(rec) + 1
            => other.Prev = rec.ProposedData

\* An answer to a node that fetches votes (handleFetch) only holds votes that
\* were really signed, and for a height that was committed here it proves the
\* commit, so that the other node can catch up.
AnswersAreEvidence ==
  \A type \in {PrevoteType, PrecommitType}, h \in 1..c.Height, r \in 0..c.Round :
    \A rsp \in handleFetch(c, [Type |-> type, Height |-> h, Round |-> r,
                               Voters |-> {}, len |-> 0]) :
      /\ rsp.MissingVotes \subseteq heard \cup c.sent
      /\ h < c.Height => Decides(h, {v.Address : v \in rsp.MissingVotes})

\* A step never takes the core back: height, then round, then step only grow,
\* and within a height the lock never falls back to an earlier round.
NeverBack ==
  [][ restarts' = restarts =>
        \/ c'.Height > c.Height
        \/ /\ c'.Height = c.Height
           /\ \/ c'.Round > c.Round
              \/ c'.Round = c.Round /\ c'.Step >= c.Step
           /\ c'.LockedRound = -1 \/ c'.LockedRound >= c.LockedRound
    ]_vars

\* Only the steps that fetch votes can last: the waits and the proposal end by
\* themselves, whatever the other nodes do.
StepEnds ==
  \A s \in {RoundStepNewHeight, RoundStepPropose,
            RoundStepPrevoteWait, RoundStepPrecommitWait} :
    []<>(c.Step # s)


-----------------------------------------------------------------------------
(***************************************************************************)
(* What comments of the source say and the code does not do.               *)
(***************************************************************************)

\* bftcore.go, enterPrecommit: "+2/3 prevoted nil. Unlock and precommit nil."
NilPolkaUnlocks ==
  [][ \A v \in c'.sent \ c.sent :
        /\ v.Type = PrecommitType
        /\ PowerOf[Prevotes(c.Votes, v.Round).votes[Nil]] >= Quorum(committee(c))
        => c'.LockedRound = -1
    ]_vars

\* README.md: "Once it reaches POL, the validator can only prevote/precommit the
\* POLed proposal in later rounds until it has a PoLC", a PoLC being +2/3
\* prevotes for a different proposal in a higher round.  Stated over the whole
\* history, so that it makes sense across a restart.
PrevotesOnRecord(height, round, d) ==
  {v.Address : v \in {w \in heard \cup c.sent :
     w.Type = PrevoteType /\ w.Height = height
       /\ w.Round = round /\ w.Proposed = d}}

POLBinds ==
  \A v, w \in c.sent :
    /\ v.Type = PrecommitType /\ v.Proposed # Nil
    /\ w.Type \in {PrevoteType, PrecommitType}
    /\ w.Proposed \notin {v.Proposed, Nil}
    /\ v.Height = w.Height
    /\ v.Round < w.Round
    => \E r \in (v.Round + 1)..w.Round, d \in Data \ {v.Proposed} :
         Decides(v.Height, PrevotesOnRecord(v.Height, r, d))
=============================================================================
