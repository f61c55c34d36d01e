--------------------------- MODULE CoreNodeProofs ----------------------------
(***************************************************************************)
(* What CoreNode promises, for every committee, environment and bound.     *)
(* NodeInv is the inductive invariant; what the core's functions do to it  *)
(* is in CoreProofs, so that an action only has to say which function it   *)
(* calls with which votes.                                                 *)
(***************************************************************************)
EXTENDS CoreNode, CoreProofs

\* The core waits for a timeout, or Start is about to schedule round 0.
Wakeful ==
  \/ Awake(c)
  \/ /\ starter # None /\ starter \in {0, c.Height}
     /\ c.Round = 0 /\ c.Step = 1 /\ c.ticker.ti # Pos(c)

NodeInv ==
  /\ Inv(c, heard)
  /\ heard \subseteq Vote
  /\ nilRead \in BOOLEAN
  /\ nilRead => c.panicked
  /\ restarts \in 0..MaxRestarts
  /\ starter \in Nat \cup {None}
  /\ starter # None => starter <= c.Height
  /\ ~c.panicked => Wakeful
  /\ restarts = 0 => HasLast(c) /\ Hist(c)

\* No running total of a VoteSet is near the end of int64.
SumsFit == TotalsFit(c.Votes)

\* What holds besides as long as this is so.
GuardInv ==
  /\ TotalsOK(c.Votes)
  /\ NoPolkaAfter(c.Votes, committee(c), c.Round)
  /\ NoPanic
  /\ restarts = 0 => LockHist(c, c.Round)

\* The core handled something, died of a nil pointer, or was started again.
Moved ==
  /\ restarts' = restarts
  /\ ~nilRead /\ nilRead' = FALSE
  /\ Basics(c, c', heard')
  /\ SumsFit => Guarded(c, c', c.Round, c'.Round)

Died ==
  /\ restarts' = restarts /\ nilRead' = TRUE
  /\ Advances(c, c')
  /\ c'.Votes = c.Votes /\ committee(c') = committee(c) /\ c'.Round = c.Round
  /\ LockHist(c, c.Round) => LockHist(c', c'.Round)

Restarted == restarts' = restarts + 1 /\ Safe(c', c'.Round)

-----------------------------------------------------------------------------
\* What an action that handles something has to show.
LEMMA MovedKeeps ==
  ASSUME NodeInv, Moved, heard' \subseteq Vote, starter' = starter,
         \/ c'.panicked \/ Awake(c')
         \/ ~Awake(c) /\ Pos(c') = Pos(c) /\ c'.ticker.ti = c.ticker.ti
  PROVE  NodeInv'
<1>1. IsCore(c) /\ IsCore(c') /\ Inv(c', heard') /\ restarts' = restarts
  BY DEF NodeInv, Moved, Basics, Inv
<1>2. c.Height \in Nat /\ c'.Height \in Nat /\ c'.Height >= c.Height
  <2>1. c.Height \in Nat /\ c'.Height \in Nat
    BY <1>1, Numbers
  <2> QED
    BY <2>1 DEF Moved, Basics, Advances
<1>3. starter # None => starter <= c'.Height
  <2>1. starter # None => starter \in Nat /\ starter <= c.Height
    BY DEF NodeInv
  <2> QED
    BY <1>2, <2>1
<1>4. ASSUME ~c'.panicked PROVE Wakeful'
  <2>1. CASE Awake(c')
    BY <2>1 DEF Wakeful
  <2>2. CASE ~Awake(c) /\ Pos(c') = Pos(c) /\ c'.ticker.ti = c.ticker.ti
    <3>1. ~c.panicked
      BY <1>4 DEF Moved, Basics
    <3>2. c'.Height = c.Height /\ c'.Round = c.Round /\ c'.Step = c.Step
      BY <2>2 DEF Pos
    <3> QED
      BY <2>2, <3>1, <3>2 DEF NodeInv, Wakeful
  <2> QED
    BY <1>4, <2>1, <2>2
<1>5. restarts' = 0 => HasLast(c') /\ Hist(c')
  BY <1>1 DEF NodeInv, Moved, Basics
<1>6. nilRead' = FALSE
  BY DEF Moved
<1> QED
  BY <1>1, <1>3, <1>4, <1>5, <1>6 DEF NodeInv

\* A core that has not panicked has not read nil.
LEMMA NotDead ==
  ASSUME NodeInv, ~c.panicked
  PROVE  nilRead = FALSE
BY DEF NodeInv

\* A message that is handled keeps the invariant of the node.
LEMMA HandledKeeps ==
  ASSUME NodeInv, ~c.panicked, Handled(c, c', heard'), heard' \subseteq Vote,
         nilRead' = FALSE, UNCHANGED <<restarts, starter>>
  PROVE  NodeInv' /\ Moved
<1>1. Moved
  BY NotDead DEF Handled, Moved, SumsFit
<1>2. \/ c'.panicked \/ Awake(c')
      \/ ~Awake(c) /\ Pos(c') = Pos(c) /\ c'.ticker.ti = c.ticker.ti
  BY DEF Handled, Wakes, Awake
<1> QED
  BY <1>1, <1>2, MovedKeeps

\* A message whose votes are remembered if it had an effect.
LEMMA HeardKeeps ==
  ASSUME NodeInv, ~c.panicked, NEW votes \in SUBSET Vote,
         Handled(c, c', heard \cup votes),
         heard' = IF c' = c THEN heard ELSE heard \cup votes,
         UNCHANGED <<nilRead, restarts, starter>>
  PROVE  NodeInv' /\ Moved
<1>0. nilRead' = FALSE
  BY NotDead
<1>1. heard \subseteq Vote /\ Inv(c, heard)
  BY DEF NodeInv
<1>2. CASE c' = c
  <2>1. Handled(c, c', heard')
    BY <1>1, <1>2, KeepsRefl, KeepsHandled
  <2> QED
    BY <1>0, <1>1, <1>2, <2>1, HandledKeeps
<1>3. CASE c' # c
  <2>1. heard' = heard \cup votes /\ heard' \subseteq Vote
    BY <1>1, <1>3
  <2> QED
    BY <1>0, <2>1, HandledKeeps
<1> QED
  BY <1>2, <1>3

\* A nil pointer was dereferenced.
LEMMA NilStep ==
  ASSUME NodeInv, ~c.panicked, NEW rest, rest \subseteq c.todo,
         c' = [NilDereference(c) EXCEPT !.todo = rest],
         nilRead' = TRUE, UNCHANGED <<heard, restarts, starter>>
  PROVE  NodeInv' /\ Died
<1>1. /\ Inv(c, heard) /\ heard \subseteq Vote
      /\ c.todo \in SUBSET (Vote \cup {None}) /\ c.todo \subseteq heard \cup {None}
  BY CoreType DEF NodeInv, Inv
<1>2. rest \in SUBSET (Vote \cup {None}) /\ rest \subseteq heard \cup {None}
  BY <1>1
<1>3. /\ Inv(c', heard) /\ Advances(c, c') /\ c'.panicked
      /\ c'.Votes = c.Votes /\ committee(c') = committee(c)
      /\ c'.Round = c.Round /\ c'.Height = c.Height
      /\ HasLast(c) => HasLast(c')
      /\ Hist(c) => Hist(c')
      /\ LockHist(c, c.Round) => LockHist(c', c'.Round)
  BY <1>1, <1>2, NilKeeps
<1> QED
  BY <1>3 DEF NodeInv, Died

-----------------------------------------------------------------------------
\* One lemma per action: messages ...
LEMMA RecvVoteStep ==
  ASSUME Assumptions, NodeInv, NEW vote \in EnvVotes, RecvVote(vote)
  PROVE  NodeInv' /\ Moved
<1>1. /\ vote \in Vote /\ {vote} \in SUBSET Vote /\ ~c.panicked
      /\ vote \in heard \cup {vote} \cup c.sent
  BY NodeAssumption DEF RecvVote, Selecting
<1>2. Inv(c, heard \cup {vote})
  BY MoreHeard DEF NodeInv
<1>3. Handled(c, handleVote(c, vote), heard \cup {vote})
  BY <1>1, <1>2, handleVoteKeeps
<1>4. /\ Handled(c, c', heard \cup {vote})
      /\ heard' = IF c' = c THEN heard ELSE heard \cup {vote}
      /\ UNCHANGED <<nilRead, restarts, starter>>
  BY <1>3 DEF RecvVote
<1> QED
  BY <1>1, <1>4, HeardKeeps

\* A Commit is received, ...
LEMMA RecvCommitStep ==
  ASSUME Assumptions, NodeInv, NEW commit \in EnvCommits, RecvCommit(commit)
  PROVE  NodeInv' /\ Moved
<1> DEFINE votes == commit.Precommits \ {None}
<1>1. /\ votes \in SUBSET Vote /\ ~c.panicked
      /\ commit.Precommits \subseteq Vote \cup {None}
      /\ commit.Precommits \subseteq (heard \cup votes) \cup {None}
  BY NodeAssumption DEF RecvCommit, Selecting
<1>2. Inv(c, heard \cup votes)
  BY MoreHeard DEF NodeInv
<1>3. Handled(c, handleCommit(c, commit), heard \cup votes)
  BY <1>1, <1>2, handleCommitKeeps
<1>4. /\ Handled(c, c', heard \cup votes)
      /\ heard' = IF c' = c THEN heard ELSE heard \cup votes
      /\ UNCHANGED <<nilRead, restarts, starter>>
  BY <1>3 DEF RecvCommit
<1> HIDE DEF votes
<1> QED
  BY <1>1, <1>4, HeardKeeps

\* ... a FetchVotesRsp, ...
LEMMA RecvFetchRspStep ==
  ASSUME Assumptions, NodeInv, NEW rsp \in EnvRsps, RecvFetchRsp(rsp)
  PROVE  NodeInv' /\ Moved
<1> DEFINE votes == rsp.MissingVotes \ {None}
<1>1. /\ votes \in SUBSET Vote /\ ~c.panicked
      /\ rsp.MissingVotes \subseteq Vote \cup {None}
      /\ rsp.MissingVotes \subseteq (heard \cup votes) \cup {None}
  BY NodeAssumption DEF RecvFetchRsp, Selecting
<1>2. Inv(c, heard \cup votes)
  BY MoreHeard DEF NodeInv
<1>3. Handled(c, handleFetchRsp(c, rsp), heard \cup votes)
  BY <1>1, <1>2, handleFetchRspKeeps
<1>4. /\ Handled(c, c', heard \cup votes)
      /\ heard' = IF c' = c THEN heard ELSE heard \cup votes
      /\ UNCHANGED <<nilRead, restarts, starter>>
  BY <1>3 DEF RecvFetchRsp
<1> HIDE DEF votes
<1> QED
  BY <1>1, <1>4, HeardKeeps

\* ... a FetchVotesReq, ...
LEMMA RecvFetchReqStep ==
  ASSUME NodeInv, NEW req \in EnvReqs, RecvFetchReq(req)
  PROVE  NodeInv' /\ (Moved \/ Died)
<1>1. /\ Inv(c, heard) /\ heard \subseteq Vote /\ ~c.panicked
      /\ heard' = heard /\ UNCHANGED <<restarts, starter>>
  BY DEF NodeInv, RecvFetchReq, Selecting
<1>2. CASE DereferencesNil(c, req)
  <2>1. c' = NilDereference(c) /\ nilRead' = TRUE
    BY <1>2 DEF RecvFetchReq
  <2>2. NilDereference(c) = [NilDereference(c) EXCEPT !.todo = c.todo]
    <3>1. IsCore(c)
      BY <1>1 DEF Inv
    <3> QED
      BY ONLY <3>1 DEF IsCore, NilDereference
  <2> QED
    BY <1>1, <2>1, <2>2, NilStep
<1>3. CASE ~DereferencesNil(c, req)
  <2>1. c' = c /\ nilRead' = FALSE
    BY <1>3 DEF RecvFetchReq
  <2>2. Handled(c, c', heard')
    BY <1>1, <2>1, KeepsRefl, KeepsHandled
  <2> QED
    BY <1>1, <2>1, <2>2, HandledKeeps
<1> QED
  BY <1>2, <1>3

\* ... and one vote of a message is added.
LEMMA TryAddVoteStep ==
  ASSUME Assumptions, NodeInv, NEW vote \in c.todo, TryAddVote(vote)
  PROVE  NodeInv' /\ (Moved \/ Died)
<1> DEFINE rest == c.todo \ {vote}
<1>1. /\ Inv(c, heard) /\ heard \subseteq Vote
      /\ c.todo \in SUBSET (Vote \cup {None}) /\ c.todo \subseteq heard \cup {None}
  BY CoreType DEF NodeInv, Inv
<1>2. /\ rest \in SUBSET (Vote \cup {None}) /\ rest \subseteq heard \cup {None}
      /\ rest \subseteq c.todo
  BY <1>1
<1>3. /\ ~c.panicked /\ c' = [tryAddVote(c, vote) EXCEPT !.todo = rest]
      /\ nilRead' = (vote = None)
      /\ UNCHANGED <<heard, restarts, starter>>
  BY DEF TryAddVote
<1> HIDE DEF rest
<1>4. CASE vote = None
  <2>1. c' = [NilDereference(c) EXCEPT !.todo = rest] /\ nilRead' = TRUE
    BY <1>3, <1>4 DEF tryAddVote
  <2> QED
    BY <1>2, <1>3, <2>1, NilStep
<1>5. CASE vote # None
  <2>1. vote \in heard /\ vote \in Vote
    BY <1>1, <1>5
  <2>2. Handled(c, c', heard)
    BY <1>1, <1>2, <1>3, <2>1, TryAddKeeps
  <2> QED
    BY <1>1, <1>3, <1>5, <2>2, HandledKeeps
<1> QED
  BY <1>4, <1>5

\* ... the core's own votes ...
LEMMA RecvOwnStep ==
  ASSUME Assumptions, NodeInv, RecvOwn
  PROVE  NodeInv' /\ Moved
<1>1. Inv(c, heard) /\ heard \subseteq Vote /\ ~c.panicked /\ c.msgQueue # <<>>
  BY DEF NodeInv, RecvOwn, Selecting
<1>2. Handled(c, handleVote([c EXCEPT !.msgQueue = Tail(@)], Head(c.msgQueue)), heard)
  BY <1>1, OwnVoteKeeps
<1>3. /\ Handled(c, c', heard) /\ heard' = heard /\ nilRead' = FALSE
      /\ UNCHANGED <<restarts, starter>>
  BY <1>1, <1>2, NotDead DEF RecvOwn
<1> QED
  BY <1>1, <1>3, HandledKeeps

\* An own vote does not fit the queue.
LEMMA DropOwnStep ==
  ASSUME NodeInv, DropOwn
  PROVE  NodeInv' /\ Moved
<1>1. /\ Inv(c, heard) /\ heard \subseteq Vote /\ c.msgQueue # <<>> /\ ~c.panicked
      /\ c' = [c EXCEPT !.msgQueue = Tail(@)]
      /\ heard' = heard /\ nilRead' = FALSE /\ UNCHANGED <<restarts, starter>>
  BY NotDead DEF NodeInv, DropOwn
<1>2. Keeps(c, c', heard) /\ Wakes(c, c')
  BY <1>1, TailKeeps
<1>3. Handled(c, c', heard)
  BY <1>2, KeepsHandled
<1> QED
  BY <1>1, <1>3, HandledKeeps

\* ... timeouts ...
LEMMA TimerFiresStep ==
  ASSUME NodeInv, TimerFires
  PROVE  NodeInv' /\ Moved
<1>1. /\ Inv(c, heard) /\ heard \subseteq Vote /\ c.ticker.armed
      /\ c' = [c EXCEPT !.ticker = TimeOut(@)]
      /\ ~nilRead /\ nilRead' = FALSE
      /\ heard' = heard /\ UNCHANGED <<restarts, starter>>
  BY NotDead DEF NodeInv, TimerFires
<1>2. /\ Keeps(c, c', heard) /\ Pos(c') = Pos(c) /\ c'.ticker.ti = c.ticker.ti
      /\ Awake(c) => Awake(c')
  BY <1>1, TimeOutKeeps
<1>3. Moved
  BY <1>1, <1>2, KeepsHalves DEF Keeps, Moved
<1> QED
  BY <1>1, <1>2, <1>3, MovedKeeps

\* A tock is received, late or in time.
LEMMA RecvTockStep ==
  ASSUME Assumptions, NodeInv, NEW ti \in c.ticker.tocks, RecvTock(ti)
  PROVE  NodeInv' /\ Moved
<1>1. /\ Inv(c, heard) /\ heard \subseteq Vote /\ ~c.panicked
      /\ c' = handleTimeout(c, ti)
      /\ ~nilRead /\ nilRead' = FALSE
      /\ heard' = heard /\ UNCHANGED <<restarts, starter>>
  BY NotDead DEF NodeInv, RecvTock, Selecting
<1>2. /\ Keeps(c, c', heard)
      /\ \/ c'.panicked \/ Awake(c')
         \/ ~Awake(c) /\ Pos(c') = Pos(c) /\ c'.ticker.ti = c.ticker.ti
  BY <1>1, handleTimeoutKeeps
<1>3. Moved
  BY <1>1, <1>2, KeepsHalves DEF Keeps, Moved
<1> QED
  BY <1>1, <1>2, <1>3, MovedKeeps

\* ... Start after receiveRoutine runs ...
LEMMA CopyRoundStateStep ==
  ASSUME Assumptions, NodeInv, CopyRoundState
  PROVE  NodeInv' /\ Moved
<1>1. /\ Inv(c, heard) /\ c' = c /\ heard' = heard /\ restarts' = restarts
      /\ starter' = c.Height /\ starter = 0 /\ ~nilRead /\ nilRead' = FALSE
  BY NotDead DEF NodeInv, CopyRoundState, Selecting
<1>2. c.Height \in Nat /\ c.Height <= c.Height /\ None \notin Nat
  BY <1>1, Numbers DEF Inv, Assumptions, NilPointsNowhere
<1>3. Moved
  <2>1. Keeps(c, c', heard')
    BY <1>1, KeepsRefl
  <2> QED
    BY <1>1, <2>1, KeepsHalves DEF Keeps, Moved
<1>4. NodeInv'
  BY <1>1, <1>2 DEF NodeInv, Wakeful
<1> QED
  BY <1>3, <1>4

\* The end of a Start: round 0 of the height it copied is scheduled.
LEMMA ScheduleRound0Step ==
  ASSUME Assumptions, NodeInv, ScheduleRound0
  PROVE  NodeInv' /\ Moved
<1>1. /\ Inv(c, heard) /\ heard \subseteq Vote /\ heard' = heard /\ restarts' = restarts
      /\ starter # None /\ starter # 0 /\ starter' = None
      /\ ~nilRead /\ nilRead' = FALSE
      /\ starter \in Nat /\ starter <= c.Height /\ Wakeful
      /\ c' = scheduleTimeout(c, starter, 0, RoundStepNewHeight)
  BY NotDead DEF NodeInv, ScheduleRound0
<1>2. /\ Keeps(c, c', heard) /\ Pos(c') = Pos(c)
      /\ Awake(c) => Awake(c')
      /\ /\ starter = c.Height /\ c.Round = 0 /\ c.Step = 1 /\ c.ticker.ti # Pos(c)
         => Awake(c')
  BY <1>1, LateRound0Keeps
<1>3. Awake(c')
  BY <1>1, <1>2 DEF Wakeful
<1>4. Moved
  BY <1>1, <1>2, KeepsHalves DEF Keeps, Moved
<1>5. restarts' = 0 => HasLast(c') /\ Hist(c')
  BY <1>1, <1>2 DEF NodeInv, Keeps, KeepsFrom
<1>6. Inv(c', heard')
  BY <1>1, <1>2 DEF Keeps, KeepsFrom
<1> QED
  BY <1>1, <1>3, <1>4, <1>5, <1>6 DEF NodeInv, Wakeful

\* ... and the application.
LEMMA AppBreaksStep ==
  ASSUME NodeInv, AppBreaks
  PROVE  NodeInv' /\ Moved
<1>1. /\ Inv(c, heard) /\ heard \subseteq Vote
      /\ c' = [c EXCEPT !.app.accepts = FALSE] /\ ~c.panicked
      /\ heard' = heard /\ nilRead' = FALSE /\ UNCHANGED <<restarts, starter>>
  BY NotDead DEF NodeInv, AppBreaks
<1>2. Keeps(c, c', heard) /\ Wakes(c, c')
  BY <1>1, BreaksKeeps
<1>3. Handled(c, c', heard)
  BY <1>2, KeepsHandled
<1> QED
  BY <1>1, <1>3, HandledKeeps

-----------------------------------------------------------------------------
\* The application keeps its commits when it moves on.
LEMMA CommitsStay ==
  ASSUME NEW commits, NEW app, NEW new, NEW known, CommitsOK(commits, app, known),
         app.LastHeight \in Nat, new.LastHeight \in Nat,
         \/ new.LastHeight > app.LastHeight
         \/ /\ new.LastHeight = app.LastHeight
            /\ new.LastProposedData = app.LastProposedData
  PROVE  CommitsOK(commits, new, known)
<1>1. ASSUME NEW rec \in commits PROVE CommitOK(rec, new, known)
  <2>1. CommitOK(rec, app, known)
    BY DEF CommitsOK
  <2> QED
    BY <2>1 DEF CommitOK
<1> QED
  BY <1>1 DEF CommitsOK

\* Stop and Start, with an application that may have moved on.
LEMMA RestartStep ==
  ASSUME Assumptions, NodeInv, NEW skipped \in 0..MaxSkipped, NEW data \in DataOrNil,
         Restart(skipped, data)
  PROVE  NodeInv' /\ Restarted
<1> DEFINE a == [c.app EXCEPT !.LastHeight = @ + skipped, !.LastProposedData = data]
           x == [c EXCEPT !.app = a]
<1>1. /\ IsCore(c) /\ CommitsOK(c.commits, c.app, heard \cup c.sent)
      /\ QueueKnown(c.msgQueue, c.sent)
      /\ c.panicked = FALSE /\ c.todo = {} /\ heard \subseteq Vote
      /\ restarts \in 0..MaxRestarts /\ restarts < MaxRestarts
      /\ restarts' = restarts + 1 /\ starter' = 0 /\ heard' = heard
      /\ nilRead' = FALSE
      /\ skipped = 0 => data = c.app.LastProposedData
  BY CoreType, NotDead DEF NodeInv, Inv, Restart, Selecting
<1>2. c.CommitRound = -1
  BY <1>1 DEF NodeInv, Inv, NotCommitting
<1>3. /\ c.app \in [LastHeight : Nat, LastProposedData : DataOrNil, accepts : BOOLEAN]
      /\ skipped \in Nat /\ MaxRestarts \in Nat
  BY <1>1, CoreType, NodeAssumption
<1>4. /\ a \in [LastHeight : Nat, LastProposedData : DataOrNil, accepts : BOOLEAN]
      /\ a.LastHeight = c.app.LastHeight + skipped /\ a.LastProposedData = data
  <2> DEFINE h == c.app.LastHeight + skipped
  <2>1. h \in Nat
    BY <1>3
  <2>2. a = [c.app EXCEPT !.LastHeight = h, !.LastProposedData = data]
    BY <1>3
  <2> HIDE DEF h, a
  <2>3. /\ a \in [LastHeight : Nat, LastProposedData : DataOrNil, accepts : BOOLEAN]
        /\ a.LastHeight = h /\ a.LastProposedData = data
    BY ONLY <1>3, <2>1, <2>2, data \in DataOrNil
  <2> QED
    BY <2>3 DEF h
<1>5. x = [c EXCEPT !.app.LastHeight = @ + skipped, !.app.LastProposedData = data]
  BY <1>1 DEF IsCore
<1> HIDE DEF a
<1>6. IsCore(x)
  BY ONLY <1>1, <1>4 DEF IsCore
<1>7. /\ x.CommitRound = -1 /\ x.app = a /\ x.commits = c.commits /\ Quiet(c, x)
      /\ x.todo = {} /\ x.panicked = FALSE
  BY ONLY <1>1, <1>2 DEF IsCore, Quiet
<1>8. c' = startUp(x)
  BY <1>5 DEF Restart
<1> HIDE DEF x
<1>9. StartedUp(x, c')
  BY <1>6, <1>7, <1>8, startUpResult
<1>10. /\ Fresh(c') /\ c'.panicked = FALSE /\ c'.commits = c.commits /\ c'.app = a
       /\ c'.sent = c.sent /\ c'.msgQueue = c.msgQueue /\ c'.todo = {}
       /\ c'.ticker = NewTimeoutTicker
  BY <1>7, <1>9 DEF StartedUp, Quiet
<1>11. /\ IsCore(c') /\ c'.Height \in Nat /\ c'.Height > 0 /\ c'.Round = 0 /\ c'.Step = 1
  BY <1>10, CoreType DEF Fresh
<1>12. TicksOK(c'.ticker, Pos(c')) /\ c'.ticker.ti # Pos(c')
  BY <1>10, <1>11, NewTicker
<1>13. CommitsOK(c'.commits, c'.app, heard' \cup c'.sent)
  <2>1. \/ a.LastHeight > c.app.LastHeight
        \/ a.LastHeight = c.app.LastHeight /\ a.LastProposedData = c.app.LastProposedData
    BY <1>1, <1>3, <1>4
  <2>2. c.app.LastHeight \in Nat /\ a.LastHeight \in Nat
    BY <1>3, <1>4
  <2>3. CommitsOK(c.commits, a, heard \cup c.sent)
    BY <1>1, <2>1, <2>2, CommitsStay
  <2> QED
    BY <1>1, <1>10, <2>3
<1>14. Inv(c', heard') /\ Safe(c', c'.Round)
  <2>1. QueueKnown(c'.msgQueue, c'.sent) /\ c'.todo \subseteq heard'
    BY <1>1, <1>10
  <2> QED
    BY <1>10, <1>12, <1>13, <2>1, FreshOK
<1>15. restarts' \in 0..MaxRestarts /\ restarts' # 0
  BY <1>1, <1>3
<1>16. starter' \in Nat /\ starter' <= c'.Height /\ None \notin Nat
  BY <1>1, <1>11 DEF Assumptions, NilPointsNowhere
<1>17. Wakeful'
  BY <1>1, <1>11, <1>12, <1>16 DEF Wakeful
<1> QED
  BY <1>1, <1>14, <1>15, <1>16, <1>17 DEF NodeInv, Restarted

\* The process dies and is run again.
LEMMA CrashStep ==
  ASSUME Assumptions, NodeInv, Crash
  PROVE  NodeInv' /\ Restarted
<1> DEFINE s == Start(NewCore(c.self, c.app))
<1>1. /\ IsCore(c) /\ CommitsOK(c.commits, c.app, heard \cup c.sent)
      /\ heard \subseteq Vote /\ restarts \in 0..MaxRestarts /\ restarts < MaxRestarts
      /\ restarts' = restarts + 1 /\ starter' = None /\ heard' = heard
      /\ nilRead' = FALSE
      /\ c' = [s EXCEPT !.sent = c.sent, !.commits = c.commits, !.announced = c.announced]
  BY DEF NodeInv, Inv, Crash
<1>2. /\ c.self \in Nodes
      /\ c.app \in [LastHeight : Nat, LastProposedData : DataOrNil, accepts : BOOLEAN]
      /\ c.sent \in SUBSET Vote /\ c.commits \in SUBSET Commits
      /\ c.announced \in SUBSET Commits /\ MaxRestarts \in Nat
  BY <1>1, CoreType, NodeAssumption
<1>3. /\ Fresh(s) /\ s.self = c.self /\ s.app = c.app /\ s.panicked = FALSE
      /\ s.todo = {} /\ s.msgQueue = <<>>
      /\ TicksOK(s.ticker, Pos(s)) /\ Awake(s)
  <2> DEFINE self == c.self
             app  == c.app
  <2>1. /\ self \in Nodes
        /\ app \in [LastHeight : Nat, LastProposedData : DataOrNil, accepts : BOOLEAN]
    BY <1>2
  <2> HIDE DEF self, app
  <2>2. Starts(self, app, Start(NewCore(self, app)))
    BY ONLY Assumptions, <2>1, StartResult
  <2> QED
    BY <2>2 DEF Starts, self, app
<1> HIDE DEF s
<1>4. IsCore(s)
  BY <1>3 DEF Fresh
<1>5. IsCore(c')
  BY ONLY <1>1, <1>2, <1>4 DEF IsCore
<1>6. /\ c'.sent = c.sent /\ c'.commits = c.commits /\ c'.app = s.app
      /\ c'.msgQueue = s.msgQueue /\ c'.todo = s.todo /\ c'.panicked = s.panicked
      /\ c'.ticker = s.ticker
      /\ c'.Height = s.Height /\ c'.Round = s.Round /\ c'.Step = s.Step
      /\ c'.LockedRound = s.LockedRound /\ c'.LockedProposal = s.LockedProposal
      /\ c'.CommitRound = s.CommitRound /\ c'.LastCommit = s.LastCommit
      /\ c'.lastCommittedData = s.lastCommittedData /\ c'.Votes = s.Votes
  BY ONLY <1>1, <1>4 DEF IsCore
<1>7. Fresh(c')
  BY <1>3, <1>5, <1>6 DEF Fresh
<1>8. Pos(c') = Pos(s) /\ TicksOK(c'.ticker, Pos(c')) /\ Awake(c')
  BY <1>3, <1>6 DEF Pos, Awake
<1>9. Inv(c', heard') /\ Safe(c', c'.Round)
  <2>1. /\ QueueKnown(c'.msgQueue, c'.sent) /\ c'.todo \subseteq heard'
        /\ CommitsOK(c'.commits, c'.app, heard' \cup c'.sent) /\ c'.panicked = FALSE
    BY <1>1, <1>3, <1>6 DEF QueueKnown
  <2> QED
    BY <1>7, <1>8, <2>1, FreshOK
<1>10. restarts' \in 0..MaxRestarts /\ restarts' # 0
  BY <1>1, <1>2
<1> QED
  BY <1>1, <1>2, <1>8, <1>9, <1>10 DEF NodeInv, Restarted, Wakeful

\* The invariants hold at first ...
LEMMA InitOK ==
  ASSUME Assumptions, Init
  PROVE  NodeInv /\ GuardInv
<1> DEFINE app == [LastHeight |-> 0, LastProposedData |-> Nil, accepts |-> TRUE]
<1>1. PICK self \in Selves : c = Start(NewCore(self, app))
  BY DEF Init
<1>2. /\ heard = {} /\ restarts = 0 /\ starter = None
      /\ app \in [LastHeight : Nat, LastProposedData : DataOrNil, accepts : BOOLEAN]
      /\ self \in Nodes /\ MaxRestarts \in Nat /\ app.LastHeight = 0
  BY NodeAssumption DEF Init, DataOrNil
<1> HIDE DEF app
<1>3. /\ Fresh(c) /\ c.self = self /\ c.app = app /\ c.panicked = FALSE
      /\ c.todo = {} /\ c.msgQueue = <<>> /\ c.sent = {} /\ c.commits = {}
      /\ TicksOK(c.ticker, Pos(c)) /\ Awake(c)
  <2>1. Starts(self, app, Start(NewCore(self, app)))
    BY ONLY Assumptions, <1>2, StartResult
  <2> QED
    BY <1>1, <2>1 DEF Starts
<1>4. Inv(c, heard) /\ Safe(c, c.Round) /\ nilRead = FALSE
  <2>1. /\ QueueKnown(c.msgQueue, c.sent) /\ c.todo \subseteq heard
        /\ CommitsOK(c.commits, c.app, heard \cup c.sent)
    BY <1>3 DEF QueueKnown, CommitsOK
  <2>2. nilRead = FALSE
    BY DEF Init
  <2> QED
    BY <1>3, <2>1, <2>2, FreshOK
<1>5. HasLast(c) /\ Hist(c) /\ LockHist(c, c.Round)
  BY <1>2, <1>3 DEF Fresh, HasLast, Hist, SentBefore, SentOnce, SentJustified,
    LockHist, LockHeld, LockObeyed
<1>6. GuardInv
  BY <1>3, <1>4, <1>5 DEF GuardInv, Safe, NoPanic
<1>7. NodeInv
  <2>1. restarts \in 0..MaxRestarts /\ starter = None /\ heard = {}
    BY <1>2
  <2> QED
    BY <1>3, <1>4, <1>5, <2>1 DEF NodeInv, Wakeful
<1> QED
  BY <1>6, <1>7

\* ... and every step keeps them.
LEMMA NextOK ==
  ASSUME Assumptions, NodeInv, Next
  PROVE  NodeInv' /\ (Moved \/ Died \/ Restarted)
<1>1. ASSUME NEW vote \in EnvVotes, RecvVote(vote) PROVE NodeInv' /\ Moved
  BY <1>1, RecvVoteStep
<1>2. ASSUME NEW commit \in EnvCommits, RecvCommit(commit) PROVE NodeInv' /\ Moved
  BY <1>2, RecvCommitStep
<1>3. ASSUME NEW rsp \in EnvRsps, RecvFetchRsp(rsp) PROVE NodeInv' /\ Moved
  BY <1>3, RecvFetchRspStep
<1>4. ASSUME NEW vote \in c.todo, TryAddVote(vote) PROVE NodeInv' /\ (Moved \/ Died)
  BY <1>4, TryAddVoteStep
<1>5. CASE RecvOwn
  BY <1>5, RecvOwnStep
<1>6. CASE DropOwn
  BY <1>6, DropOwnStep
<1>7. CASE TimerFires
  BY <1>7, TimerFiresStep
<1>8. ASSUME NEW ti \in c.ticker.tocks, RecvTock(ti) PROVE NodeInv' /\ Moved
  BY <1>8, RecvTockStep
<1>9. ASSUME NEW skipped \in 0..MaxSkipped, NEW data \in DataOrNil, Restart(skipped, data)
      PROVE  NodeInv' /\ Restarted
  BY <1>9, RestartStep
<1>10. CASE CopyRoundState
  BY <1>10, CopyRoundStateStep
<1>11. CASE ScheduleRound0
  BY <1>11, ScheduleRound0Step
<1>12. CASE Crash
  BY <1>12, CrashStep
<1>13. CASE AppBreaks
  BY <1>13, AppBreaksStep
<1>14. ASSUME NEW req \in EnvReqs, RecvFetchReq(req) PROVE NodeInv' /\ (Moved \/ Died)
  BY <1>14, RecvFetchReqStep
<1> QED
  BY <1>1, <1>2, <1>3, <1>4, <1>5, <1>6, <1>7, <1>8, <1>9, <1>10, <1>11, <1>12, <1>13,
     <1>14 DEF Next

\* Nothing happens.
LEMMA StutterOK ==
  ASSUME NodeInv, UNCHANGED vars
  PROVE  NodeInv'
BY DEF NodeInv, Wakeful, vars

\* Every step keeps what depends on the totals of the votes.
LEMMA GuardOK ==
  ASSUME Assumptions, NodeInv, GuardInv, SumsFit, [Next]_vars
  PROVE  GuardInv'
<1>1. CASE Moved
  <2>1. /\ Guarded(c, c', c.Round, c'.Round) /\ restarts' = restarts
        /\ ~nilRead /\ nilRead' = FALSE
    BY <1>1 DEF Moved
  <2>2. restarts = 0 => Hist(c)
    BY DEF NodeInv
  <2>3. Safe(c, c.Round)
    BY <2>1 DEF GuardInv, NoPanic, Safe
  <2>4. Safe(c', c'.Round) /\ (restarts = 0 => LockHist(c', c'.Round))
    BY <2>1, <2>2, <2>3 DEF GuardInv, Guarded
  <2> QED
    BY <2>1, <2>4 DEF GuardInv, NoPanic, Safe
<1>2. CASE Restarted
  <2>1. restarts' # 0
    BY <1>2, NodeAssumption DEF Restarted, NodeInv
  <2> QED
    BY <1>2, <2>1 DEF GuardInv, NoPanic, Safe, Restarted
<1>3. CASE UNCHANGED vars
  BY <1>3 DEF GuardInv, NoPanic, vars
<1>4. CASE Died
  BY <1>4 DEF GuardInv, NoPanic, Died
<1> QED
  BY <1>1, <1>2, <1>3, <1>4, NextOK

-----------------------------------------------------------------------------
(***************************************************************************)
(* What holds of every behaviour, restarts, crashes and wrapped totals     *)
(* included.                                                               *)
(***************************************************************************)

\* NodeInv is an invariant.
THEOREM NodeInvariant ==
  ASSUME Assumptions
  PROVE  Spec => []NodeInv
<1>1. Init => NodeInv
  BY InitOK
<1>2. NodeInv /\ [Next]_vars => NodeInv'
  BY NextOK, StutterOK
<1> QED
  BY <1>1, <1>2, PTL DEF Spec

\* The core's fields keep their types: the functions of bftcore.go return a core.
THEOREM TypeCorrect ==
  ASSUME Assumptions
  PROVE  Spec => []TypeOK
<1>1. NodeInv => TypeOK
  BY DEF NodeInv, Inv, TypeOK
<1> QED
  BY <1>1, NodeInvariant, PTL

\* The maps of HeightVoteSet cover every round the core may ask for, and no round
\* beyond the watermark.
THEOREM RoundsAreTracked ==
  ASSUME Assumptions
  PROVE  Spec => []TrackedRounds
<1>1. ASSUME NodeInv PROVE TrackedRounds
  <2>1. /\ IsCore(c) /\ IsHeightVoteSet(c.Votes) /\ RoundsOK(c.Votes, c.Round, c.Step)
    BY <1>1 DEF NodeInv, Inv, IsCore
  <2>2. /\ c.Round \in Nat /\ c.Votes.round \in Nat
        /\ DOMAIN c.Votes.roundVoteSets \subseteq Nat
    BY <2>1, CoreType, HeightVoteSetType
  <2>3. ASSUME NEW type \in {PrevoteType, PrecommitType}, NEW r \in -1..(c.Round + 1)
        PROVE  DereferencesNil(c, RequestFor(type, r)) <=> r < 0
    <3>1. r \in Int /\ r <= c.Round /\ r >= 0 => r \in 0..c.Votes.round
      BY <2>1, <2>2 DEF RoundsOK
    <3>2. r < 0 => r \notin DOMAIN c.Votes.roundVoteSets /\ r <= c.Round
      BY <2>2
    <3>3. ReqIsValid(RequestFor(type, r))
      BY ListAssumption DEF ReqIsValid, RequestFor
    <3>4. DereferencesNil(c, RequestFor(type, r))
            <=> r <= c.Round /\ r \notin DOMAIN c.Votes.roundVoteSets
      BY <3>3 DEF DereferencesNil, RequestFor
    <3>5. r \in 0..c.Votes.round => r \in DOMAIN c.Votes.roundVoteSets
      BY <2>1 DEF RoundsOK
    <3>6. r \in Int
      OBVIOUS
    <3> QED
      BY <3>1, <3>2, <3>4, <3>5, <3>6
  <2> QED
    BY <2>1, <2>3 DEF RoundsOK, TrackedRounds
<1> QED
  BY <1>1, NodeInvariant, PTL

\* A lock is the data of a polka of its round that the core precommitted.
THEOREM LocksAreJustified ==
  ASSUME Assumptions
  PROVE  Spec => []LockJustified
<1>1. NodeInv => LockJustified
  BY DEF NodeInv, Inv, LockOK, PolkaIn, LockJustified, Polka, isValidator
<1> QED
  BY <1>1, NodeInvariant, PTL

\* receiveRoutine never waits at its select without a timeout on its way that
\* handleTimeout will not ignore.
THEOREM AlwaysWoken ==
  ASSUME Assumptions
  PROVE  Spec => []WakeUp
<1>1. NodeInv => WakeUp
  BY DEF NodeInv, Wakeful, Awake, Pos, Selecting, WakeUp
<1> QED
  BY <1>1, NodeInvariant, PTL

\* The core works on the height after the application's, also after a Commit
\* that failed.
THEOREM StaysInStep ==
  ASSUME Assumptions
  PROVE  Spec => []InStepWithApp
<1>1. NodeInv => InStepWithApp
  BY DEF NodeInv, Inv, AtHeight, InStepWithApp
<1> QED
  BY <1>1, NodeInvariant, PTL

\* LastCommit proves what was committed at the previous height.
THEOREM LastCommitProves ==
  ASSUME Assumptions
  PROVE  Spec => []LastCommitIsEvidence
<1>1. NodeInv => LastCommitIsEvidence
  BY DEF NodeInv, Inv, LastOK, HasLast, DecidedBy, Decides, LastCommitIsEvidence
<1> QED
  BY <1>1, NodeInvariant, PTL

\* What doCommit hands to the application carries +2/3 of the power in votes that
\* were signed, once per height, each on top of the one before.
THEOREM CommitsFinal ==
  ASSUME Assumptions
  PROVE  Spec => []CommitsAreFinal
<1>1. NodeInv => CommitsAreFinal
  BY DEF NodeInv, Inv, CommitsOK, CommitOK, DecidedBy, Decides, CommitsAreFinal
<1> QED
  BY <1>1, NodeInvariant, PTL

\* handleFetch answers with votes that were signed, which prove the commit of an
\* earlier height.
THEOREM AnswersProve ==
  ASSUME Assumptions
  PROVE  Spec => []AnswersAreEvidence
<1>1. ASSUME NodeInv,
             NEW type \in {PrevoteType, PrecommitType}, NEW h \in 1..c.Height,
             NEW r \in 0..c.Round
      PROVE  LET req == [Type |-> type, Height |-> h, Round |-> r,
                         Voters |-> {}, len |-> 0]
             IN  \A rsp \in handleFetch(c, req) :
                   /\ rsp.MissingVotes \subseteq heard \cup c.sent
                   /\ h < c.Height => Decides(h, {v.Address : v \in rsp.MissingVotes})
  <2> DEFINE req == [Type |-> type, Height |-> h, Round |-> r, Voters |-> {}, len |-> 0]
  <2>1. /\ c.Height \in Nat /\ c.Round \in Nat
        /\ CommitsOK(c.commits, c.app, heard \cup c.sent)
        /\ VotesKnown(c.Votes, heard \cup c.sent)
    BY <1>1, Numbers DEF NodeInv, Inv
  <2>2. h \in Nat /\ r \in Nat /\ type \in VoteTypes
    BY <2>1 DEF VoteTypes
  <2>3. req.Height = h /\ req.Round = r /\ req.Type = type
    OBVIOUS
  <2> HIDE DEF req
  <2> SUFFICES ASSUME NEW rsp \in handleFetch(c, req)
               PROVE  /\ rsp.MissingVotes \subseteq heard \cup c.sent
                      /\ h < c.Height
                           => Decides(h, {v.Address : v \in rsp.MissingVotes})
    BY DEF req
  <2>4. CASE h < c.Height
    <3>0. ~DereferencesNil(c, req) /\ ReqIsValid(req)
      BY <2>1, <2>2, <2>3, <2>4 DEF handleFetch, DereferencesNil
    <3>1. PICK commit \in c.commits :
            CommitHeight(commit) = h /\ rsp.MissingVotes = commit.Precommits
      BY <2>3, <2>4, <3>0 DEF handleFetch
    <3>2. CommitOK(commit, c.app, heard \cup c.sent)
      BY <2>1 DEF CommitsOK
    <3> QED
      BY <3>1, <3>2 DEF CommitOK, DecidedBy, Decides
  <2>5. CASE ~(h < c.Height)
    <3> DEFINE vs == getVoteSet(c.Votes, r, type)
    <3>1. rsp = MakeFetchVotesRsp(vs, req)
      BY <2>3, <2>5 DEF handleFetch
    <3>2. \A d \in DataOrNil : VotesFor(vs, d) \subseteq heard \cup c.sent
      BY <2>1, <2>2 DEF VotesKnown
    <3> HIDE DEF vs
    <3>3. rsp.MissingVotes \subseteq UNION {VotesFor(vs, d) : d \in DataOrNil}
      BY <3>1 DEF MakeFetchVotesRsp
    <3> QED
      BY <2>5, <3>2, <3>3
  <2> QED
    BY <2>4, <2>5
<1>2. NodeInv => AnswersAreEvidence
  BY <1>1 DEF AnswersAreEvidence
<1> QED
  BY <1>2, NodeInvariant, PTL

\* Height, round and step only grow, and the lock never falls back, unless the
\* node is started again.
THEOREM NeverGoesBack ==
  ASSUME Assumptions
  PROVE  Spec => NeverBack
<1> DEFINE Forward ==
      restarts' = restarts =>
        \/ c'.Height > c.Height
        \/ /\ c'.Height = c.Height
           /\ \/ c'.Round > c.Round
              \/ c'.Round = c.Round /\ c'.Step >= c.Step
           /\ c'.LockedRound = -1 \/ c'.LockedRound >= c.LockedRound
<1>1. ASSUME NodeInv, Moved PROVE Forward
  <2>1. /\ IsCore(c) /\ IsCore(c') /\ Advances(c, c')
        /\ LockOK(c.LockedRound, c.LockedProposal, c.Height, c.Round, c.Votes,
                  committee(c), c.sent, c.self)
    BY <1>1 DEF NodeInv, Moved, Basics, Inv
  <2>2. /\ c.Height \in Nat /\ c.Round \in Nat /\ c.Step \in Int
        /\ c.LockedRound \in Int /\ c'.LockedRound \in Int /\ c'.LockedRound >= -1
    BY <2>1, Numbers
  <2>3. c.LockedRound = -1 \/ c.LockedRound <= c.Round
    BY <2>1 DEF LockOK
  <2> QED
    BY <2>1, <2>2, <2>3, Numbers DEF Advances
<1>4. ASSUME NodeInv, NodeInv', Died PROVE Forward
  <2>1. /\ IsCore(c) /\ IsCore(c') /\ Advances(c, c')
        /\ LockOK(c.LockedRound, c.LockedProposal, c.Height, c.Round, c.Votes,
                  committee(c), c.sent, c.self)
    BY <1>4 DEF NodeInv, Died, Inv
  <2>2. /\ c.Height \in Nat /\ c.Round \in Nat /\ c.Step \in Int
        /\ c.LockedRound \in Int /\ c'.LockedRound \in Int /\ c'.LockedRound >= -1
    BY <2>1, Numbers
  <2>3. c.LockedRound = -1 \/ c.LockedRound <= c.Round
    BY <2>1 DEF LockOK
  <2> QED
    BY <2>1, <2>2, <2>3, Numbers DEF Advances
<1>2. ASSUME NodeInv, Restarted PROVE Forward
  <2>1. restarts \in Nat /\ restarts' = restarts + 1
    BY <1>2, NodeAssumption DEF NodeInv, Restarted
  <2> QED
    BY <2>1
<1>3. NodeInv /\ [Next]_vars => [Forward]_vars
  BY <1>1, <1>2, <1>4, NextOK
<1> QED
  BY <1>3, NodeInvariant, PTL DEF NeverBack, Spec

-----------------------------------------------------------------------------
(***************************************************************************)
(* What a node promises until it is started again: its votes and its lock  *)
(* are kept in memory only.                                                *)
(***************************************************************************)

\* The core signs one vote of a type for a height and a round.
THEOREM SignsOnce ==
  ASSUME Assumptions
  PROVE  Spec => [](restarts = 0 => NoEquivocation)
<1>1. NodeInv => (restarts = 0 => NoEquivocation)
  BY DEF NodeInv, Hist, SentOnce, NoEquivocation
<1> QED
  BY <1>1, NodeInvariant, PTL

\* A precommit for data is signed with a polka of its round (enterPrecommit).
THEOREM PrecommitsAreJustified ==
  ASSUME Assumptions
  PROVE  Spec => [](restarts = 0 => PrecommitJustified)
<1>1. NodeInv => (restarts = 0 => PrecommitJustified)
  BY DEF NodeInv, Hist, SentJustified, PolkaIn, Polka, PrecommitJustified
<1> QED
  BY <1>1, NodeInvariant, PTL

-----------------------------------------------------------------------------
(***************************************************************************)
(* What holds as long as no running total wraps around.  A VoteSet that    *)
(* lost count may answer HasTwoThirdsAny wrongly, and the core misses that *)
(* the others went on to a later round.                                    *)
(***************************************************************************)

\* GuardInv is an invariant then.
THEOREM GuardInvariant ==
  ASSUME Assumptions
  PROVE  Spec /\ []SumsFit => []GuardInv
<1>1. Init => GuardInv
  BY InitOK
<1>2. NodeInv /\ GuardInv /\ SumsFit /\ [Next]_vars => GuardInv'
  BY GuardOK
<1> QED
  BY <1>1, <1>2, NodeInvariant, PTL DEF Spec

\* No PanicSanity of bftcore.go or height_vote_set.go is reached, except after a
\* Commit that failed.
THEOREM NeverPanics ==
  ASSUME Assumptions
  PROVE  Spec /\ []SumsFit => []NoPanic
<1>1. GuardInv => NoPanic
  BY DEF GuardInv
<1> QED
  BY <1>1, GuardInvariant, PTL

\* No polka is ahead of the core: a vote that completes one takes the core to its
\* round in the same call of addVote.
THEOREM FollowsPolkas ==
  ASSUME Assumptions
  PROVE  Spec /\ []SumsFit => []PolkaNotAhead
<1>1. NodeInv /\ GuardInv => PolkaNotAhead
  <2> SUFFICES ASSUME NodeInv, GuardInv, NEW r \in DOMAIN c.Votes.roundVoteSets,
                      NEW d \in Data, Polka(r, d)
               PROVE  r <= c.Round
    BY DEF PolkaNotAhead
  <2>1. IsHeightVoteSet(c.Votes)
    BY DEF NodeInv, Inv, IsCore
  <2>2. r \in Nat
    BY <2>1, HeightVoteSetType
  <2> QED
    BY <2>2 DEF GuardInv, NoPolkaAfter, PolkaIn, Polka
<1> QED
  BY <1>1, NodeInvariant, GuardInvariant, PTL

\* After precommitting data a core prevotes something else only with a polka for
\* something else in between (doPrevote, onPolka and enterPrecommit).
THEOREM LocksBind ==
  ASSUME Assumptions
  PROVE  Spec /\ []SumsFit => [](restarts = 0 => LockRule)
<1>1. GuardInv => (restarts = 0 => LockRule)
  BY DEF GuardInv, LockHist, LockObeyed, Released, PolkaIn, Polka, LockRule
<1> QED
  BY <1>1, GuardInvariant, PTL
=============================================================================
