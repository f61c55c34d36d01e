------------------------------- MODULE Network -------------------------------
(***************************************************************************)
(* Several cores and the network between them.  Every vote and every       *)
(* Commit a core ever broadcast may reach every other core at any time,    *)
(* any number of times or never; a core that asks for missing votes is     *)
(* answered by some other core.  The validators that run no core are       *)
(* faulty and show FaultyVotes to whom they like.  They cannot sign for a  *)
(* core, but the round is not signed: any vote of a core they may show as  *)
(* one of another round.                                                   *)
(*                                                                         *)
(* A handler is Core's.  A timeout is received when it fires, and a        *)
(* response when it is made: late tocks and late responses are the subject *)
(* of CoreNode and VoteExchange.  Nobody is restarted (see POLBinds).      *)
(* Requests of the faulty are left out: they change nothing, or end the    *)
(* process (DereferencesNil), which is then one that does nothing more.    *)
(***************************************************************************)
EXTENDS Core

CONSTANTS
  Cores,        \* the nodes that run this code, validators or not
  FaultyVotes,  \* the votes the other validators may show, of whomever
  FaultyCommits, \* and their Commit messages
  MayReround,   \* may they show votes in other rounds than the signers'?
  OwnFirst,     \* bound: a core gets its own votes before anything else
  MaxRound,     \* bound: the last round of a height
  MaxHeight,    \* bound: a core that committed it only answers requests
  TheHeight     \* the height, whichever it is, whose votes Voting is about

Faulty == Validators \ Cores

\* The committee of TheHeight, and those of it that run no core.
Members == CommitteeAt(TheHeight)
FaultyMembers == Members \ Cores

ASSUME NetworkAssumption ==
  /\ Cores \subseteq Nodes
  /\ \A h \in 1..(MaxHeight + 1) : CommitteeAt(h) \subseteq Validators
  /\ 3 * PowerOf[FaultyMembers] < PowerOf[Members]
  /\ 2 * PowerOf[Validators] <= MaxInt64
  /\ FaultyVotes \subseteq Vote
  /\ \A commit \in FaultyCommits : commit.Precommits \subseteq Vote \cup {None}
  /\ \A v \in FaultyVotes \cup UNION {commit.Precommits : commit \in FaultyCommits} :
       v # None => v.Round <= MaxRound
  /\ MayReround \in BOOLEAN
  /\ OwnFirst \in BOOLEAN
  /\ MaxRound \in Nat
  /\ MaxHeight \in Nat
  /\ TheHeight \in 1..MaxHeight

VARIABLES
  core,      \* the core of each node
  rerounded  \* have votes been shown in other rounds than their signers'?

vars == <<core, rerounded>>

\* receiveRoutine is at its select.
Selecting(n) == ~core[n].panicked /\ core[n].todo = {}
Running(n)   == Selecting(n) /\ core[n].Height <= MaxHeight
Listening(n) == Running(n) /\ (OwnFirst => core[n].msgQueue = <<>>)

\* A vote that verifies under a core's key has a Digest which that core signed.
\* It may be of another round, once somebody shows such votes.
Signable(vote) ==
  vote.sigOK /\ vote.Address \in Cores =>
    \E v \in core[vote.Address].sent :
      Digest(v) = Digest(vote) /\ (v.Round = vote.Round \/ rerounded)

\* What core n may be sent: the broadcasts of the others.
Broadcasts(n) == {vote \in FaultyVotes : Signable(vote)}
                   \cup UNION {core[m].sent : m \in Cores \ {n}}
CommitsFor(n) ==
  {commit \in FaultyCommits : \A vote \in commit.Precommits \ {None} : Signable(vote)}
    \cup UNION {core[m].announced : m \in Cores \ {n}}

-----------------------------------------------------------------------------
RecvVote(n, vote) ==
  /\ Listening(n)
  /\ VoteIsValid(vote)
  /\ core' = [core EXCEPT ![n] = handleVote(@, vote)]
  /\ UNCHANGED rerounded

RecvCommit(n, commit) ==
  /\ Listening(n)
  /\ core' = [core EXCEPT ![n] = handleCommit(@, commit)]
  /\ UNCHANGED rerounded

\* One vote of a Commit or of a response.
TryAddVote(n, vote) ==
  /\ ~core[n].panicked
  /\ core' = [core EXCEPT ![n] = [tryAddVote(core[n], vote) EXCEPT
                                   !.todo = core[n].todo \ {vote}]]
  /\ UNCHANGED rerounded

RecvOwn(n) ==
  /\ Running(n)
  /\ core[n].msgQueue # <<>>
  /\ core' = [core EXCEPT ![n] = handleVote([core[n] EXCEPT !.msgQueue = Tail(@)],
                                            Head(core[n].msgQueue))]
  /\ UNCHANGED rerounded

\* The end of the wait for precommits in the last round is out of bounds.
TimerArmed(n) ==
  /\ ~core[n].panicked
  /\ core[n].Height <= MaxHeight
  /\ core[n].ticker.armed
  /\ \/ core[n].ticker.ti.Step # RoundStepPrecommitWait
     \/ core[n].ticker.ti.Round < MaxRound

TimedOut(c) == handleTimeout([c EXCEPT !.ticker = TimeOut(@)], c.ticker.ti)

\* A request does not outlive the step: it is answered at once or never.
AfterTimeout(n) == [TimedOut(core[n]) EXCEPT !.fvr = None]

Timeout(n) ==
  /\ Listening(n)
  /\ TimerArmed(n)
  /\ core' = [core EXCEPT ![n] = AfterTimeout(n)]
  /\ UNCHANGED rerounded

\* What m's answer makes of n's core when the timeout asks for missing votes.
Answered(n, m) ==
  {[handleFetchRsp(TimedOut(core[n]), rsp) EXCEPT !.fvr = None] :
     rsp \in IF TimedOut(core[n]).fvr = None THEN {}
             ELSE handleFetch(core[m], TimedOut(core[n]).fvr)}

Fetch(n, m) ==
  /\ Listening(n)
  /\ TimerArmed(n)
  /\ Selecting(m)
  /\ \E c \in Answered(n, m) : core' = [core EXCEPT ![n] = c]
  /\ UNCHANGED rerounded

\* The faulty start to show votes in other rounds.
Reround ==
  /\ MayReround
  /\ ~rerounded
  /\ rerounded' = TRUE
  /\ UNCHANGED core

Init == /\ core = [n \in Cores |->
                     Start(NewCore(n, [LastHeight |-> 0, LastProposedData |-> Nil,
                                       accepts |-> TRUE]))]
        /\ rerounded = FALSE

Next == \/ \E n \in Cores :
             \/ \E vote \in Broadcasts(n) : RecvVote(n, vote)
             \/ \E commit \in CommitsFor(n) : RecvCommit(n, commit)
             \/ \E m \in Cores \ {n} : Fetch(n, m)
             \/ \E vote \in core[n].todo : TryAddVote(n, vote)
             \/ RecvOwn(n)
             \/ Timeout(n)
        \/ Reround

Spec == Init /\ [][Next]_vars

\* What is pending at n and would change something.
PendingAdd(n)      == ~core[n].panicked /\ core[n].todo # {}
PendingOwn(n)      == Running(n) /\ core[n].msgQueue # <<>>
PendingTimeout(n)  == TimerArmed(n) /\ AfterTimeout(n) # core[n]
PendingFetch(n, m) == TimerArmed(n) /\ \E c \in Answered(n, m) : c # core[n]

\* What stays pending is done: a handler runs to its end, a queue is read, an
\* armed timer fires and select does not starve it, however many messages
\* come, and a request is repeated every second to a neighbour chosen at
\* random, so that every neighbour is asked.  No broadcast has to arrive.
\* (Fairness in terms of what is pending: weak fairness would let a Commit that
\* is repeated for ever starve the timer, and TLC is too slow at ENABLED of a
\* handler.)
Fairness == \A n \in Cores :
  /\ []<>~PendingAdd(n) \/ []<><<\E vote \in core[n].todo : TryAddVote(n, vote)>>_vars
  /\ []<>~PendingOwn(n) \/ []<><<RecvOwn(n)>>_vars
  /\ []<>~PendingTimeout(n) \/ []<><<Timeout(n)>>_vars
  /\ \A m \in Cores \ {n} : []<>~PendingFetch(n, m) \/ []<><<Fetch(n, m)>>_vars

FairSpec == Spec /\ Fairness

-----------------------------------------------------------------------------
(***************************************************************************)
(* The votes of the cores at a height are a behaviour of Voting.           *)
(***************************************************************************)

\* The round of core c at TheHeight.  A core that left the height is in its last
\* round, where it casts no more votes.
RoundAt(c) ==
  CASE c.Height < TheHeight -> 0
    [] c.Height = TheHeight -> c.Round
    [] c.Height > TheHeight -> MaxRound

\* What c voted at TheHeight.
VotesAt(c, type, round) ==
  {v \in c.sent : v.Type = type /\ v.Height = TheHeight /\ v.Round = round}

VoteAt(c, type, round) ==
  LET votes == VotesAt(c, type, round)
  IN  CASE votes = {} -> None
        [] \E v \in votes : votes = {v} -> (CHOOSE v \in votes : TRUE).Proposed
        [] OTHER -> votes   \* nothing Voting allows

\* The power of the sets of members.
MemberPower == [S \in SUBSET Members |-> PowerOf[S]]

\* What Voting sees of the cores.
V == INSTANCE Voting WITH
  Validators   <- Members,
  PowerOf      <- MemberPower,
  Faulty       <- FaultyMembers,
  Rounds       <- 0..MaxRound,
  round        <- [n \in Members \cap Cores |-> RoundAt(core[n])],
  prevoted     <- [n \in Members \cap Cores |->
                     [r \in 0..MaxRound |-> VoteAt(core[n], PrevoteType, r)]],
  precommitted <- [n \in Members \cap Cores |->
                     [r \in 0..MaxRound |-> VoteAt(core[n], PrecommitType, r)]]

\* The votes the cores sign at a height, over the real messages, queues and
\* timers, are a behaviour of Voting: one vote of a type per round, no vote for
\* an earlier round, data precommitted only on a polka, and locks released only
\* by a later polka.  As long as no votes are shown in other rounds than their
\* signers', these polkas are of votes that the validators signed for that
\* round; after that, of prevotes they signed for whatever round of the height.
\* So everything proved of Voting holds of the cores.
ImplementsVoting == V!Spec

\* Whatever a core commits, +2/3 of the committee have precommitted, and in one
\* round unless votes are shown in other rounds than their signers' (enterCommit,
\* and the majorities of addVerifiedVote it relies on).
CommitsAreChosen ==
  \A n \in Cores : \A rec \in core[n].commits :
    CommitHeight(rec) = TheHeight
      => \E r \in 0..MaxRound : V!Chosen(r, rec.ProposedData)

\* Two cores never commit different data at a height, however votes are lost,
\* repeated and reordered on the way to them, and whatever votes less than a
\* third of the power sign, as long as nobody shows a vote in another round than
\* its signer's (doPrevote, enterPrecommit and enterCommit of all cores).  The
\* code does not enforce that premise: Vote.Digest leaves the round out, so
\* prevotes of an earlier round verify as a later polka, which unlocks cores.
CoresAgree ==
  ~rerounded =>
  \A m, n \in Cores : \A rec \in core[m].commits, other \in core[n].commits :
    CommitHeight(rec) = TheHeight /\ CommitHeight(other) = TheHeight
      => rec.ProposedData = other.ProposedData

\* Once one core has committed a height, every core commits it: those that miss
\* it fetch the precommits, even if no broadcast reaches them and whatever a
\* Commit of a faulty node made of hasRecvCommitRecords (fetchMissingVotes,
\* handleFetch, handleFetchRsp).  Excepted is a core that only waits for the
\* timeout into a round out of bounds.
CatchUp ==
  \A n \in Cores, h \in 1..MaxHeight :
    (\E m \in Cores : core[m].Height > h) ~>
      \/ core[n].Height > h
      \/ core[n].Round = MaxRound /\ core[n].Step = RoundStepPrecommitWait
=============================================================================
