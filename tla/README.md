# gobft: a verification project

TLA+ models of gobft, a Byzantine fault tolerant consensus core in Go, with TLC
runs that check them on small instances and TLAPS proofs for every instance.
Paths below are relative to the repository (`src/`); `PROJECT.json` maps every
definition to the lines it models.

## 1. The system

A gobft node is a `Core` that the user's application embeds.  The application
implements `ICommittee` (who the validators are, who proposes, what data to
propose, `ValidateProposal`, `Commit`, `BroadCast`).  The nodes exchange votes; a
height ends when +2/3 of the voting power precommitted the same data in one
round, and each height builds on the data of the one before.

| component | state | operations | talks to |
|---|---|---|---|
| Core (`bftcore.go`, `state.go`) | `RoundState` (height, round, step, proposal, lock, votes, last commit), `lastCommittedData`, `hasRecvCommitRecords`, `msgQueue` | one goroutine, `receiveRoutine`, handles votes, `Commit`, `FetchVotesReq`, `FetchVotesRsp` and timeouts; `enter*` functions move from step to step | all others |
| VoteSet (`vote_set.go`) | votes by proposed data, total `sum`, first majority `maj23` | `AddVote`, `HasTwoThirds*`, `HasAll`, `MakeCommit`, `MakeFetchVotesReq/Rsp` | called by the core |
| HeightVoteSet (`height_vote_set.go`) | a pair of VoteSets per tracked round, the greatest round | `SetRound`, `AddVote`, `POLInfo` | called by the core |
| TimeoutTicker (`ticker.go`) | last accepted `timeoutInfo`, timer, `tickChan`, `tockChan` | `ScheduleTimeout`, `timeoutRoutine` (drops old ticks), one goroutine per tock | channels to and from `receiveRoutine` |
| Start, Stop (`bftcore.go`, `ticker.go`) | `inStartOrStop`, `started`, `done` | called by any goroutine of the application, also from inside `Commit` | goroutines above |
| Validators (`validators.go`, `custom/Ivalidator.go`) | none of its own | membership, power, signatures | wraps the application |
| Messages (`message/`) | - | `ValidateBasic`, digests, signing | carried between nodes |
| Codec, configuration, errors, `state_sync.go`, `evidence.go`, mock | - | see section 7 | |

**What is hard.**  The core itself is sequential, but its inputs are not: votes,
commits, fetched votes and timeouts come in any order, late, twice or never; tocks
overtake each other, because each is sent by its own goroutine; the core's own
votes travel through a queue that may be full; the loop over the votes of a
message continues after one of them has ended the height; a restart clears lock
and votes, and Start lets `receiveRoutine` loose before it has scheduled round 0; the
application may have moved on, or its `Commit` may fail and the error is dropped; a
node that missed a height must fetch it although nobody repeats its broadcasts; the
committee may change with every commit, and is asked for at every call; Start and Stop race with each other and with two goroutines that
send to each other over bounded channels; messages can name rounds and hold nil
entries that nobody expected; the round of a vote is not signed; and the safety of
the protocol depends on what all validators did in all rounds.  `PROJECT.json` lists each hazard with
its line and the properties that watch it.

**What makes it correct.**  Agreement (no two values are chosen at a height), which
rests on each core's voting rules (one vote per type and round, precommits only on
a polka, locks released only by a later polka) and on every vote being counted in the
round it was signed for - which the code does not enforce: `Vote.Digest` leaves the
round out (section 6), so that agreement is claimed as long as nobody shows a vote in
another round than its signer's; commits with evidence that can be
served to others; no sanity check that panics; always a timeout that will wake
the core; exact tallies; one `receiveRoutine` at a time; calls that return.

## 2. Modules

| module | models | notes |
|---|---|---|
| `Committee` | `validators.go`, votes of `message.go` and what their digest covers | the application's `ICommittee` is constants; every answer takes the members of the committee as a parameter; `PowerOf` is an additive measure on sets of validators; `TwoThirds` and `Quorum` are computed in `int64`, whose width is the constant `MaxInt64` |
| `VoteSet` | `vote_set.go` | a record, methods are operators; `votesByProposedData` becomes the set of voters of each value; the lists of a request and a response have a length, which their `ValidateBasic` compares with `ValNum` |
| `HeightVoteSet` | `height_vote_set.go` | the map of rounds is a function |
| `Ticker` | the rule of `timeoutRoutine` as the core sees it | durations abstracted: an armed timer fires at any moment; fired timeouts are a set, received in any order |
| `Core` | `bftcore.go`, `state.go` | a core is a record; each Go function is an operator from core to core, with the guards and early returns of the source; the call graph has no cycle, so no recursion is needed |
| `CoreNode` | `receiveRoutine` and the world around one core | the state machine: one action per message type, own votes, timers, the steps of a restart, crash, a failing application |
| `Network` | several cores and what they send each other | the composition: broadcasts of one core reach the others in any order, any number of times or never, fetches are answered from another core's state, the other validators are faulty: they sign what they like and may show the cores' votes in other rounds; implements `Voting` |
| `VoteExchange` | `fetchMissingVotes`, `handleFetch`, `handleFetchRsp` between two nodes | two vote sets of one round while votes keep arriving |
| `Voting` | what a height promises | abstract specification: the votes of all validators in all rounds; the faulty count for everything everywhere, and once votes are shown in other rounds, everybody counts in every round for all it voted for |
| `CommitteeProofs` | | lemmas about voting power and the code's quorum, used by the modules below |
| `VoteSetProofs` | | lemmas about `VoteSet` and `HeightVoteSet`: what a vote that is added or refused changes |
| `CoreProofs` | | the invariant of a core, and a lemma for each function of `bftcore.go` |
| `CoreNodeProofs` | | what `CoreNode` promises, for every committee and environment |
| `VoteExchangeProofs` | | the tallies of a round, the majorities of two nodes and what a fetch brings, for every committee; sums over a finite set |
| `VotingProofs` | | agreement, for every committee |
| `NetworkProofs` | | the cores of `Network` implement `Voting`, and so agree, for every number of cores |
| `Lifecycle` | `Start`, `Stop`, `RecvMsg`, `receiveRoutine`'s select, `timeoutRoutine` | program counters of the callers, channels as counters; a handler is the number of timeouts it schedules |
| `LifecycleProofs` | | Start and Stop are safe, for any number of callers |
| `MCCoreNode`, `MCNetwork`, `MCVoteExchange`, `MCVoting` | | the instances TLC checks |

`EXTENDS` follows the code: `Committee` <- `VoteSet` <- `HeightVoteSet` <- `Core`
(with `Ticker`) <- `CoreNode`, `Network`; `Committee` <- `Voting`; `VoteSet` <-
`VoteExchange`.  `Network` takes `Voting` with `INSTANCE`, for the height `TheHeight`.
The `...Proofs` modules extend the module they are about.  `VoteSetProofs`,
`VoteExchangeProofs` and `VotingProofs` also extend `CommitteeProofs`, `CoreProofs` extends
`VoteSetProofs`, and `CoreNodeProofs` and `NetworkProofs` extend `CoreProofs`; `NetworkProofs` takes
`VotingProofs` with `INSTANCE`.  `Lifecycle` stands alone: it keeps the goroutines and channels that `CoreNode`
abstracts, and abstracts the round state that `CoreNode` keeps.

**Correspondence.**  A field of the record `c` has the name of the field of
`RoundState` or `Core`.  `Nil` is `message.NilData`, `None` a nil pointer.  History
is kept in fields the code does not have: `sent` (votes signed), `announced` (commits
broadcast), `heard` (others' votes that had an effect).  `commits` is the
application's store of commits, from which `handleFetch` answers through
`GetCommitHistory`.  `todo` is the rest of the loop over a message's votes, so that
the loop's iterations are steps, in arbitrary order (the sender collects the votes
from a Go map), and nothing else is handled in between.  `panicked` says that
the process has ended: by `common.PanicSanity`, or because a nil pointer was dereferenced
(`NilDereference`), which `nilRead` of `CoreNode` records; nothing runs after it.  That
happens in the loop over a message's votes, if an entry is nil (`tryAddVote`), and in
`handleFetch`, if the round has no vote sets (`DereferencesNil`; the queries
for majorities read a nil set as an empty one, which is what `getVoteSet` answers).  Only own votes are kept in `msgQueue`;
messages of others arrive when they are handled, which is the same since they may
arrive at any moment.

Start is one step where nothing can come between (a new process, an empty queue).
After a Stop the queue may hold messages, so `Restart` ends where `receiveRoutine` is
spawned, and `CopyRoundState` (`GetRoundState`, under the lock, so between two
messages) and `ScheduleRound0` are steps of their own; `starter` is the height that
was copied.

`committee(c)` is who the application names as members when it is asked, that is, the
committee of the height after its last one.  `addLastCommitVote` therefore judges the
late precommits of a height by the committee of the next, and `addedPrecommit` asks
`HasAll` after the commit.  What the properties call decided (`Decides`) is judged by
the committee of the height itself.

In `Network` a timeout is received when it fires and a request is answered when it is
sent.  Tocks and answers that come late are `CoreNode`'s and `VoteExchange`'s subject:
there the environment may answer anything at any moment.

**Signatures.**  `sigOK` says that the owner of `Address` made the signature, and what it
covers is `Digest`: type, height, proposed data and `Prev`.  `binary.Write` writes
nothing for the `Round`, an `int`, nor for the fields `Timestamp` and `Address`.  So a vote
that verifies under a core's key is one whose `Digest` that core signed (`Signable`, in
`CoreNode` and in `Network`), in whatever round.  In `CoreNode` that is all the environment
is bound by.  In `Network`, `rerounded` records whether anybody has begun to show votes in
other rounds than their signers' (`Reround`); before that a core's votes are shown in
their own.

**The cores implement `Voting`.**  For the height `TheHeight`, which may be any, `V` maps
what the cores signed (`sent`) to the votes of `Voting`, and a core's round to its round; a
core that has left the height is in the last round, since it votes there no more.
Voting's validators are the committee of that height (`Members`), its faulty ones those
that run no core (`FaultyMembers`).  `rerounded` is the same variable in both: from
`Reround` on a vote counts in every round of the height (`Counted`), so that the polkas
and majorities of `Voting` are those the cores may see.
`ImplementsVoting` is `V!Spec`: each handler, with all it calls, is a step of `Voting`
or leaves its votes alone.  A `Step` of `Voting` may therefore change round, prevote and
precommit at once, as a handler may (`enterNewRound` runs on into `enterPropose` and
`enterPrevote`).  `CommitsAreChosen` ties what is handed to the application to `Chosen`
there.  So `AgreementHolds` of `VotingProofs` is about this code: `CoresAgree` says that
no two cores commit different data at a height, as long as nobody shows a vote in
another round than its signer's, and is proved from it (section 5).  That premise is
part of both properties, not of the models.

Mutants (operators named `X_Y`, in front of the definition `X` they distort) are not
part of the models; they record which plausible bug each property detects.

## 3. Runs

All `CoreNode` runs use `MCCoreNode`: validators `s` (the core, power 1), `p` (2) and
`q` (1); the quorum is 3 of 4, so `p` decides with either of the others and nobody
decides without `p`.  `o` (1) is outside the committee; in `heights` it takes the place
of `s` after height 1.

| run | what varies | what it shows |
|---|---|---|
| `rounds` | two rounds of a height (votes of a third), watermark 1, nobody bound to honesty, fair timers | `NoPanic`, `TrackedRounds`, `PolkaNotAhead`, `NoEquivocation`, `PrecommitJustified`, `LockRule`, `LockJustified`, `WakeUp`, `NeverBack`: the core's voting rules in every order of votes and timers; `StepEnds`: only the fetch steps can last |
| `heights` | a core that leaves the committee after height 1 (`s`), joins it (`o`) or stays (`q`); two heights decided by votes, a `Commit`, or fetched votes; own votes may be dropped, and come back in others' messages, also as votes of another round; SkipTimeoutCommit | `LastCommitIsEvidence`, `CommitsAreFinal`, `AnswersAreEvidence` and again `NoPanic`, `WakeUp` |
| `restart` | one stop or crash anywhere, Start interleaved with old messages, the application gaining a height, `Commit` failing, two tocks received in either order; a `Commit` with a nil entry and a request for a negative round, which end the process; a `Commit` with what the core signed before it was started again | `InStepWithApp`, `NeverBack`: no height is skipped or run twice; `WakeUp` once Start is done; `LastCommitIsEvidence` |
| `network` | cores `a` (power 2) and `b` (1), faulty `f` (1); one height, two rounds, two values; a prevote of `a` that `f` may show in another round | `ImplementsVoting`, `CommitsAreChosen`, `CoresAgree` (which says nothing of the states after `Reround`) |
| `catch_up` | the same cores, `b` with power 2, two heights with `o` (1), which sends nothing, in place of `f` at the second, fair timers and fetches, a `Commit` nobody signed | `CatchUp`: who is behind catches up by fetching alone |
| `voting` | four validators, one faulty, two values, two rounds, votes counted in their own round or, from some moment on, in every round | `Inv` and `Agreement`, before proving them |
| `vote_exchange` | four validators with 7 of power, one signing both values; `2 * 7` just fits `MaxInt64 = 15`; `ValNum = 4` | tallies exact (`SumIsPower`, `MajorityIsExact`, `MajorityIsStable`), majorities of two nodes agree, what a fetch brings, and whose lists are refused (`HonestListsPass`) |
| `lifecycle` | two callers, queues of two, Stop also from Commit | the proof's `Inv`, `ClosesOnce`, `StartedIsTrue`, `OneReceiveRoutine`, `HandlersEnd`, `CallsReturnUnlessStuck` |
| `nil_polka`, `restart_lock`, `full_ticks`, `stop_in_commit` | | expected violations, section 6 |

**Bounds, and why they are enough.**

* Two rounds: each rule about locks relates a round to a later one; the core locks in
  round 0 and can be released, or not, in round 1.  Votes of round 2 are there so
  that round skipping, and the watermark, meet a round beyond both.
* Two heights: every hand-over (`LastCommit`, late precommits, answers about an
  earlier height, `Prev`) concerns a height and the next.
* `EnvVotes` are chosen per run, not all votes: both values can win, an equivocator is
  needed by every quorum (`rounds`), and the votes that would only permute values
  are left out.  Messages of `EnvVotes` can be received any number of times.
* `MaxTocks`: the tocks under way besides the running timer.  With 1, a tock can be
  late by any number of steps, but the next timer waits for it; `restart` has 2, so
  that tocks overtake each other.
* `MaxRestarts = 1`, `MaxSkipped = 1`: a restart depends only on the application's
  state and on the queue that survives a Stop.
* `Network`: neither core decides alone.  In `network`, `f` can help `a`, the first
  proposer, to a polka and to a quorum of precommits for its proposal of which `b` sees
  nothing; `b` then proposes other data in round 1, and only `a`'s lock stands between the two
  values.  Or `f` shows `a`'s prevote of round 0 as one of round 1, where it makes a
  polka with `b`'s before `a` has voted there: with `Counted(r) == {r}` in `Voting` the run
  fails.  `catch_up` has `MayReround = FALSE`.
  `MaxRound` and `MaxHeight` stop a core: it does not leave the last round's
  `PrecommitWait` by timeout, and after the last height it only answers requests.
  `OwnFirst` makes a core receive its own votes before anything else; every other order
  is in `CoreNode`'s runs.
* `MaxInt64` is small, so that twice the total comes close to it; `ValNum` is the
  source's 21 except in `vote_exchange`, where it is the size of the committee.
* `watermark` is 1 in `rounds`, so that the bound matters, and the source's 300
  elsewhere.
* `tickTockBufferSize` is 2 in `lifecycle` and the source's 10 in `full_ticks`; the
  proofs hold for every capacity.
* `MaxTicks` (2) bounds what one handler of `Lifecycle` schedules: none, one, and more
  than one send are the cases its properties tell apart, and the handlers that follow
  each other can fill any channel.  (A real handler schedules a timeout for each step
  it enters.)  `MaxTocks` (2) bounds the tocks under way.  The proofs hold for every
  value of both.

Deadlock is checked except where a system may really stop: `restart` (a process that
panicked with no restarts left), `lifecycle` and `stop_in_commit` (a Stop that waits
for its own goroutine), and where the bounds end the runs (`network`, `catch_up`).

## 4. Fairness

* `CoreNode`: weak fairness of the timer (the Go runtime fires it), strong fairness
  of receiving a tock (`select` chooses at random among the ready channels, so a tock
  that is ready again and again is taken), weak fairness of the loop of a handler.
  Nothing is assumed of other nodes.
* `Network`: what stays pending at a core is done: the loop of a handler ends, own votes
  are read, an armed timer's tock is taken, and a request that would bring something
  is answered by each of the other cores in the end, since it is repeated every
  `FetchInterval` to a neighbour chosen at random (`bftcore.go:485`).  No broadcast has
  to arrive.  Pending means "enabled, with an effect".  Weak fairness would not do:
  a `Commit` that comes again and again keeps the core busy, and a timer that is only
  weakly fair is then starved, which Go's `select` does not do.
* `Lifecycle`: weak fairness of each goroutine that can run; strong fairness of a
  send on `tickChan`, whose waiting senders are served in turn, and of the branches
  of the two selects that take a tick and the closed `done`.  Callers are not
  assumed to call, nor messages to arrive, nor timers to fire.

## 5. What is proved

**Agreement** (`VotingProofs`).  Assumptions: `PowerAssumption` (power is additive over
disjoint sets of validators), `ValueAssumption`, and `FaultAssumption` (the faulty
have less than a third of the total power, and twice the total fits an int64).  For every committee, distribution of
power, set of values and set of rounds: `Spec => []Inv` (`Invariance`) and
`Spec => []Agreement` (`AgreementHolds`).  `Agreement`, and `ChoosableIsSafe` below, have the
premise `~rerounded`: nobody has shown a vote in another round than its signer's.
Without it they are false (section 6); the other parts of `Inv` hold in any case.

`Agreement` is not inductive: it says nothing about votes still to be cast.  `Inv` adds

* `VotesUpToRound`: nobody has votes beyond its round, so a validator that has left
  a round without precommitting never will;
* `PrecommitAfterPolka` and `LocksHeld`: the voting rules, over the whole history;
* `ChoosableIsSafe`: while data `d` can still be chosen in a round (`Potential`: those
  who precommitted `d` there and those who may still do so have a quorum), no later
  round has a polka for other data.

The last is the heart.  `Potential` only shrinks, polkas only grow.  If a step were
the first to give a round `q` a polka for `e # d`, its voters and the potential
choosers of `d` in an earlier round `r` would share an honest validator
(`QuorumsMeet`, from the integer arithmetic of the code's quorum).  That validator
has prevoted in `q`, so it is past `r` and has precommitted `d` there; by `LocksHeld`
a polka for other data was in place, in a round after `r`, before the step -
against `ChoosableIsSafe` before the step.

**The core** (`VoteSetProofs`, `CoreProofs`, `CoreNodeProofs`).  For every committee of every
height, distribution of power, application, environment (`EnvVotes`, `EnvCommits`, `EnvRsps` and
`EnvReqs` are any messages, with votes signed or not, of any rounds and heights and shown
in any round, with nil entries) and bound:

| theorem | property of `CoreNode` | also assumes |
|---|---|---|
| `NodeInvariant` | the inductive invariant | |
| `TypeCorrect`, `RoundsAreTracked`, `LocksAreJustified` | `TypeOK`, `TrackedRounds`, `LockJustified` | |
| `AlwaysWoken`, `StaysInStep`, `NeverGoesBack` | `WakeUp`, `InStepWithApp`, `NeverBack` | |
| `LastCommitProves`, `CommitsFinal`, `AnswersProve` | `LastCommitIsEvidence`, `CommitsAreFinal` (whose evidence verifies), `AnswersAreEvidence` | |
| `SignsOnce`, `PrecommitsAreJustified` | `NoEquivocation`, `PrecommitJustified` | no restart so far |
| `NeverPanics`, `FollowsPolkas` | `NoPanic`, `PolkaNotAhead` | `[]SumsFit` |
| `LocksBind` | `LockRule` | `[]SumsFit`, no restart so far |

Assumptions, besides the named ones of the modules:

* `NoOverflow`: twice the total power fits an int64, so that `TwoThirds` is computed right
  (section 6);
* `CommitteesOK`: every height's committee consists of validators, which is what
  `ICommittee` is there for;
* `NilPointsNowhere`: `None`, the nil pointer of the model, is not itself a set of votes or a
  number (of a TLC model value this is so by definition);
* `ListAssumption`: there are finitely many validators and data (data are hashes);
* `[]SumsFit`, for three theorems: no running total `sum` comes within the total power
  of `MaxInt64`.  `addVerifiedVote` counts an equivocator once per value, so a faulty validator
  that signs enough different values can in principle wrap `sum` around.  Then
  `HasTwoThirdsAny` is wrong, the core does not follow the others to their round, and
  `PolkaNotAhead` is lost.  Everything else in the table holds even then.
* "no restart so far" (`restarts = 0`): votes and lock are in memory only; finding 2 of
  section 6 shows what a restart does.

The argument.  A handler is one action but a dozen Go functions, so the proof follows the
call graph.  `Inv(c, K)` is the invariant of a core that knows the votes `K`, a conjunction
of named parts: `VotesOK` (each tracked `VoteSet` holds members' votes of its own kind and
an exact majority), `RoundsOK`, `VotesKnown` and `QueueKnown` (what it holds was heard or
signed), `LockOK`, `CommitsOK`, `LastOK`, `TicksOK` (no timeout under way is ahead of the
core), `AtHeight` and `NotCommitting` (between handlers the step is never Commit, unless
the process has panicked).  Beside it stand `Hist` (one vote per type and round,
precommits with their polka), `LockHist` (every prevote after a precommit agrees with it or
has a polka in between, and a lock of an earlier round is still held or was released by
such a polka) and `Safe` (no panic, and no polka after the round).  A step in which a
nil pointer ends the process keeps all but the last (`NilStep`).  `Keeps(c, d, K)` says
that a function that turns `c` into `d` preserves all of them and never goes back;
`Wakes(c, d)` that a timeout set for the core's position is set for the new position
too.  Both are transitive (`KeepsTrans`, `WakesTrans`), and `CoreProofs` has a lemma for each
function, from `signAddVote` and `updateRoundStep` up to `addVote`, `handleTimeout` and
`startUp`.  Inside a chain of calls the core may be behind a polka it is about to follow,
which is why `Safe` takes the round from which no polka is ahead as a parameter, and why
`enterNewRound`'s lemma is about any such round (`KeepsFrom`).

None of the properties is inductive by itself.  `LockRule`, for instance, speaks of votes
only: that `doPrevote` obeys it needs that the lock still records the last precommit or
that a polka released it (`LockHist`), that a release in `onPolka` was by a polka of a round
not after the core's (`Safe`), hence that `HasTwoThirdsAny` answers truly whenever there is
a polka (`TotalsOK`: `sum` is at least the power behind any value), hence `SumsFit`.  `WakeUp`
needs `TicksOK`, since `timeoutRoutine` drops a tick that is not ahead of the last one it
took.  `CoreNodeProofs` adds the environment: `NodeInv` is `Inv` with the votes heard so far,
and `Wakeful`, which covers the gap in which a restarted `receiveRoutine` runs before Start
has scheduled round 0.  Each action of `CoreNode` then is a call of a function with a
lemma (`NextOK`), and a restart starts from a core that satisfies everything again
(`startUpResult`).

**The network** (`NetworkProofs`).  For any number of cores, every distribution of power
with less than a third of the committee's at validators that run no core
(`NetworkAssumption`; these may sign and send anything, nil entries and votes of the cores
in other rounds included, but cannot make a core's signature), every committee of every height, every order, loss and repetition of the broadcasts, and every bound:

| theorem | property of `Network` | also assumes |
|---|---|---|
| `NetInvariant` | the inductive invariant `NetInv` | |
| `CommitsChosen` | `CommitsAreChosen` | |
| `CoresImplementVoting` | `ImplementsVoting` | `[]SumsFit` |
| `CoresAlwaysAgree` | `CoresAgree`, whose premise is `~rerounded` | `[]SumsFit` |

Every height has its own committee (`CommitteeAt`).  `TheHeight` stands for the height a
theorem speaks of, and `Members` is its committee: the faulty ones among these have less
than a third of their power, and nothing is assumed of the power at other heights.
Nobody restarts, which is a limit of `Network` and not an assumption.  The other
assumptions are those of the core above.  The first three theorems hold whatever rounds
votes are shown in; `CoresAgree` has the premise `~rerounded`.

The argument has four parts.

1. *Nothing is forged.*  `Genuine` are the votes that, if they verify under the key of a
   core, that core has signed (`Signable`): in their round or, once votes are shown in
   other rounds, in whatever round.  `NetInv` says that each core satisfies the core's invariant
   `Inv(c, Genuine)` (`CoreOK`).  Whatever one core can be sent by another is genuine
   (`MessagesGenuine`, `AnswersGenuine`): what a core broadcasts it has signed, and a
   `Commit` or an answer to a fetch repeats votes the sender knows (`VotesKnown`, `CommitsOK`).
2. *A handler acts in one round.*  `CoreProofs` says what a handler keeps; here is added
   what it may sign.  `Casts(c, d, R)` says that a function signs votes of round `R` only,
   and there is again a lemma for each function of the call graph.  A handler is a
   `Turn` - votes of one round, cast on what was known before - or a turn, the commit it
   leads to (`Decides`), and a first turn at the next height (`Turns`, `NextActs`).  The
   steps that are none of these change no vote: a core dies of a nil pointer (`Dies`),
   or votes begin to be shown in other rounds (`Rerounded`).
3. *A turn is a step of `Voting`.*  `WhereItActs` finds the turn that was at `TheHeight`, if
   there was one.  There it adds at most one vote of a type, in the round the core is in
   afterwards (`BallotCast`, from `Hist`).  That `Voting` allows it (`MayPrevote`,
   `MayPrecommit`) is `LockHist` and `Hist` of the core after the turn: they speak of polkas
   in the core's own vote sets, and `PolkaShown` shows that each of them is a polka of
   `Voting`, before the turn, since a core acts on votes that were known already
   (`GenuineCounts`: a genuine vote counts for `Voting` in the round it is shown in).
   `TurnIsStep` puts this together, `StepImplements` maps every step.
4. *Agreement.*  What a core commits carries a quorum of genuine precommits of one round,
   so it is `Chosen` in `Voting` (`CommittedIsChosen`); `AgreementHolds`, of the instance
   `VP`, says that there is only one such value, as long as votes keep their rounds.

`[]SumsFit` is needed because the lock binds only a core that follows polkas
(`GuardInv`: `TotalsOK`, `NoPolkaAfter` and `LockHist` of each core, see above).  `CommitsChosen` holds without it.

**Tallies and fetches** (`VoteExchangeProofs`).  Assumptions: `PowerAssumption`,
`ValueAssumption`, `BallotAssumption`, `ListAssumption`, and `NoOverflow` (section 6 says
what happens otherwise), which each theorem states.  For every committee, distribution
of power, set of data and set of ballots: `SumsArePower`, `MajorityExact`, `MajorityStable`,
`MajoritiesNeverDiffer`, `FetchBringsVoters`, `FetchBringsHonest` and `ListsPass` are the
properties `SumIsPower`, `MajorityIsExact`, `MajorityIsStable`, `MajoritiesAgree`, `FetchBringsEveryVoter`,
`FetchBringsHonestVotes` and `HonestListsPass` of the run `vote_exchange`.

The code sets `maj23` only in the step in which a value's sum crosses the quorum, and
only if it is unset, so exactness needs a history: `IInv` says of each `VoteSet`
that a majority is recorded if some data is decided, and is then one that is decided
(`SetInv`), that it holds signed votes only (`FromSigned`), that an honest validator
signed one vote, and the same of the votes of a response under way.  `QuorumIsExact`
turns the code's truncating `total * 2 / 3 + 1` into "more than two thirds", and
`MajoritiesMeet` gives the two majorities a common honest voter, who signed once.

What a fetch brings is a promise over several messages.  `FetchInv` follows it: a request
under way names voters the asking node has votes of; of every vote the answering node had
when it answered, the response still carries it, or the asking node has a vote of its voter
(the same vote, if the voter is honest, by `IInv`); and what was so when the last vote was
added stays so, since a `VoteSet` only grows.  `ListsPass` counts: if nobody voted twice,
a vote is determined by its voter, so there are at most as many votes as validators.

`SumsArePower` says that the running total `sum` is the power of all votes held, as long as
that is an int64 (`VotedPower(vs) <= MaxInt64`; beyond, `sum` wraps around).  The
power of all votes is a sum over the set of data, which the library computes by
recursion.  The provers cannot use an induction rule with a predicate for its
parameter, so the induction is over a set of subsets: one that a set belongs to as soon as its
smaller subsets do contains all (`SubsetInduction`, from the library's theorem that strict
inclusion of finite sets is well-founded).  From it follow that the recursion has
a solution (`SumExists`), and that a sum grows as one of its terms does (`SumGrows`):
the one value whose voters `addVerifiedVote` has changed.

**Start and Stop** (`LifecycleProofs`).  Assumption: `LifecycleAssumption` (the types of
the constants; the receiveRoutine is not one of the callers).  `Invariance`,
`CallsAreSafe` (no channel is closed twice; between calls `started` tells the truth)
and `SingleRoutine` (`OneReceiveRoutine`, an action property) hold for any number of
goroutines calling Start, Stop and RecvMsg and any capacity of the channels.  The
inductive invariant says that at most one goroutine is inside a call and the flag
shows it (`Exclusive`), and what that goroutine finds at each label (`Phase`): for
instance at `wait` the done channel is closed and `started` still holds.  `started`
alone says nothing during a call, which is why `StartedIsTrue` is not inductive.

**Only model-checked**: all liveness (`StepEnds`, `CatchUp`, `HandlersEnd`,
`CallsReturnUnlessStuck`), since fairness and `ENABLED` are out of the prover's reach.  Every
safety property that a run checks is also the statement of a theorem.

## 6. Findings

Four runs end in a counterexample, each against a line of the repository.

1. `nil_polka` / `NilPolkaUnlocks`: `bftcore.go:623` says "+2/3 prevoted nil. Unlock
   and precommit nil."  `maj23` uses `NilData` for "no majority", so a majority for nil
   is never reported, the branch is dead, and the lock is kept.
   (Safety is not affected: keeping a lock is allowed.)
2. `restart_lock` / `POLBinds`: README.md:8-9 says a validator is bound by its POL until
   it has a PoLC.  Start calls `updateToAppState`, which clears the lock of the height
   in progress; nothing is persisted.  `Voting`'s honest validators do not restart:
   one that does within a height counts as faulty there.
3. `full_ticks` / `ScheduleTimeoutWontBlock`: `ticker.go:70` says the timeoutRoutine
   is always there to read `tickChan`.  Stop ends it before it closes `done`; handlers
   that still run can fill the channel, block, and Stop never returns.
4. `stop_in_commit` / `CallsReturn`: `bft_test.go:147-148` calls Stop inside the
   Commit callback and expects it to return; the callback runs in `receiveRoutine`, for
   which Stop waits.

`CallsReturnUnlessStuck` shows that 3 and 4 are the only ways for a call not to return.

Also met while modelling, without a run of their own:

* `Vote.Digest` (`message.go:87-98`) hands every field to `binary.Write`, which writes
  nothing for `Round`, an `int`, nor for `Timestamp` and `Address`, and its errors are
  dropped.  A signature is therefore good for every round of its height.
  `CommitsAreChosen` and `ImplementsVoting` hold nevertheless, in the weaker sense of
  `Counted`, but agreement does not follow from them.  Of four validators, let f be faulty
  and y fail to win round 1, where B and C prevoted it.  In round 2, A commits x with the
  precommits of C and f.  Then f shows the prevotes of round 1 as ones of round 3: C is
  shown a polka for y and unlocks, and B, C and f commit y in round 3.  TLC finds such a
  behaviour of `Voting` with three rounds if `~rerounded` is taken out of `Agreement`;
* `FetchVotesReq.ValidateBasic` does not look at `Round`.  A request for round -1 gets to
  `bftcore.go:303-307`, whose vote set is nil, and to line 338 of `vote_set.go`, which
  dereferences it.  `TrackedRounds` says that negative rounds are the only ones;
* "It's OK for precommits to be missing" (`message.go:278`), but line 761 of
  `bftcore.go` dereferences them; the same goes for a nil entry of a response;
* the comment at `bftcore.go:839` limits unlocking to rounds up to the current one, the
  condition at 842 does not; the model follows the code, and `LockRule` holds;
* `height_vote_set.go:25-26` describes catch-up rounds per peer, `AddVote` tracks any
  round up to the watermark, before it verifies anything;
* README.md:17 speaks of +2/3 of the validators for any value; `vote_set.go:184` counts
  an equivocator once per value, so `HasTwoThirdsAny` can hold with fewer
  (`PolkaNotAhead` and `NoPanic` hold nevertheless);
* `vote_set.go:89` documents what a duplicate vote returns differently from line 125;
* `GetLastCommit` calls `MakeCommit` on a nil `LastCommit` before the first commit and
  after a restart (`LastCommitIsEvidence` shows that it is there otherwise);
* `vote_set.go:23` assumes totals up to MaxUInt64, but `TotalVotingPower * 2` at line 172
  is an int64.  With `MaxInt64 = 7` in `VoteExchange.cfg`, 14 wraps to -2, the quorum
  is 1, and `MajorityIsExact` fails with the first vote;
* a request has an entry per vote, so a validator that votes for several values can
  make the honest requests of its round exceed `ValNum` and be refused; this is the
  only way (`HonestListsPass`);
* `hasRecvCommitRecords` is set by a Commit whose votes do not verify, and then silences
  the node's own Commit; `CatchUp` shows that fetching makes up for it;
* a late precommit of the last height is verified with the committee of the current
  one, so a new member's is added to `LastCommit` and a former member's is refused; the
  evidence keeps +2/3 of the right committee (`LastCommitIsEvidence`);
* `MinorQuorum` returns the value that was voted for first, which need not be the one
  `distinctVoter` counted.

## 7. Not modelled

* `setByzantinePrevote`, a hook of the tests; `inFetch`, which is never read;
  `StartTime` and `CommitTime`, which only determine durations; logging.
* Durations: timers fire at any moment, which covers every configuration.
* Byte-level encoding, hashes and keys: a vote carries whether its signature is one its
  signer made, and `Digest` is the record of the fields it covers, which do not include
  `Round` (section 2).  Votes in the instances verify, except those of `catch_up`'s
  worthless `Commit`.
* A nil answer of the application's `GetAppState` (`bftcore.go:169-171`), which leaves
  the core as it is: it is taken to answer with a state.
* In `Network`, requests of the faulty: they change nothing of the core that answers, or
  end its process (`DereferencesNil`).
* `state_sync.go` (its only use is commented out), `evidence.go` (empty),
  `MinorQuorum` (only used by a test), `custom/mock` (generated), `codec.go`
  (registration with a library), `config.go` (durations).
* Changes of a validator's power (it has the same at every height it is a member of),
  and of the committee within a height (the application changes it when it takes a
  Commit).

## 8. Plan

Done: `Committee`, `VoteSet`, `HeightVoteSet`, `Ticker`, `Core`, `CoreNode` and
`Network` with their runs, `VoteExchange`, `Voting` and `Lifecycle` with their runs, and the
proofs of section 5: all safety properties of `CoreNode`, `Network`, `VoteExchange`, `Voting`
and `Lifecycle`.  What could follow:

1. Restarts in `Network`: a core that restarts within a height counts as faulty there, so
   `CoresAlwaysAgree` should hold as long as those that restart and the faulty have less
   than a third of the power together.
2. `SumsFit` from a bound on the number of values a faulty validator signs, with
   `SumsArePower`.
