------------------------------- MODULE VoteSet -------------------------------
(***************************************************************************)
(* vote_set.go: the votes of one type for one height and round.  A VoteSet *)
(* is a record; every method is an operator that returns its new value.    *)
(* proposedDataVotes is the set of its voters, its sum their power.  The   *)
(* members of the committee are the ones of the moment of the call.        *)
(***************************************************************************)
EXTENDS Committee, FiniteSetsExt

CONSTANT ValNum   \* common.ValNum, the most votes a list may have

\* There are finitely many validators, and data are hashes of a fixed size.
ASSUME ListAssumption ==
  /\ ValNum \in Nat
  /\ IsFiniteSet(Validators) /\ IsFiniteSet(Data)

VoteSets == [height : Nat, round : Int,
             type_  : {PrevoteType, PrecommitType},
             base   : DataOrNil,
             votes  : [DataOrNil -> SUBSET Validators],  \* votesByProposedData
             sum    : Int,
             maj23  : DataOrNil]                         \* Nil: none yet

NewVoteSet(height, round, type, base) ==
  [height |-> height, round |-> round, type_ |-> type, base |-> base,
   votes |-> [d \in DataOrNil |-> {}], sum |-> 0, maj23 |-> Nil]

\* Mutant: a vote received twice is added twice.
addVoteError_NoDuplicates(vs, vote, members) ==
  IF vote.Prev # vs.base THEN "ErrVoteMismatchedBase"
  ELSE IF ~VerifySignature(vote, members) THEN "ErrVoteInvalidSignature"
  ELSE "nil"

\* The checks of addVote in their order; "nil" is a nil error.
addVoteError(vs, vote, members) ==
  IF vote.Prev # vs.base THEN "ErrVoteMismatchedBase"
  ELSE IF \/ vote.Height # vs.height
          \/ vote.Round # vs.round
          \/ vote.Type # vs.type_ THEN "ErrVoteUnexpectedStep"
  ELSE IF vote.Address \in vs.votes[vote.Proposed] THEN "duplicate vote"
  ELSE IF ~VerifySignature(vote, members) THEN "ErrVoteInvalidSignature"
  ELSE "nil"

\* Mutants: two thirds suffice; maj23 is recomputed from the last vote alone.
newMaj23_TwoThirds(vs, d, origSum, newSum, quorum) ==
  IF origSum < quorum - 1 /\ quorum - 1 <= newSum /\ vs.maj23 = Nil
  THEN d ELSE vs.maj23
newMaj23_Forgets(vs, d, origSum, newSum, quorum) ==
  IF origSum < quorum /\ quorum <= newSum THEN d ELSE Nil

\* Only the first quorum is recorded, and a quorum for nil leaves maj23 unset.
newMaj23(vs, d, origSum, newSum, quorum) ==
  IF origSum < quorum /\ quorum <= newSum /\ vs.maj23 = Nil
  THEN d ELSE vs.maj23

\* A validator that votes for two values is counted in both, and twice in sum.
addVerifiedVote(vs, vote, members) ==
  LET voters  == vs.votes[vote.Proposed]
      origSum == PowerOf[voters]
      newSum  == PowerOf[voters \cup {vote.Address}]
  IN  [vs EXCEPT
        !.votes = [@ EXCEPT ![vote.Proposed] = voters \cup {vote.Address}],
        !.sum   = int64(@ + GetVotingPower(vote.Address, members)),
        !.maj23 = newMaj23(vs, vote.Proposed, origSum, newSum,
                             Quorum(members))]

\* AddVote: the new set, whether the vote was added, and the error.
VoteSet_AddVote(vs, vote, members) ==
  LET err == addVoteError(vs, vote, members)
  IN  [vs    |-> IF err = "nil" THEN addVerifiedVote(vs, vote, members) ELSE vs,
       added |-> err = "nil",
       err   |-> err]

HasTwoThirdsMajority(vs) == vs.maj23 # Nil

\* Mutant: one vote too many is needed.
HasTwoThirdsAny_OffByOne(vs, members) == vs.sum > TwoThirds(members) + 1

HasTwoThirdsAny(vs, members) == vs.sum > TwoThirds(members)

HasAll(vs, members) == vs.sum = TotalVotingPower(members)

\* The votes of a set for one value, as messages again.
VotesFor(vs, d) ==
  {NewVote(vs.type_, vs.height, vs.round, d, vs.base, v) : v \in vs.votes[d]}

\* MakeCommit: the evidence that maj23 was committed.
MakeCommit(vs) ==
  [ProposedData |-> vs.maj23, Prev |-> vs.base,
   Precommits |-> VotesFor(vs, vs.maj23)]

\* MakeFetchVotesReq: who we already have a vote from.  The list has an entry
\* for every vote, so a validator that voted for two values is in it twice.
MakeFetchVotesReq(vs) ==
  [Type |-> vs.type_, Height |-> vs.height, Round |-> vs.round,
   Voters |-> UNION {vs.votes[d] : d \in DataOrNil},
   len |-> Cardinality({p \in DataOrNil \X Validators : p[2] \in vs.votes[p[1]]})]

\* Mutant: a full list is too long.
ReqIsValid_OffByOne(req) == req.len < ValNum

\* FetchVotesReq.ValidateBasic and FetchVotesRsp.ValidateBasic
ReqIsValid(req) == req.len <= ValNum

RspIsValid(rsp) == Cardinality(rsp.MissingVotes) <= ValNum

\* Mutant: only the votes of the majority are sent.
MakeFetchVotesRsp_Majority(vs, req) ==
  [Type |-> vs.type_, Height |-> vs.height, Round |-> vs.round,
   MissingVotes |-> {v \in VotesFor(vs, vs.maj23) : v.Address \notin req.Voters}]

\* MakeFetchVotesRsp: every vote of a validator the request does not name.
MakeFetchVotesRsp(vs, req) ==
  [Type |-> vs.type_, Height |-> vs.height, Round |-> vs.round,
   MissingVotes |-> {v \in UNION {VotesFor(vs, d) : d \in DataOrNil} :
                       v.Address \notin req.Voters}]
=============================================================================
