---------------------------- MODULE VoteExchange -----------------------------
(***************************************************************************)
(* The votes of one type, height and round at two nodes: votes reach each  *)
(* of them in any order or not at all, and node a asks node b for the ones *)
(* it misses (fetchMissingVotes, handleFetch, handleFetchRsp).  Messages   *)
(* take their time: votes keep arriving while a request or a response is   *)
(* under way.                                                              *)
(***************************************************************************)
EXTENDS VoteSet

CONSTANTS
  Ballots,  \* the votes the validators may sign
  Honest    \* the validators that sign one vote only, and none of whose votes
            \* of other rounds is shown as one of this round (see Digest)

ASSUME BallotAssumption ==
  Ballots \subseteq Vote /\ Honest \subseteq Validators

VARIABLES
  a, b,   \* the VoteSets of the two nodes
  signed, \* the votes signed so far
  req,    \* a's request under way, or None
  rsp,    \* b's response under way, or None
  done    \* what b had when it answered the last request a got through, or None

vars == <<a, b, signed, req, rsp, done>>

\* A validator signs a vote; an honest one only if it has signed none.
Sign(vote) ==
  /\ vote.Address \in Honest => \A v \in signed : v.Address # vote.Address
  /\ signed' = signed \cup {vote}
  /\ UNCHANGED <<a, b, req, rsp, done>>

ArrivesAtA(vote) ==
  /\ a' = VoteSet_AddVote(a, vote, Validators).vs
  /\ UNCHANGED <<b, signed, req, rsp, done>>

ArrivesAtB(vote) ==
  /\ b' = VoteSet_AddVote(b, vote, Validators).vs
  /\ UNCHANGED <<a, signed, req, rsp, done>>

\* fetchMissingVotes
Request ==
  /\ req = None /\ rsp = None
  /\ req' = MakeFetchVotesReq(a)
  /\ UNCHANGED <<a, b, signed, rsp, done>>

\* handleFetch, at b; a list that is too long, of either message, is refused
\* where it is received.
Answer ==
  /\ req # None
  /\ req' = None
  /\ LET answer == MakeFetchVotesRsp(b, req)
     IN  IF ReqIsValid(req) /\ RspIsValid(answer)
         THEN /\ rsp' = [votes |-> answer.MissingVotes, from |-> b.votes]
              /\ done' = None
         ELSE UNCHANGED <<rsp, done>>
  /\ UNCHANGED <<a, b, signed>>

\* handleFetchRsp, one vote of the response at a time
AddMissing(vote) ==
  /\ a' = VoteSet_AddVote(a, vote, Validators).vs
  /\ rsp' = IF rsp.votes = {vote} THEN None ELSE [rsp EXCEPT !.votes = @ \ {vote}]
  /\ done' = IF rsp.votes = {vote} THEN rsp.from ELSE done
  /\ UNCHANGED <<b, signed, req>>

\* The response has nothing new.
NothingMissing ==
  /\ rsp # None
  /\ rsp.votes = {}
  /\ rsp' = None
  /\ done' = rsp.from
  /\ UNCHANGED <<a, b, signed, req>>

Init ==
  /\ a = NewVoteSet(1, 0, PrecommitType, Nil)
  /\ b = NewVoteSet(1, 0, PrecommitType, Nil)
  /\ signed = {}
  /\ req = None /\ rsp = None /\ done = None

Next ==
  \/ \E vote \in Ballots : Sign(vote)
  \/ \E vote \in signed : ArrivesAtA(vote)
  \/ \E vote \in signed : ArrivesAtB(vote)
  \/ Request
  \/ Answer
  \/ rsp # None /\ \E vote \in rsp.votes : AddMissing(vote)
  \/ NothingMissing

Spec == Init /\ [][Next]_vars

-----------------------------------------------------------------------------
Voters(votes) == UNION {votes[d] : d \in DataOrNil}

\* The power of all votes of a set: whoever votes for two values counts twice.
VotedPower(vs) == MapThenSumSet(LAMBDA d : PowerOf[vs.votes[d]], DataOrNil)

\* The running total a VoteSet keeps is the power of the votes it holds, value
\* by value (addVerifiedVote updates sum apart from the per-value sums), and it
\* holds nothing that was not signed by a validator.
SumIsPower ==
  \A vs \in {a, b} :
    /\ vs.sum = VotedPower(vs)
    /\ \A d \in DataOrNil : VotesFor(vs, d) \subseteq signed

\* The values with more than two thirds of the power, in exact arithmetic.
Decided(vs) == {d \in Data : 3 * PowerOf[vs.votes[d]] > 2 * PowerOf[Validators]}

\* maj23 is set exactly when some data has more than two thirds of the power,
\* and then to such data: the int64 division and the doubling of the total in
\* addVerifiedVote lose nothing.
MajorityIsExact ==
  \A vs \in {a, b} :
    IF Decided(vs) = {} THEN vs.maj23 = Nil ELSE vs.maj23 \in Decided(vs)

\* Once a node has a majority it keeps it, whatever conflicting votes come.
MajorityIsStable ==
  [][ /\ a.maj23 # Nil => a'.maj23 = a.maj23
      /\ b.maj23 # Nil => b'.maj23 = b.maj23 ]_vars

\* When less than a third of the power can have two votes in the round (see
\* Honest), two nodes never see majorities for different data in it.
MajoritiesAgree ==
  /\ 3 * PowerOf[Validators \ Honest] < PowerOf[Validators]
  /\ a.maj23 # Nil /\ b.maj23 # Nil
  => a.maj23 = b.maj23

\* After a fetch a has a vote of everyone b had a vote of when it answered, ...
FetchBringsEveryVoter ==
  done # None => Voters(done) \subseteq Voters(a.votes)

\* ... and all of its votes as far as the voters are honest: the votes b misses
\* are chosen by voter, not by vote.
FetchBringsHonestVotes ==
  done # None =>
    \A d \in DataOrNil : done[d] \cap Honest \subseteq a.votes[d]

\* Every vote has an entry in the lists that are exchanged, and a list of more
\* than ValNum entries is refused.  With a committee of at most ValNum members
\* that hits a node only if some validator has voted for two values.
HonestListsPass ==
  \/ ReqIsValid(MakeFetchVotesReq(a))
  \/ Cardinality(Validators) > ValNum
  \/ \E v, w \in signed : v.Address = w.Address /\ v # w
=============================================================================
