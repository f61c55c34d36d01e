-------------------------- MODULE VoteExchangeProofs -------------------------
(***************************************************************************)
(* The tallies of a round, for every committee, every distribution of      *)
(* power, every set of data and whatever the faulty validators sign: the   *)
(* running total is right, a majority is recorded exactly when there is    *)
(* one, is never replaced, and is the same at both nodes, and a fetch      *)
(* brings what the other node had.                                         *)
(* The total power is assumed to be small enough for its double to be an   *)
(* int64.                                                                  *)
(***************************************************************************)
EXTENDS VoteExchange, CommitteeProofs, FiniteSetTheorems

\* The invariant of one VoteSet: its types, and an exact majority.
SetInv(vs) ==
  /\ vs \in VoteSets
  /\ vs.height = 1 /\ vs.round = 0 /\ vs.type_ = PrecommitType /\ vs.base = Nil
  /\ \A d \in Decided(vs) : vs.maj23 # Nil
  /\ vs.maj23 # Nil => vs.maj23 \in Decided(vs)

\* The votes of a set are among the given ones.
FromSigned(vs, votes) == \A d \in DataOrNil : VotesFor(vs, d) \subseteq votes

\* The inductive invariant.
IInv ==
  /\ SetInv(a) /\ FromSigned(a, signed)
  /\ SetInv(b) /\ FromSigned(b, signed)
  /\ signed \subseteq Vote
  /\ \A v, w \in signed : v.Address = w.Address /\ v.Address \in Honest => v = w
  /\ rsp # None => rsp \in [votes : SUBSET signed,
                            from : [DataOrNil -> SUBSET Validators]]

-----------------------------------------------------------------------------
\* What addVerifiedVote does to the voters of each value.
LEMMA AddedVoters ==
  ASSUME NEW vs \in VoteSets, NEW vote \in Vote, vote.Address \in Validators
  PROVE  LET new == addVerifiedVote(vs, vote, Validators)
         IN  /\ new \in VoteSets
             /\ new.height = vs.height /\ new.round = vs.round
             /\ new.type_ = vs.type_ /\ new.base = vs.base
             /\ new.votes = [vs.votes EXCEPT ![vote.Proposed] =
                               @ \cup {vote.Address}]
             /\ new.maj23 = newMaj23(vs, vote.Proposed,
                              PowerOf[vs.votes[vote.Proposed]],
                              PowerOf[vs.votes[vote.Proposed] \cup {vote.Address}],
                              Quorum(Validators))
<1>1. vote.Proposed \in DataOrNil /\ vote.Address \in Validators
  BY DEF Vote
<1>2. vs.votes \in [DataOrNil -> SUBSET Validators] /\ vs.maj23 \in DataOrNil
      /\ vs.sum \in Int
  BY DEF VoteSets
<1>3. int64(vs.sum + GetVotingPower(vote.Address, Validators)) \in Int
  <2>1. GetVotingPower(vote.Address, Validators) \in Nat
    BY <1>1, PowerNat DEF GetVotingPower
  <2> QED
    BY <1>2, <2>1, PowerAssumption DEF int64
<1>4. newMaj23(vs, vote.Proposed, PowerOf[vs.votes[vote.Proposed]],
               PowerOf[vs.votes[vote.Proposed] \cup {vote.Address}],
               Quorum(Validators)) \in DataOrNil
  BY <1>1, <1>2 DEF newMaj23
<1> QED
  BY <1>1, <1>2, <1>3, <1>4 DEF addVerifiedVote, VoteSets

\* A vote, added or refused, keeps the invariant of the set and any majority,
\* and brings no voter but its own.
LEMMA AddVoteKeeps ==
  ASSUME NoOverflow, NEW vs, SetInv(vs), NEW vote \in Vote
  PROVE  LET new == VoteSet_AddVote(vs, vote, Validators).vs
         IN  /\ SetInv(new)
             /\ vs.maj23 # Nil => new.maj23 = vs.maj23
             /\ \A d \in DataOrNil : \A v \in new.votes[d] :
                  v \in vs.votes[d] \/ (v = vote.Address /\ d = vote.Proposed)
<1> DEFINE new == VoteSet_AddVote(vs, vote, Validators).vs
<1>1. CASE addVoteError(vs, vote, Validators) # "nil"
  <2>1. new = vs
    BY <1>1 DEF VoteSet_AddVote
  <2> QED
    BY <2>1
<1>2. CASE addVoteError(vs, vote, Validators) = "nil"
  <2> DEFINE e     == vote.Proposed
             orig  == PowerOf[vs.votes[e]]
             added == PowerOf[vs.votes[e] \cup {vote.Address}]
  <2>1. vote.Address \in Validators /\ e \in DataOrNil
    BY <1>2 DEF addVoteError, VerifySignature, Vote
  <2>2. vs \in VoteSets /\ vs.votes \in [DataOrNil -> SUBSET Validators]
          /\ vs.maj23 \in DataOrNil
    BY DEF SetInv, VoteSets
  <2>3. new = addVerifiedVote(vs, vote, Validators)
    BY <1>2 DEF VoteSet_AddVote
  <2>4. /\ new \in VoteSets
        /\ new.height = vs.height /\ new.round = vs.round
        /\ new.type_ = vs.type_ /\ new.base = vs.base
        /\ new.votes = [vs.votes EXCEPT ![e] = @ \cup {vote.Address}]
        /\ new.maj23 = newMaj23(vs, e, orig, added, Quorum(Validators))
    BY <2>1, <2>2, <2>3, AddedVoters
  <2>5. \A d \in DataOrNil :
          new.votes[d] = IF d = e THEN vs.votes[e] \cup {vote.Address}
                         ELSE vs.votes[d]
    BY <2>2, <2>4
  <2> HIDE DEF new
  <2>6. orig \in Nat /\ added \in Nat /\ PowerOf[Validators] \in Nat /\ orig <= added
    BY <2>1, <2>2, PowerNat, PowerMonotone
  <2>7. /\ orig >= Quorum(Validators) <=> 3 * orig > 2 * PowerOf[Validators]
        /\ added >= Quorum(Validators) <=> 3 * added > 2 * PowerOf[Validators]
        /\ Quorum(Validators) \in Nat
    BY <2>6, QuorumIsExact DEF NoOverflow
  <2>8. vs.maj23 # Nil => new.maj23 = vs.maj23
    BY <2>4 DEF newMaj23
  <2>9. Nil \notin Data /\ DataOrNil = Data \cup {Nil}
    BY ValueAssumption DEF DataOrNil
  <2>10. ASSUME NEW d \in Decided(new) PROVE new.maj23 # Nil
    <3>1. d \in Data /\ 3 * PowerOf[new.votes[d]] > 2 * PowerOf[Validators]
      BY <2>10 DEF Decided
    <3>2. CASE d \in Decided(vs)
      BY <3>2, <2>8 DEF SetInv
    <3>3. CASE d \notin Decided(vs)
      <4>1. d = e
        BY <3>1, <3>3, <2>5, <2>9 DEF Decided
      <4>2. 3 * added > 2 * PowerOf[Validators] /\ ~(3 * orig > 2 * PowerOf[Validators])
        BY <3>1, <3>3, <4>1, <2>5, <2>9 DEF Decided
      <4>3. orig < Quorum(Validators) /\ Quorum(Validators) <= added
        BY <4>2, <2>6, <2>7
      <4> QED
        BY <4>1, <4>3, <3>1, <2>4, <2>8, <2>9 DEF newMaj23
    <3> QED
      BY <3>2, <3>3
  <2>11. ASSUME new.maj23 # Nil PROVE new.maj23 \in Decided(new)
    <3>1. CASE vs.maj23 # Nil
      <4>1. vs.maj23 \in Data /\ 3 * PowerOf[vs.votes[vs.maj23]] > 2 * PowerOf[Validators]
        BY <3>1 DEF SetInv, Decided
      <4>2. PowerOf[vs.votes[vs.maj23]] <= PowerOf[new.votes[vs.maj23]]
            /\ PowerOf[vs.votes[vs.maj23]] \in Nat /\ PowerOf[new.votes[vs.maj23]] \in Nat
        <5>1. /\ vs.votes[vs.maj23] \subseteq new.votes[vs.maj23]
              /\ vs.votes[vs.maj23] \in SUBSET Validators
              /\ new.votes[vs.maj23] \in SUBSET Validators
          BY <2>1, <2>2, <2>5
        <5> QED
          BY <5>1, PowerMonotone, PowerNat
      <4> QED
        BY <3>1, <4>1, <4>2, <2>6, <2>8 DEF Decided
    <3>2. CASE vs.maj23 = Nil
      <4>1. /\ orig < Quorum(Validators) /\ Quorum(Validators) <= added
            /\ new.maj23 = e
        BY <3>2, <2>4, <2>11 DEF newMaj23
      <4>2. 3 * added > 2 * PowerOf[Validators]
        BY <4>1, <2>6, <2>7
      <4> QED
        BY <4>1, <4>2, <2>1, <2>5, <2>9, <2>11 DEF Decided
    <3> QED
      BY <3>1, <3>2
  <2>12. SetInv(new)
    BY <2>4, <2>10, <2>11 DEF SetInv
  <2> QED
    BY <2>5, <2>8, <2>12 DEF new
<1> QED
  BY <1>1, <1>2

\* What comes out of a set again as a message is the vote that went in.
LEMMA AddVoteSigned ==
  ASSUME NoOverflow, NEW vs, SetInv(vs), NEW votes \in SUBSET Vote,
         FromSigned(vs, votes), NEW vote \in votes
  PROVE  FromSigned(VoteSet_AddVote(vs, vote, Validators).vs, votes)
<1> DEFINE new == VoteSet_AddVote(vs, vote, Validators).vs
<1>1. CASE addVoteError(vs, vote, Validators) # "nil"
  <2>1. new = vs
    BY <1>1 DEF VoteSet_AddVote
  <2> QED
    BY <2>1
<1>2. CASE addVoteError(vs, vote, Validators) = "nil"
  <2>1. vote = NewVote(PrecommitType, 1, 0, vote.Proposed, Nil, vote.Address)
    BY <1>2 DEF addVoteError, VerifySignature, SetInv, Vote, NewVote
  <2>2. /\ SetInv(new)
        /\ \A d \in DataOrNil : \A v \in new.votes[d] :
             v \in vs.votes[d] \/ (v = vote.Address /\ d = vote.Proposed)
    BY AddVoteKeeps
  <2> HIDE DEF new
  <2>3. ASSUME NEW d \in DataOrNil, NEW v \in new.votes[d]
        PROVE  NewVote(PrecommitType, 1, 0, d, Nil, v) \in votes
    <3>1. CASE v \in vs.votes[d]
      BY <3>1 DEF FromSigned, VotesFor, SetInv
    <3>2. CASE v = vote.Address /\ d = vote.Proposed
      BY <3>2, <2>1
    <3> QED
      BY <2>2, <3>1, <3>2
  <2>4. FromSigned(new, votes)
    BY <2>2, <2>3 DEF FromSigned, VotesFor, SetInv
  <2> QED
    BY <2>4 DEF new
<1> QED
  BY <1>1, <1>2

-----------------------------------------------------------------------------
\* The empty sets satisfy the invariant.
LEMMA InitInv == ASSUME Init PROVE IInv
<1>1. PowerOf[{}] = 0
  BY NoPower
<1>2. ASSUME NEW vs, vs = NewVoteSet(1, 0, PrecommitType, Nil)
      PROVE  SetInv(vs) /\ FromSigned(vs, {})
  <2>1. vs.votes = [d \in DataOrNil |-> {}] /\ vs.maj23 = Nil
    BY <1>2 DEF NewVoteSet
  <2>2. vs \in VoteSets
    BY <1>2 DEF NewVoteSet, VoteSets, DataOrNil, PrecommitType
  <2>3. Decided(vs) = {}
    <3>1. \A d \in Data : PowerOf[vs.votes[d]] = 0
      BY <1>1, <2>1 DEF DataOrNil
    <3>2. PowerOf[Validators] \in Nat
      BY PowerNat
    <3> QED
      BY <3>1, <3>2 DEF Decided
  <2> QED
    BY <1>2, <2>1, <2>2, <2>3 DEF SetInv, FromSigned, VotesFor, NewVoteSet
<1> QED
  BY <1>2 DEF Init, IInv

\* Every step preserves the invariant, and the majorities.
LEMMA StepInv ==
  ASSUME NoOverflow, IInv, [Next]_vars
  PROVE  /\ IInv'
         /\ a.maj23 # Nil => a'.maj23 = a.maj23
         /\ b.maj23 # Nil => b'.maj23 = b.maj23
<1>1. ASSUME NEW vote \in Ballots, Sign(vote)
      PROVE  IInv' /\ a' = a /\ b' = b
  BY <1>1, BallotAssumption DEF Sign, IInv, FromSigned
<1>2. ASSUME NEW vote \in signed, ArrivesAtA(vote)
      PROVE  IInv' /\ (a.maj23 # Nil => a'.maj23 = a.maj23) /\ b' = b
  <2>1. vote \in Vote /\ signed \in SUBSET Vote
    BY DEF IInv
  <2>2. SetInv(a') /\ (a.maj23 # Nil => a'.maj23 = a.maj23)
    BY <1>2, <2>1, AddVoteKeeps DEF IInv, ArrivesAtA
  <2>3. FromSigned(a', signed)
    BY <1>2, <2>1, AddVoteSigned DEF IInv, ArrivesAtA
  <2> QED
    BY <1>2, <2>2, <2>3 DEF IInv, ArrivesAtA
<1>3. ASSUME NEW vote \in signed, ArrivesAtB(vote)
      PROVE  IInv' /\ (b.maj23 # Nil => b'.maj23 = b.maj23) /\ a' = a
  <2>1. vote \in Vote /\ signed \in SUBSET Vote
    BY DEF IInv
  <2>2. SetInv(b') /\ (b.maj23 # Nil => b'.maj23 = b.maj23)
    BY <1>3, <2>1, AddVoteKeeps DEF IInv, ArrivesAtB
  <2>3. FromSigned(b', signed)
    BY <1>3, <2>1, AddVoteSigned DEF IInv, ArrivesAtB
  <2> QED
    BY <1>3, <2>2, <2>3 DEF IInv, ArrivesAtB
<1>4. ASSUME Request PROVE IInv' /\ a' = a /\ b' = b
  BY <1>4 DEF Request, IInv
<1>5. ASSUME Answer PROVE IInv' /\ a' = a /\ b' = b
  <2>1. MakeFetchVotesRsp(b, req).MissingVotes \subseteq signed
    BY DEF MakeFetchVotesRsp, IInv, FromSigned
  <2>2. b.votes \in [DataOrNil -> SUBSET Validators]
    BY DEF IInv, SetInv, VoteSets
  <2> QED
    BY <1>5, <2>1, <2>2 DEF Answer, IInv
<1>6. ASSUME rsp # None, NEW vote \in rsp.votes, AddMissing(vote)
      PROVE  IInv' /\ (a.maj23 # Nil => a'.maj23 = a.maj23) /\ b' = b
  <2>1. vote \in signed /\ vote \in Vote /\ signed \in SUBSET Vote
    BY <1>6 DEF IInv
  <2>2. SetInv(a') /\ (a.maj23 # Nil => a'.maj23 = a.maj23)
    BY <1>6, <2>1, AddVoteKeeps DEF IInv, AddMissing
  <2>3. FromSigned(a', signed)
    BY <1>6, <2>1, AddVoteSigned DEF IInv, AddMissing
  <2>4. rsp' # None => rsp' \in [votes : SUBSET signed,
                                 from : [DataOrNil -> SUBSET Validators]]
    BY <1>6 DEF IInv, AddMissing
  <2> QED
    BY <1>6, <2>2, <2>3, <2>4 DEF IInv, AddMissing
<1>7. ASSUME NothingMissing PROVE IInv' /\ a' = a /\ b' = b
  BY <1>7 DEF NothingMissing, IInv
<1>8. ASSUME UNCHANGED vars PROVE IInv' /\ a' = a /\ b' = b
  BY <1>8 DEF vars, IInv
<1> QED
  BY <1>1, <1>2, <1>3, <1>4, <1>5, <1>6, <1>7, <1>8 DEF Next

\* The inductive invariant holds throughout, for every committee.
LEMMA Invariance == ASSUME NoOverflow PROVE Spec => []IInv
<1>1. Init => IInv
  BY InitInv
<1>2. IInv /\ [Next]_vars => IInv'
  BY StepInv
<1> QED
  BY <1>1, <1>2, PTL DEF Spec

\* For every committee a majority is recorded by addVerifiedVote exactly when
\* some data has more than two thirds of the power, in exact arithmetic.
THEOREM MajorityExact == ASSUME NoOverflow PROVE Spec => []MajorityIsExact
<1>1. IInv => MajorityIsExact
  BY DEF IInv, SetInv, MajorityIsExact
<1> QED
  BY <1>1, Invariance, PTL

\* For every committee the majority of a VoteSet is never replaced, whatever
\* conflicting votes addVerifiedVote is given later.
THEOREM MajorityStable == ASSUME NoOverflow PROVE Spec => MajorityIsStable
<1>1. IInv /\ [Next]_vars =>
        [ /\ a.maj23 # Nil => a'.maj23 = a.maj23
          /\ b.maj23 # Nil => b'.maj23 = b.maj23 ]_vars
  BY StepInv
<1> QED
  BY <1>1, Invariance, PTL DEF Spec, MajorityIsStable

\* For every committee with less than a third of the power faulty, two nodes
\* never record majorities for different data in one round, in whatever order
\* the votes and the answers to fetches reach them.
THEOREM MajoritiesNeverDiffer == ASSUME NoOverflow PROVE Spec => []MajoritiesAgree
<1>1. ASSUME IInv, 3 * PowerOf[Validators \ Honest] < PowerOf[Validators],
             a.maj23 # Nil, b.maj23 # Nil
      PROVE  a.maj23 = b.maj23
  <2> DEFINE S == a.votes[a.maj23]
             T == b.votes[b.maj23]
  <2>1. /\ a.maj23 \in Data /\ b.maj23 \in Data
        /\ 3 * PowerOf[S] > 2 * PowerOf[Validators]
        /\ 3 * PowerOf[T] > 2 * PowerOf[Validators]
    BY <1>1 DEF IInv, SetInv, Decided
  <2>2. S \in SUBSET Validators /\ T \in SUBSET Validators
    BY <1>1, <2>1 DEF IInv, SetInv, VoteSets, DataOrNil
  <2>3. 3 * PowerOf[S \cap T] > PowerOf[Validators]
    BY <2>1, <2>2, MajoritiesMeet
  <2>4. ~(S \cap T \subseteq Validators \ Honest)
    <3>1. SUFFICES ASSUME S \cap T \subseteq Validators \ Honest PROVE FALSE
      OBVIOUS
    <3>2. PowerOf[S \cap T] <= PowerOf[Validators \ Honest]
      BY <2>2, <3>1, PowerMonotone
    <3>3. /\ PowerOf[S \cap T] \in Nat /\ PowerOf[Validators \ Honest] \in Nat
          /\ PowerOf[Validators] \in Nat
      BY <2>2, PowerNat
    <3> QED
      BY <1>1, <2>3, <3>2, <3>3
  <2>5. PICK h \in Honest : h \in S /\ h \in T
    BY <2>2, <2>4
  <2>6. /\ NewVote(PrecommitType, 1, 0, a.maj23, Nil, h) \in signed
        /\ NewVote(PrecommitType, 1, 0, b.maj23, Nil, h) \in signed
    BY <1>1, <2>1, <2>5 DEF IInv, SetInv, FromSigned, VotesFor, DataOrNil
  <2>7. NewVote(PrecommitType, 1, 0, a.maj23, Nil, h)
          = NewVote(PrecommitType, 1, 0, b.maj23, Nil, h)
    BY <1>1, <2>5, <2>6 DEF IInv, NewVote
  <2> QED
    BY <2>7 DEF NewVote
<1>2. IInv => MajoritiesAgree
  BY <1>1 DEF MajoritiesAgree
<1> QED
  BY <1>2, Invariance, PTL

-----------------------------------------------------------------------------
\* A fetch

\* The vote of v for d, as the validators sign it.
Ballot(d, v) == NewVote(PrecommitType, 1, 0, d, Nil, v)

\* Node a has a vote of v and, if v is honest, the one for d.
Has(d, v) == v \in Voters(a.votes) /\ (v \in Honest => v \in a.votes[d])

\* What a fetch has brought so far: the request names voters that a knows, and
\* a response carries every vote of b's that a does not have yet.
FetchInv ==
  /\ req # None => req.Voters \subseteq Voters(a.votes)
  /\ rsp # None => \A d \in DataOrNil : \A v \in rsp.from[d] :
                     Ballot(d, v) \in rsp.votes \/ Has(d, v)
  /\ done # None => \A d \in DataOrNil : \A v \in done[d] : Has(d, v)

\* AddVote removes no voter, and adds the one of a ballot.
LEMMA AddVoteGrows ==
  ASSUME NEW vs, SetInv(vs), NEW vote \in Vote
  PROVE  LET new == VoteSet_AddVote(vs, vote, Validators).vs
         IN  /\ \A d \in DataOrNil : vs.votes[d] \subseteq new.votes[d]
             /\ \A d \in DataOrNil : \A v \in Validators :
                  vote = Ballot(d, v) => v \in new.votes[d]
<1> DEFINE new == VoteSet_AddVote(vs, vote, Validators).vs
<1>1. vs \in VoteSets /\ vs.votes \in [DataOrNil -> SUBSET Validators]
  BY DEF SetInv, VoteSets
<1>2. CASE addVoteError(vs, vote, Validators) # "nil"
  <2>1. new = vs
    BY <1>2 DEF VoteSet_AddVote
  <2>2. ASSUME NEW d \in DataOrNil, NEW v \in Validators, vote = Ballot(d, v)
        PROVE  v \in vs.votes[d]
    <3>1. /\ vote.Type = PrecommitType /\ vote.Height = 1 /\ vote.Round = 0
          /\ vote.Proposed = d /\ vote.Prev = Nil /\ vote.Address = v /\ vote.sigOK
      BY <2>2 DEF Ballot, NewVote
    <3> QED
      BY <1>2, <3>1 DEF addVoteError, VerifySignature, SetInv
  <2> QED
    BY <2>1, <2>2
<1>3. CASE addVoteError(vs, vote, Validators) = "nil"
  <2>1. vote.Address \in Validators /\ vote.Proposed \in DataOrNil
    BY <1>3 DEF addVoteError, VerifySignature, Vote
  <2>2. new.votes = [vs.votes EXCEPT ![vote.Proposed] = @ \cup {vote.Address}]
    BY <1>1, <1>3, <2>1, AddedVoters DEF VoteSet_AddVote
  <2>3. ASSUME NEW d \in DataOrNil, NEW v \in Validators, vote = Ballot(d, v)
        PROVE  v \in new.votes[d]
    <3>1. vote.Proposed = d /\ vote.Address = v
      BY <2>3 DEF Ballot, NewVote
    <3> QED
      BY <1>1, <2>2, <3>1
  <2> QED
    BY <1>1, <2>2, <2>3
<1> QED
  BY <1>2, <1>3

\* A vote that reaches a takes nothing away from what it has, and is there
\* afterwards.
LEMMA HasKept ==
  ASSUME IInv, NEW vote \in Vote, a' = VoteSet_AddVote(a, vote, Validators).vs
  PROVE  /\ Voters(a.votes) \subseteq Voters(a'.votes)
         /\ \A d \in DataOrNil : \A v \in Validators : Has(d, v) => Has(d, v)'
         /\ \A d \in DataOrNil : \A v \in Validators : vote = Ballot(d, v) => Has(d, v)'
<1>1. /\ \A d \in DataOrNil : a.votes[d] \subseteq a'.votes[d]
      /\ \A d \in DataOrNil : \A v \in Validators :
           vote = Ballot(d, v) => v \in a'.votes[d]
  BY AddVoteGrows DEF IInv
<1> QED
  BY <1>1 DEF Has, Voters

\* Every step preserves what is known of the fetch.
LEMMA FetchStep ==
  ASSUME NoOverflow, IInv, FetchInv, [Next]_vars
  PROVE  FetchInv'
<1>1. ASSUME UNCHANGED <<a, req, rsp, done>> PROVE FetchInv'
  BY <1>1 DEF FetchInv, Has
<1>2. ASSUME NEW vote \in signed, ArrivesAtA(vote) PROVE FetchInv'
  <2>1. vote \in Vote /\ a' = VoteSet_AddVote(a, vote, Validators).vs
        /\ UNCHANGED <<req, rsp, done>>
    BY <1>2 DEF IInv, ArrivesAtA
  <2>2. /\ Voters(a.votes) \subseteq Voters(a'.votes)
        /\ \A d \in DataOrNil : \A v \in Validators : Has(d, v) => Has(d, v)'
    BY <2>1, HasKept
  <2>3. \A d \in DataOrNil : \A v : Has(d, v) => v \in Validators
    BY DEF Has, Voters, IInv, SetInv, VoteSets
  <2> QED
    BY <2>1, <2>2, <2>3 DEF FetchInv
<1>3. ASSUME Request PROVE FetchInv'
  <2>1. req' = MakeFetchVotesReq(a) /\ UNCHANGED <<a, rsp, done>>
    BY <1>3 DEF Request
  <2>2. req'.Voters = Voters(a.votes)
    BY <2>1 DEF MakeFetchVotesReq, Voters
  <2> QED
    BY <2>1, <2>2 DEF FetchInv, Has
<1>4. ASSUME Answer PROVE FetchInv'
  <2> DEFINE missing == MakeFetchVotesRsp(b, req).MissingVotes
  <2>1. CASE UNCHANGED <<rsp, done>>
    BY <1>4, <2>1 DEF Answer, FetchInv, Has
  <2>2. CASE rsp' = [votes |-> missing, from |-> b.votes] /\ done' = None
    <3>1. ASSUME NEW d \in DataOrNil, NEW v \in b.votes[d]
          PROVE  Ballot(d, v) \in missing \/ Has(d, v)
      <4>1. Ballot(d, v) \in VotesFor(b, d) /\ Ballot(d, v).Address = v
        BY <3>1 DEF Ballot, VotesFor, IInv, SetInv, NewVote
      <4>2. CASE v \notin req.Voters
        BY <4>1, <4>2 DEF MakeFetchVotesRsp
      <4>3. CASE v \in req.Voters
        <5>1. v \in Voters(a.votes)
          BY <1>4, <4>3 DEF Answer, FetchInv
        <5>2. PICK e \in DataOrNil : v \in a.votes[e]
          BY <5>1 DEF Voters
        <5>3. Ballot(d, v) \in signed /\ Ballot(e, v) \in signed
          BY <3>1, <5>2 DEF Ballot, IInv, SetInv, FromSigned, VotesFor
        <5>4. v \in Honest => Ballot(d, v) = Ballot(e, v)
          BY <5>3 DEF IInv, Ballot, NewVote
        <5>5. v \in Honest => d = e
          BY <5>4 DEF Ballot, NewVote
        <5> QED
          BY <5>1, <5>2, <5>5 DEF Has
      <4> QED
        BY <4>2, <4>3
    <3>2. rsp'.votes = missing /\ rsp'.from = b.votes
      BY <2>2
    <3> HIDE DEF missing
    <3>3. a' = a /\ req' = None /\ done' = None
      BY <1>4, <2>2 DEF Answer
    <3> QED
      BY <3>1, <3>2, <3>3 DEF FetchInv, Has
  <2> QED
    BY <1>4, <2>1, <2>2 DEF Answer
<1>5. ASSUME rsp # None, NEW vote \in rsp.votes, AddMissing(vote) PROVE FetchInv'
  <2>1. /\ vote \in Vote /\ a' = VoteSet_AddVote(a, vote, Validators).vs /\ req' = req
        /\ rsp \in [votes : SUBSET signed, from : [DataOrNil -> SUBSET Validators]]
    BY <1>5 DEF IInv, AddMissing
  <2>2. /\ Voters(a.votes) \subseteq Voters(a'.votes)
        /\ \A d \in DataOrNil : \A v \in Validators : Has(d, v) => Has(d, v)'
        /\ \A d \in DataOrNil : \A v \in Validators : vote = Ballot(d, v) => Has(d, v)'
    BY <2>1, HasKept
  <2>3. \A d \in DataOrNil : \A v : Has(d, v) => v \in Validators
    BY DEF Has, Voters, IInv, SetInv, VoteSets
  <2>4. \A d \in DataOrNil : \A v \in rsp.from[d] :
          v \in Validators /\ (Ballot(d, v) \in rsp.votes \/ Has(d, v))
    BY <1>5, <2>1 DEF FetchInv
  <2>5. CASE rsp.votes = {vote}
    <3>1. rsp' = None /\ done' = rsp.from
      BY <1>5, <2>5 DEF AddMissing
    <3>2. \A d \in DataOrNil : \A v \in rsp.from[d] : Has(d, v)'
      BY <2>2, <2>4, <2>5
    <3> QED
      BY <2>1, <2>2, <3>1, <3>2 DEF FetchInv
  <2>6. CASE rsp.votes # {vote}
    <3>1. rsp' = [rsp EXCEPT !.votes = @ \ {vote}] /\ done' = done
      BY <1>5, <2>6 DEF AddMissing
    <3>2. rsp'.votes = rsp.votes \ {vote} /\ rsp'.from = rsp.from
      BY <2>1, <3>1
    <3>3. \A d \in DataOrNil : \A v \in rsp.from[d] :
            Ballot(d, v) \in rsp.votes \ {vote} \/ Has(d, v)'
      BY <2>2, <2>4
    <3>4. done # None => \A d \in DataOrNil : \A v \in done[d] : Has(d, v)'
      BY <2>2, <2>3 DEF FetchInv
    <3> QED
      BY <2>1, <2>2, <3>1, <3>2, <3>3, <3>4 DEF FetchInv
  <2> QED
    BY <2>5, <2>6
<1>6. ASSUME NothingMissing PROVE FetchInv'
  <2>1. /\ rsp # None /\ rsp.votes = {} /\ rsp' = None /\ done' = rsp.from
        /\ a' = a /\ req' = req
    BY <1>6 DEF NothingMissing
  <2>2. \A d \in DataOrNil : \A v \in rsp.from[d] : Has(d, v)
    BY <2>1 DEF FetchInv
  <2> QED
    BY <2>1, <2>2 DEF FetchInv, Has
<1>7. ASSUME NEW vote \in Ballots, Sign(vote) PROVE FetchInv'
  BY <1>1, <1>7 DEF Sign
<1>8. ASSUME NEW vote \in signed, ArrivesAtB(vote) PROVE FetchInv'
  BY <1>1, <1>8 DEF ArrivesAtB
<1>9. ASSUME UNCHANGED vars PROVE FetchInv'
  BY <1>1, <1>9 DEF vars
<1> QED
  BY <1>2, <1>3, <1>4, <1>5, <1>6, <1>7, <1>8, <1>9 DEF Next

\* What is known of a fetch holds throughout.
LEMMA FetchInvariance == ASSUME NoOverflow PROVE Spec => []FetchInv
<1>1. Init => FetchInv
  BY DEF Init, FetchInv
<1>2. IInv /\ FetchInv /\ [Next]_vars => FetchInv'
  BY FetchStep
<1> QED
  BY <1>1, <1>2, Invariance, PTL DEF Spec

\* For every committee: when handleFetchRsp has added the last vote of a
\* response, a has a vote of everyone b had a vote of when handleFetch made it,
\* whatever arrived at both in the meantime.
THEOREM FetchBringsVoters == ASSUME NoOverflow PROVE Spec => []FetchBringsEveryVoter
<1>1. FetchInv => FetchBringsEveryVoter
  BY DEF FetchInv, FetchBringsEveryVoter, Has, Voters
<1> QED
  BY <1>1, FetchInvariance, PTL

\* For every committee: then a also has b's votes for each value, as far as the
\* voters are honest, although MakeFetchVotesRsp leaves votes out by voter.
THEOREM FetchBringsHonest == ASSUME NoOverflow PROVE Spec => []FetchBringsHonestVotes
<1>1. FetchInv => FetchBringsHonestVotes
  BY DEF FetchInv, FetchBringsHonestVotes, Has
<1> QED
  BY <1>1, FetchInvariance, PTL

\* For every committee of at most ValNum validators: a request that
\* MakeFetchVotesReq builds is within the limit of ValidateBasic as long as
\* nobody has voted for two values.
THEOREM ListsPass == ASSUME NoOverflow PROVE Spec => []HonestListsPass
<1>1. ASSUME IInv, Cardinality(Validators) <= ValNum,
             \A v, w \in signed : v.Address = w.Address => v = w
      PROVE  ReqIsValid(MakeFetchVotesReq(a))
  <2> DEFINE P == {p \in DataOrNil \X Validators : p[2] \in a.votes[p[1]]}
             g == [p \in P |-> p[2]]
  <2>1. ASSUME NEW p \in P, NEW q \in P, p[2] = q[2] PROVE p = q
    <3>1. Ballot(p[1], p[2]) \in signed /\ Ballot(q[1], q[2]) \in signed
      BY <1>1 DEF Ballot, IInv, SetInv, FromSigned, VotesFor
    <3>2. Ballot(p[1], p[2]).Address = p[2] /\ Ballot(q[1], q[2]).Address = q[2]
      BY DEF Ballot, NewVote
    <3>3. Ballot(p[1], p[2]) = Ballot(q[1], q[2])
      BY <1>1, <2>1, <3>1, <3>2
    <3>4. p[1] = q[1]
      BY <3>3 DEF Ballot, NewVote
    <3> QED
      BY <2>1, <3>4
  <2>2. g \in Injection(P, Validators)
    BY <2>1 DEF Injection, IsInjective
  <2>3. Cardinality(P) <= Cardinality(Validators) /\ IsFiniteSet(P)
    BY ONLY <2>2, FS_Injection, ListAssumption
  <2>4. Cardinality(P) \in Nat /\ Cardinality(Validators) \in Nat /\ ValNum \in Nat
    BY <2>3, FS_CardinalityType, ListAssumption
  <2>5. Cardinality(P) <= ValNum
    <3> HIDE DEF P
    <3> QED
      BY <1>1, <2>3, <2>4
  <2>6. MakeFetchVotesReq(a).len = Cardinality(P)
    BY DEF MakeFetchVotesReq
  <2> QED
    BY <2>5, <2>6 DEF ReqIsValid
<1>2. Cardinality(Validators) \in Nat /\ ValNum \in Nat
  BY FS_CardinalityType, ListAssumption
<1>3. IInv => HonestListsPass
  BY <1>1, <1>2 DEF HonestListsPass
<1> QED
  BY <1>3, Invariance, PTL

-----------------------------------------------------------------------------
(***************************************************************************)
(* Sums over a finite set, as MapThenSumSet computes them.                 *)
(***************************************************************************)

\* The element that is added first.
First(s) == CHOOSE x \in s : TRUE

\* g is the sum of w over each subset of S.
IsSum(w, S, g) ==
  g = [s \in SUBSET S |-> IF s = {} THEN 0 ELSE w[First(s)] + g[s \ {First(s)}]]

\* A set of subsets of S that a set belongs to if its smaller subsets do is all of them.
LEMMA SubsetInduction ==
  ASSUME NEW S, IsFiniteSet(S), NEW T \in SUBSET (SUBSET S),
         \A s \in SUBSET S : (\A t \in SUBSET s : t # s => t \in T) => s \in T
  PROVE  T = SUBSET S
<1> DEFINE R   == StrictSubsetOrdering(S)
           Bad == (SUBSET S) \ T
<1>1. SUFFICES ASSUME Bad # {} PROVE FALSE
  OBVIOUS
<1>2. IsWellFoundedOn(R, SUBSET S)
  BY FS_StrictSubsetOrderingWellFounded, FS_FiniteSubsetsOfFinite
<1>3. Bad \subseteq SUBSET S
  OBVIOUS
<1> HIDE DEF R, Bad
<1>4. PICK s \in Bad : \A t \in Bad : ~(<<t, s>> \in R)
  BY <1>1, <1>2, <1>3, WFMin
<1>5. ASSUME NEW t \in SUBSET s, t # s PROVE t \in T
  <2>1. t \in SUBSET S /\ s \in SUBSET S
    BY <1>3
  <2>2. <<t, s>> \in R
    BY <2>1, <1>5 DEF R, StrictSubsetOrdering
  <2> QED
    BY <2>1, <2>2, <1>4 DEF Bad
<1> QED
  BY <1>5, <1>4 DEF Bad

\* Nothing sums up to zero.
LEMMA SumOfNone ==
  ASSUME NEW w, NEW S, NEW g, IsSum(w, S, g)
  PROVE  g[{}] = 0
BY DEF IsSum

\* What a sum is at any other subset.
LEMMA SumAt ==
  ASSUME NEW w, NEW S, NEW g, IsSum(w, S, g), NEW s \in SUBSET S, s # {}
  PROVE  /\ First(s) \in s
         /\ s \ {First(s)} \in SUBSET s /\ s \ {First(s)} # s
         /\ g[s] = w[First(s)] + g[s \ {First(s)}]
<1>1. g[s] = IF s = {} THEN 0 ELSE w[First(s)] + g[s \ {First(s)}]
  BY DEF IsSum
<1>2. First(s) \in s
  BY DEF First
<1> QED
  BY <1>1, <1>2

\* Sums over two sets are the same where both are defined.
LEMMA SumsMatch ==
  ASSUME NEW w, NEW A, NEW B, NEW g, NEW h, IsFiniteSet(A),
         IsSum(w, A, g), IsSum(w, B, h)
  PROVE  \A s \in SUBSET (A \cap B) : g[s] = h[s]
<1> DEFINE S == A \cap B
           T == {s \in SUBSET S : g[s] = h[s]}
<1>1. IsFiniteSet(S)
  BY FS_Subset
<1>2. ASSUME NEW s \in SUBSET S, \A t \in SUBSET s : t # s => t \in T
      PROVE  s \in T
  <2>1. s \in SUBSET A /\ s \in SUBSET B
    OBVIOUS
  <2>2. CASE s = {}
    BY <2>1, <2>2, SumOfNone
  <2>3. CASE s # {}
    <3>1. /\ g[s] = w[First(s)] + g[s \ {First(s)}]
          /\ h[s] = w[First(s)] + h[s \ {First(s)}]
          /\ s \ {First(s)} \in SUBSET s /\ s \ {First(s)} # s
      BY <2>1, <2>3, SumAt
    <3>2. g[s \ {First(s)}] = h[s \ {First(s)}]
      BY <3>1, <1>2
    <3> QED
      BY <3>1, <3>2
  <2> QED
    BY <2>2, <2>3
<1>3. T \in SUBSET (SUBSET S)
  OBVIOUS
<1> HIDE DEF S, T
<1>4. T = SUBSET S
  BY <1>1, <1>2, <1>3, SubsetInduction
<1> QED
  BY <1>4 DEF S, T

\* Every finite set has a sum.
LEMMA SumExists ==
  ASSUME NEW w, NEW S, IsFiniteSet(S)
  PROVE  \E g : IsSum(w, S, g)
<1> DEFINE T == {s \in SUBSET S : \E g : IsSum(w, s, g)}
           Sum(u) == CHOOSE g : IsSum(w, u, g)
<1>1. ASSUME NEW s \in SUBSET S, \A t \in SUBSET s : t # s => t \in T
      PROVE  s \in T
  <2> DEFINE g == [t \in SUBSET s |-> IF t = {} THEN 0
                     ELSE w[First(t)] + Sum(t \ {First(t)})[t \ {First(t)}]]
  <2>1. ASSUME NEW u \in SUBSET s, u # s PROVE IsSum(w, u, Sum(u))
    BY <1>1, <2>1
  <2>2. ASSUME NEW u \in SUBSET s, u # s PROVE g[u] = Sum(u)[u]
    <3> DEFINE x == First(u)
               h == Sum(u)
               k == Sum(u \ {x})
    <3>1. IsSum(w, u, h)
      BY <2>1, <2>2
    <3>2. u \in SUBSET u
      OBVIOUS
    <3> HIDE DEF h
    <3>3. CASE u = {}
      BY <3>1, <3>3, SumOfNone DEF h
    <3>4. CASE u # {}
      <4>1. /\ x \in u /\ u \ {x} # u
            /\ h[u] = w[x] + h[u \ {x}]
        BY <3>1, <3>2, <3>4, SumAt
      <4>2. u \ {x} \in SUBSET s /\ u \ {x} # s
        BY <2>2, <4>1
      <4>3. IsSum(w, u \ {x}, k)
        BY <4>2, <2>1
      <4>4. IsFiniteSet(u \ {x})
        BY <1>1, <4>2, FS_Subset
      <4>5. g[u] = w[x] + k[u \ {x}]
        BY <3>4
      <4> HIDE DEF k, x, g
      <4>6. u \ {x} \in SUBSET ((u \ {x}) \cap u)
        OBVIOUS
      <4>7. k[u \ {x}] = h[u \ {x}]
        BY <3>1, <4>3, <4>4, <4>6, SumsMatch
      <4> QED
        BY <4>1, <4>5, <4>7 DEF h
    <3> QED
      BY <3>3, <3>4
  <2>3. ASSUME NEW t \in SUBSET s
        PROVE  g[t] = IF t = {} THEN 0 ELSE w[First(t)] + g[t \ {First(t)}]
    <3>1. CASE t = {}
      BY <3>1
    <3>2. CASE t # {}
      <4>1. First(t) \in t
        BY <3>2 DEF First
      <4>2. t \ {First(t)} \in SUBSET s /\ t \ {First(t)} # s
        BY <4>1
      <4>3. g[t \ {First(t)}] = Sum(t \ {First(t)})[t \ {First(t)}]
        BY <4>2, <2>2
      <4>4. g[t] = w[First(t)] + Sum(t \ {First(t)})[t \ {First(t)}]
        BY <3>2
      <4> QED
        BY <3>2, <4>3, <4>4
    <3> QED
      BY <3>1, <3>2
  <2>4. g = [t \in SUBSET s |-> g[t]]
    OBVIOUS
  <2> HIDE DEF g
  <2>5. IsSum(w, s, g)
    BY <2>3, <2>4 DEF IsSum
  <2> QED
    BY <2>5
<1>2. T \in SUBSET (SUBSET S)
  OBVIOUS
<1>3. \A s \in T : \E g : IsSum(w, s, g)
  OBVIOUS
<1> HIDE DEF T
<1>4. T = SUBSET S
  BY <1>1, <1>2, SubsetInduction
<1> QED
  BY <1>3, <1>4

\* Sums of natural numbers are natural numbers.
LEMMA SumNat ==
  ASSUME NEW S, IsFiniteSet(S), NEW w \in [S -> Nat], NEW g, IsSum(w, S, g)
  PROVE  \A s \in SUBSET S : g[s] \in Nat
<1> DEFINE T == {s \in SUBSET S : g[s] \in Nat}
<1>1. ASSUME NEW s \in SUBSET S, \A t \in SUBSET s : t # s => t \in T
      PROVE  s \in T
  <2>1. CASE s = {}
    BY <2>1, SumOfNone
  <2>2. CASE s # {}
    <3>1. /\ First(s) \in s /\ g[s] = w[First(s)] + g[s \ {First(s)}]
          /\ s \ {First(s)} \in SUBSET s /\ s \ {First(s)} # s
      BY <2>2, SumAt
    <3>2. w[First(s)] \in Nat /\ g[s \ {First(s)}] \in Nat
      BY <3>1, <1>1
    <3> QED
      BY <3>1, <3>2
  <2> QED
    BY <2>1, <2>2
<1>2. T \in SUBSET (SUBSET S)
  OBVIOUS
<1> HIDE DEF T
<1>3. T = SUBSET S
  BY <1>1, <1>2, SubsetInduction
<1> QED
  BY <1>3 DEF T

\* A sum of zeros is zero.
LEMMA SumZero ==
  ASSUME NEW S, IsFiniteSet(S), NEW w, \A x \in S : w[x] = 0, NEW g, IsSum(w, S, g)
  PROVE  \A s \in SUBSET S : g[s] = 0
<1> DEFINE T == {s \in SUBSET S : g[s] = 0}
<1>1. ASSUME NEW s \in SUBSET S, \A t \in SUBSET s : t # s => t \in T
      PROVE  s \in T
  <2>1. CASE s = {}
    BY <2>1, SumOfNone
  <2>2. CASE s # {}
    <3>1. /\ First(s) \in s /\ g[s] = w[First(s)] + g[s \ {First(s)}]
          /\ s \ {First(s)} \in SUBSET s /\ s \ {First(s)} # s
      BY <2>2, SumAt
    <3>2. w[First(s)] = 0 /\ g[s \ {First(s)}] = 0
      BY <3>1, <1>1
    <3> QED
      BY <3>1, <3>2
  <2> QED
    BY <2>1, <2>2
<1>2. T \in SUBSET (SUBSET S)
  OBVIOUS
<1> HIDE DEF T
<1>3. T = SUBSET S
  BY <1>1, <1>2, SubsetInduction
<1> QED
  BY <1>3 DEF T

\* If one term grows, the sums it is in grow by as much.
LEMMA SumGrows ==
  ASSUME NEW S, IsFiniteSet(S), NEW w \in [S -> Nat], NEW u \in [S -> Nat],
         NEW g, IsSum(w, S, g), NEW h, IsSum(u, S, h), NEW y \in S, NEW n \in Nat,
         u[y] = w[y] + n, \A x \in S : x # y => u[x] = w[x]
  PROVE  h[S] = g[S] + n
<1> DEFINE T == {s \in SUBSET S : h[s] = IF y \in s THEN g[s] + n ELSE g[s]}
<1>1. ASSUME NEW s \in SUBSET S, \A t \in SUBSET s : t # s => t \in T
      PROVE  s \in T
  <2>1. CASE s = {}
    BY <2>1, SumOfNone
  <2>2. CASE s # {}
    <3> DEFINE x == First(s)
               r == s \ {x}
    <3>1. x \in s /\ r \in SUBSET s /\ r # s
      BY <2>2 DEF First
    <3>2. g[s] = w[x] + g[r]
      BY <2>2, SumAt
    <3>3. h[s] = u[x] + h[r]
      BY <2>2, SumAt
    <3>4. r \in T
      BY <3>1, <1>1
    <3>5. h[r] = IF y \in r THEN g[r] + n ELSE g[r]
      BY <3>4
    <3>6. w[x] \in Nat /\ u[x] = (IF x = y THEN w[x] + n ELSE w[x]) /\ g[r] \in Nat
      BY <3>1, SumNat
    <3>7. y \in r <=> y \in s /\ x # y
      OBVIOUS
    <3> HIDE DEF r, x
    <3>8. h[s] = IF y \in s THEN g[s] + n ELSE g[s]
      BY <3>1, <3>2, <3>3, <3>5, <3>6, <3>7
    <3> QED
      BY <3>8
  <2> QED
    BY <2>1, <2>2
<1>2. T \in SUBSET (SUBSET S)
  OBVIOUS
<1> HIDE DEF T
<1>3. T = SUBSET S
  BY <1>1, <1>2, SubsetInduction
<1> QED
  BY <1>3 DEF T

-----------------------------------------------------------------------------
\* The power behind each value.
PowerBehind(vs) == [d \in DataOrNil |-> PowerOf[vs.votes[d]]]

\* It is such a sum.
LEMMA VotedPowerIsSum ==
  ASSUME NEW vs
  PROVE  \E g : IsSum(PowerBehind(vs), DataOrNil, g) /\ VotedPower(vs) = g[DataOrNil]
<1>1. IsFiniteSet(DataOrNil)
  BY ListAssumption, FS_AddElement DEF DataOrNil
<1> DEFINE Q(g) == g = [s \in SUBSET DataOrNil |->
                          IF s = {} THEN 0
                          ELSE PowerOf[vs.votes[CHOOSE x \in s : TRUE]]
                                 + g[s \ {CHOOSE x \in s : TRUE}]]
<1>2. \A g : IsSum(PowerBehind(vs), DataOrNil, g) <=> Q(g)
  <2>1. \A s \in SUBSET DataOrNil : s # {} =>
          PowerBehind(vs)[First(s)] = PowerOf[vs.votes[First(s)]]
    BY DEF First, PowerBehind
  <2>2. ASSUME NEW g
        PROVE  [s \in SUBSET DataOrNil |-> IF s = {} THEN 0
                  ELSE PowerBehind(vs)[First(s)] + g[s \ {First(s)}]]
               = [s \in SUBSET DataOrNil |-> IF s = {} THEN 0
                    ELSE PowerOf[vs.votes[First(s)]] + g[s \ {First(s)}]]
    BY <2>1
  <2> QED
    BY <2>2 DEF IsSum, First
<1>3. \E g : IsSum(PowerBehind(vs), DataOrNil, g)
  BY <1>1, SumExists
<1>4. VotedPower(vs) = (CHOOSE g : Q(g))[DataOrNil]
  BY DEF VotedPower, MapThenSumSet, MapThenFoldSet
<1> HIDE DEF Q
<1>5. \E g : Q(g)
  BY <1>2, <1>3
<1>6. Q(CHOOSE g : Q(g))
  BY <1>5
<1> QED
  BY <1>2, <1>4, <1>6

\* The power behind each value is a natural number.
LEMMA PowerBehindType ==
  ASSUME NEW vs \in VoteSets
  PROVE  PowerBehind(vs) \in [DataOrNil -> Nat] /\ IsFiniteSet(DataOrNil)
<1>1. \A d \in DataOrNil : vs.votes[d] \in SUBSET Validators
  BY DEF VoteSets
<1>2. \A d \in DataOrNil : PowerOf[vs.votes[d]] \in Nat
  BY <1>1, PowerNat
<1>3. IsFiniteSet(DataOrNil)
  BY ListAssumption, FS_AddElement DEF DataOrNil
<1> QED
  BY <1>2, <1>3 DEF PowerBehind

\* So is the power of all votes.
LEMMA VotedPowerNat ==
  ASSUME NEW vs \in VoteSets
  PROVE  VotedPower(vs) \in Nat
<1>1. PICK g : IsSum(PowerBehind(vs), DataOrNil, g) /\ VotedPower(vs) = g[DataOrNil]
  BY VotedPowerIsSum
<1>2. \A s \in SUBSET DataOrNil : g[s] \in Nat
  BY <1>1, PowerBehindType, SumNat
<1> QED
  BY <1>1, <1>2

\* A vote that is new to its value adds the power of its voter.
LEMMA VotedPowerGrows ==
  ASSUME NEW vs \in VoteSets, NEW new \in VoteSets, NEW e \in DataOrNil,
         NEW v \in Validators, v \notin vs.votes[e],
         new.votes = [vs.votes EXCEPT ![e] = @ \cup {v}]
  PROVE  VotedPower(new) = VotedPower(vs) + PowerOf[{v}]
<1> DEFINE w == PowerBehind(vs)
           u == PowerBehind(new)
           n == PowerOf[{v}]
<1>1. /\ vs.votes \in [DataOrNil -> SUBSET Validators]
      /\ \A d \in DataOrNil : new.votes[d] = IF d = e THEN vs.votes[d] \cup {v}
                                            ELSE vs.votes[d]
  BY DEF VoteSets
<1>2. /\ {v} \in SUBSET Validators /\ vs.votes[e] \in SUBSET Validators
      /\ vs.votes[e] \cap {v} = {}
  BY <1>1
<1>3. PowerOf[vs.votes[e] \cup {v}] = PowerOf[vs.votes[e]] + n /\ n \in Nat
  BY <1>2, PowerAssumption, PowerNat
<1>4. u[e] = w[e] + n /\ \A d \in DataOrNil : d # e => u[d] = w[d]
  BY <1>1, <1>3 DEF PowerBehind
<1>5. /\ w \in [DataOrNil -> Nat] /\ u \in [DataOrNil -> Nat] /\ IsFiniteSet(DataOrNil)
  BY PowerBehindType
<1>6. PICK g : IsSum(w, DataOrNil, g) /\ VotedPower(vs) = g[DataOrNil]
  BY VotedPowerIsSum
<1>7. PICK h : IsSum(u, DataOrNil, h) /\ VotedPower(new) = h[DataOrNil]
  BY VotedPowerIsSum
<1> HIDE DEF w, u, n
<1>8. h[DataOrNil] = g[DataOrNil] + n
  BY <1>3, <1>4, <1>5, <1>6, <1>7, SumGrows
<1> QED
  BY <1>6, <1>7, <1>8 DEF n

\* The running total is right, unless the power voted for is beyond an int64.
Tallied(vs) == VotedPower(vs) <= MaxInt64 => vs.sum = VotedPower(vs)

\* An empty set is tallied.
LEMMA EmptyTallied ==
  ASSUME NEW vs, vs = NewVoteSet(1, 0, PrecommitType, Nil)
  PROVE  Tallied(vs)
<1>1. PowerOf[{}] = 0
  BY NoPower
<1>2. \A d \in DataOrNil : PowerBehind(vs)[d] = 0
  BY <1>1 DEF PowerBehind, NewVoteSet
<1>3. PICK g : IsSum(PowerBehind(vs), DataOrNil, g) /\ VotedPower(vs) = g[DataOrNil]
  BY VotedPowerIsSum
<1>4. IsFiniteSet(DataOrNil)
  BY ListAssumption, FS_AddElement DEF DataOrNil
<1>5. \A s \in SUBSET DataOrNil : g[s] = 0
  BY <1>2, <1>3, <1>4, SumZero
<1>6. VotedPower(vs) = 0 /\ vs.sum = 0
  BY <1>3, <1>5 DEF NewVoteSet
<1> QED
  BY <1>6 DEF Tallied

\* A vote, added or refused, keeps the tally right.
LEMMA AddVoteTallies ==
  ASSUME NEW vs \in VoteSets, Tallied(vs), NEW vote \in Vote
  PROVE  Tallied(VoteSet_AddVote(vs, vote, Validators).vs)
<1> DEFINE new == VoteSet_AddVote(vs, vote, Validators).vs
           v   == vote.Address
           e   == vote.Proposed
<1>1. CASE addVoteError(vs, vote, Validators) # "nil"
  <2>1. new = vs
    BY <1>1 DEF VoteSet_AddVote
  <2> QED
    BY <2>1
<1>2. CASE addVoteError(vs, vote, Validators) = "nil"
  <2>1. v \in Validators /\ e \in DataOrNil /\ v \notin vs.votes[e]
    BY <1>2 DEF addVoteError, VerifySignature, Vote
  <2>2. new = addVerifiedVote(vs, vote, Validators)
    BY <1>2 DEF VoteSet_AddVote
  <2>3. new \in VoteSets /\ new.votes = [vs.votes EXCEPT ![e] = @ \cup {v}]
    BY <2>1, <2>2, AddedVoters
  <2>4. new.sum = int64(vs.sum + PowerOf[{v}])
    BY <2>1, <2>2 DEF addVerifiedVote, GetVotingPower, VoteSets
  <2> HIDE DEF new, v, e
  <2>5. VotedPower(new) = VotedPower(vs) + PowerOf[{v}]
    BY <2>1, <2>3, VotedPowerGrows
  <2>6. VotedPower(vs) \in Nat /\ PowerOf[{v}] \in Nat /\ MaxInt64 \in Nat
    BY <2>1, VotedPowerNat, PowerNat, PowerAssumption
  <2>7. Tallied(new)
    BY <2>4, <2>5, <2>6 DEF Tallied, int64
  <2> QED
    BY <2>7 DEF new
<1> QED
  BY <1>1, <1>2

\* What a step does to the two sets.
LEMMA StepAdds ==
  ASSUME IInv, [Next]_vars
  PROVE  /\ a' = a \/ \E vote \in Vote : a' = VoteSet_AddVote(a, vote, Validators).vs
         /\ b' = b \/ \E vote \in Vote : b' = VoteSet_AddVote(b, vote, Validators).vs
<1>1. signed \subseteq Vote /\ (rsp # None => rsp.votes \subseteq Vote)
  BY DEF IInv
<1> QED
  BY <1>1 DEF Next, Sign, ArrivesAtA, ArrivesAtB, Request, Answer, AddMissing,
              NothingMissing, vars

\* For every committee, and whatever equivocators add to the votes: the running
\* total of addVerifiedVote is the power of the votes held, value by value, as
\* long as that is an int64.
THEOREM SumsArePower ==
  ASSUME NoOverflow
  PROVE  Spec => []((\A vs \in {a, b} : VotedPower(vs) <= MaxInt64) => SumIsPower)
<1> DEFINE TallyInv == Tallied(a) /\ Tallied(b)
<1>1. Init => TallyInv
  BY EmptyTallied DEF Init
<1>2. IInv /\ TallyInv /\ [Next]_vars => TallyInv'
  <2> SUFFICES ASSUME IInv, TallyInv, [Next]_vars PROVE TallyInv'
    OBVIOUS
  <2>1. a \in VoteSets /\ b \in VoteSets
    BY DEF IInv, SetInv
  <2>2. Tallied(a')
    BY <2>1, StepAdds, AddVoteTallies
  <2>3. Tallied(b')
    BY <2>1, StepAdds, AddVoteTallies
  <2>4. Tallied(a)' /\ Tallied(b)'
    BY <2>2, <2>3 DEF Tallied, VotedPower, MapThenSumSet, MapThenFoldSet
  <2> QED
    BY <2>4
<1>3. IInv /\ TallyInv => ((\A vs \in {a, b} : VotedPower(vs) <= MaxInt64) => SumIsPower)
  BY DEF IInv, FromSigned, Tallied, SumIsPower
<1> HIDE DEF TallyInv
<1>4. Spec => []IInv
  BY Invariance
<1>5. Spec => []TallyInv
  BY <1>1, <1>2, <1>4, PTL DEF Spec
<1> QED
  BY <1>3, <1>4, <1>5, PTL
==============================================================================
