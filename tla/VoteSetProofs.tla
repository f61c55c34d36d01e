---------------------------- MODULE VoteSetProofs ----------------------------
(***************************************************************************)
(* Facts about VoteSet and HeightVoteSet, for every committee: what a vote *)
(* that is added or refused does to a set, and that the votes of a height  *)
(* only grow.                                                              *)
(***************************************************************************)
EXTENDS HeightVoteSet, CommitteeProofs, FiniteSetTheorems

VoteTypes == {PrevoteType, PrecommitType}

\* A set of votes of members, with an exact majority.
SetOK(vs, height, round, type, base, members) ==
  /\ vs \in VoteSets
  /\ vs.height = height /\ vs.round = round /\ vs.type_ = type /\ vs.base = base
  /\ \A d \in DataOrNil : vs.votes[d] \subseteq members
  /\ vs.maj23 # Nil => PowerOf[vs.votes[vs.maj23]] >= Quorum(members)
  /\ \A d \in Data : PowerOf[vs.votes[d]] >= Quorum(members) => vs.maj23 # Nil

\* The running total is at least the power behind any one value.
TotalOK(vs) == \A d \in DataOrNil : PowerOf[vs.votes[d]] <= vs.sum

\* One more vote cannot make the running total wrap around.
TotalFits(vs) == vs.sum + PowerOf[Validators] <= MaxInt64

-----------------------------------------------------------------------------
\* What an accepted vote is: one for exactly this set, by a member that has not
\* voted for this value before.
LEMMA Accepted ==
  ASSUME NEW vs, NEW vote \in Vote, NEW members,
         addVoteError(vs, vote, members) = "nil"
  PROVE  /\ vote.Address \in members /\ vote.Address \notin vs.votes[vote.Proposed]
         /\ vote = NewVote(vs.type_, vs.height, vs.round, vote.Proposed, vs.base,
                           vote.Address)
<1>1. /\ vote.Prev = vs.base /\ vote.Height = vs.height /\ vote.Round = vs.round
      /\ vote.Type = vs.type_ /\ vote.Address \notin vs.votes[vote.Proposed]
      /\ vote.Address \in members /\ vote.sigOK
  BY DEF addVoteError, VerifySignature
<1>2. vote.sigOK = TRUE
  BY <1>1 DEF Vote
<1> QED
  BY <1>1, <1>2 DEF Vote, NewVote

\* new is the set with the vote counted.
Counted(vs, vote, members, new) ==
  /\ new \in VoteSets
  /\ new.height = vs.height /\ new.round = vs.round
  /\ new.type_ = vs.type_ /\ new.base = vs.base
  /\ new.votes = [vs.votes EXCEPT ![vote.Proposed] = @ \cup {vote.Address}]
  /\ new.sum = int64(vs.sum + PowerOf[{vote.Address}])
  /\ new.maj23 = newMaj23(vs, vote.Proposed, PowerOf[vs.votes[vote.Proposed]],
                          PowerOf[vs.votes[vote.Proposed] \cup {vote.Address}],
                          Quorum(members))

\* What addVerifiedVote does.
LEMMA Added ==
  ASSUME NEW vs \in VoteSets, NEW vote \in Vote, NEW members \in SUBSET Validators,
         vote.Address \in members
  PROVE  Counted(vs, vote, members, addVerifiedVote(vs, vote, members))
<1>1. vote.Proposed \in DataOrNil /\ vote.Address \in Validators
  BY DEF Vote
<1>2. vs.votes \in [DataOrNil -> SUBSET Validators] /\ vs.maj23 \in DataOrNil
      /\ vs.sum \in Int
  BY DEF VoteSets
<1>3. /\ GetVotingPower(vote.Address, members) = PowerOf[{vote.Address}]
      /\ int64(vs.sum + PowerOf[{vote.Address}]) \in Int
  <2>1. GetVotingPower(vote.Address, members) = PowerOf[{vote.Address}]
    BY DEF GetVotingPower
  <2>2. PowerOf[{vote.Address}] \in Nat
    BY <1>1, PowerNat
  <2> QED
    BY <1>2, <2>1, <2>2, PowerAssumption DEF int64
<1>4. newMaj23(vs, vote.Proposed, PowerOf[vs.votes[vote.Proposed]],
               PowerOf[vs.votes[vote.Proposed] \cup {vote.Address}],
               Quorum(members)) \in DataOrNil
  BY <1>1, <1>2 DEF newMaj23
<1> QED
  <2> DEFINE voters == vs.votes[vote.Proposed] \cup {vote.Address}
             total == int64(vs.sum + PowerOf[{vote.Address}])
             maj == newMaj23(vs, vote.Proposed, PowerOf[vs.votes[vote.Proposed]],
                             PowerOf[voters], Quorum(members))
             votes == [vs.votes EXCEPT ![vote.Proposed] = voters]
             new == [vs EXCEPT !.votes = votes, !.sum = total, !.maj23 = maj]
  <2>1. addVerifiedVote(vs, vote, members) = new
    BY <1>3 DEF addVerifiedVote
  <2>2. votes \in [DataOrNil -> SUBSET Validators] /\ total \in Int /\ maj \in DataOrNil
    BY <1>1, <1>2, <1>3, <1>4
  <2>3. votes = [vs.votes EXCEPT ![vote.Proposed] = @ \cup {vote.Address}]
    OBVIOUS
  <2> HIDE DEF votes, total, maj
  <2>4. /\ new \in VoteSets /\ new.height = vs.height /\ new.round = vs.round
        /\ new.type_ = vs.type_ /\ new.base = vs.base
        /\ new.votes = votes /\ new.sum = total /\ new.maj23 = maj
    BY ONLY <2>2, vs \in VoteSets DEF VoteSets
  <2> HIDE DEF new
  <2> QED
    BY <2>1, <2>3, <2>4 DEF Counted, total, maj

\* A vote, added or refused, leaves a set of the same kind, takes no vote and no
\* majority away, and brings no vote but itself.
LEMMA AddVoteGrows ==
  ASSUME NEW vs \in VoteSets, NEW vote \in Vote, NEW members \in SUBSET Validators
  PROVE  LET new == VoteSet_AddVote(vs, vote, members).vs
         IN  /\ new \in VoteSets
             /\ new.height = vs.height /\ new.round = vs.round
             /\ new.type_ = vs.type_ /\ new.base = vs.base
             /\ vs.maj23 # Nil => new.maj23 = vs.maj23
             /\ \A d \in DataOrNil :
                  /\ vs.votes[d] \subseteq new.votes[d]
                  /\ \A v \in new.votes[d] \ vs.votes[d] :
                       /\ v \in members
                       /\ vote = NewVote(vs.type_, vs.height, vs.round, d, vs.base, v)
<1> DEFINE new == VoteSet_AddVote(vs, vote, members).vs
<1>1. CASE addVoteError(vs, vote, members) # "nil"
  <2>1. new = vs
    BY <1>1 DEF VoteSet_AddVote
  <2> QED
    BY <2>1
<1>2. CASE addVoteError(vs, vote, members) = "nil"
  <2>1. vote.Address \in members
    BY <1>2, Accepted
  <2>2. vote = NewVote(vs.type_, vs.height, vs.round, vote.Proposed, vs.base,
                       vote.Address)
    BY <1>2, Accepted
  <2> DEFINE w == addVerifiedVote(vs, vote, members)
  <2>10. Counted(vs, vote, members, w)
    BY <2>1, Added
  <2> HIDE DEF w
  <2>3. /\ w \in VoteSets
        /\ w.height = vs.height /\ w.round = vs.round
        /\ w.type_ = vs.type_ /\ w.base = vs.base
    BY <2>10 DEF Counted
  <2>4. w.votes = [vs.votes EXCEPT ![vote.Proposed] = @ \cup {vote.Address}]
    BY <2>10 DEF Counted
  <2>5. vs.maj23 # Nil => w.maj23 = vs.maj23
    BY <2>10 DEF Counted, newMaj23
  <2>6. vs.votes \in [DataOrNil -> SUBSET Validators]
    BY DEF VoteSets
  <2>7. \A d \in DataOrNil :
          w.votes[d] = IF d = vote.Proposed THEN vs.votes[d] \cup {vote.Address}
                       ELSE vs.votes[d]
    BY <2>4, <2>6
  <2>8. ASSUME NEW d \in DataOrNil
        PROVE  /\ vs.votes[d] \subseteq w.votes[d]
               /\ \A v \in w.votes[d] \ vs.votes[d] :
                    /\ v \in members
                    /\ vote = NewVote(vs.type_, vs.height, vs.round, d, vs.base, v)
    BY <2>1, <2>2, <2>7
  <2>9. new = w
    BY <1>2 DEF VoteSet_AddVote, w
  <2> QED
    BY <2>3, <2>5, <2>8, <2>9
<1> QED
  BY <1>1, <1>2

\* A vote, added or refused, keeps the majority of a set exact.
LEMMA AddVoteOK ==
  ASSUME NoOverflow, NEW members \in SUBSET Validators,
         NEW height, NEW round, NEW type, NEW base,
         NEW vs, SetOK(vs, height, round, type, base, members), NEW vote \in Vote
  PROVE  SetOK(VoteSet_AddVote(vs, vote, members).vs, height, round, type, base, members)
<1> DEFINE new == VoteSet_AddVote(vs, vote, members).vs
<1>1. CASE addVoteError(vs, vote, members) # "nil"
  <2>1. new = vs
    BY <1>1 DEF VoteSet_AddVote
  <2> QED
    BY <2>1
<1>2. CASE addVoteError(vs, vote, members) = "nil"
  <2> DEFINE w     == addVerifiedVote(vs, vote, members)
             e     == vote.Proposed
             orig  == PowerOf[vs.votes[e]]
             added == PowerOf[vs.votes[e] \cup {vote.Address}]
  <2>1. vote.Address \in members /\ e \in DataOrNil
    BY <1>2, Accepted DEF Vote
  <2>2. vs \in VoteSets /\ vs.votes \in [DataOrNil -> SUBSET Validators]
          /\ vs.maj23 \in DataOrNil
    BY DEF SetOK, VoteSets
  <2>20. Counted(vs, vote, members, w)
    BY <2>1, <2>2, Added
  <2> HIDE DEF w
  <2>3. /\ w \in VoteSets
        /\ w.height = vs.height /\ w.round = vs.round
        /\ w.type_ = vs.type_ /\ w.base = vs.base
    BY <2>20 DEF Counted
  <2>4. w.votes = [vs.votes EXCEPT ![e] = @ \cup {vote.Address}]
    BY <2>20 DEF Counted
  <2>5. w.maj23 = newMaj23(vs, e, orig, added, Quorum(members))
    BY <2>20 DEF Counted
  <2>6. \A d \in DataOrNil :
          w.votes[d] = IF d = e THEN vs.votes[e] \cup {vote.Address}
                       ELSE vs.votes[d]
    BY <2>2, <2>4
  <2>7. orig \in Nat /\ added \in Nat /\ orig <= added
    BY <2>1, <2>2, PowerNat, PowerMonotone
  <2>8. Quorum(members) \in Nat
    BY QuorumIsExact
  <2>9. Nil \notin Data /\ DataOrNil = Data \cup {Nil}
    BY ValueAssumption DEF DataOrNil
  <2>10. \A d \in DataOrNil : w.votes[d] \subseteq members
    BY <2>1, <2>6 DEF SetOK
  <2>11. ASSUME w.maj23 # Nil PROVE PowerOf[w.votes[w.maj23]] >= Quorum(members)
    <3>1. CASE vs.maj23 # Nil
      <4>1. w.maj23 = vs.maj23 /\ PowerOf[vs.votes[vs.maj23]] >= Quorum(members)
        BY <3>1, <2>5 DEF newMaj23, SetOK
      <4>2. /\ vs.votes[vs.maj23] \subseteq w.votes[vs.maj23]
            /\ vs.votes[vs.maj23] \in SUBSET Validators
            /\ w.votes[vs.maj23] \in SUBSET Validators
        BY <2>2, <2>6, <2>1
      <4>3. /\ PowerOf[vs.votes[vs.maj23]] <= PowerOf[w.votes[vs.maj23]]
            /\ PowerOf[vs.votes[vs.maj23]] \in Nat
            /\ PowerOf[w.votes[vs.maj23]] \in Nat
        BY <4>2, PowerMonotone, PowerNat
      <4> QED
        BY <4>1, <4>3, <2>8
    <3>2. CASE vs.maj23 = Nil
      <4>1. w.maj23 = e /\ Quorum(members) <= added
        BY <3>2, <2>5, <2>11 DEF newMaj23
      <4> QED
        BY <4>1, <2>1, <2>6, <2>7, <2>8
    <3> QED
      BY <3>1, <3>2
  <2>12. ASSUME NEW d \in Data, PowerOf[w.votes[d]] >= Quorum(members)
         PROVE  w.maj23 # Nil
    <3>1. CASE vs.maj23 # Nil
      BY <3>1, <2>5 DEF newMaj23
    <3>2. CASE vs.maj23 = Nil
      <4>1. ~(PowerOf[vs.votes[d]] >= Quorum(members))
        BY <3>2 DEF SetOK
      <4>2. d = e
        BY <4>1, <2>12, <2>6, <2>9
      <4>3. orig < Quorum(members) /\ Quorum(members) <= added
        BY <4>1, <4>2, <2>12, <2>6, <2>7, <2>8, <2>9
      <4> QED
        BY <3>2, <4>2, <4>3, <2>5, <2>9 DEF newMaj23
    <3> QED
      BY <3>1, <3>2
  <2>13. SetOK(w, height, round, type, base, members)
    BY <2>3, <2>10, <2>11, <2>12 DEF SetOK
  <2>14. new = w
    BY <1>2 DEF VoteSet_AddVote, w
  <2> QED
    BY <2>13, <2>14
<1> QED
  BY <1>1, <1>2

\* As long as the running total does not wrap around, it is at least the power
\* behind any value: a validator is only counted once for a value.
LEMMA AddVoteTotal ==
  ASSUME NEW members \in SUBSET Validators, NEW vs \in VoteSets, NEW vote \in Vote,
         TotalOK(vs), TotalFits(vs)
  PROVE  TotalOK(VoteSet_AddVote(vs, vote, members).vs)
<1> DEFINE new == VoteSet_AddVote(vs, vote, members).vs
<1>1. CASE addVoteError(vs, vote, members) # "nil"
  <2>1. new = vs
    BY <1>1 DEF VoteSet_AddVote
  <2> QED
    BY <2>1
<1>2. CASE addVoteError(vs, vote, members) = "nil"
  <2> DEFINE w == addVerifiedVote(vs, vote, members)
             e == vote.Proposed
             a == vote.Address
  <2>1. a \in members /\ e \in DataOrNil /\ a \notin vs.votes[e]
    BY <1>2, Accepted DEF Vote
  <2>2. vs.votes \in [DataOrNil -> SUBSET Validators] /\ vs.sum \in Int
    BY DEF VoteSets
  <2>20. Counted(vs, vote, members, w)
    BY <2>1, Added
  <2> HIDE DEF w
  <2>3. w.votes = [vs.votes EXCEPT ![e] = @ \cup {a}]
    BY <2>20 DEF Counted
  <2>4. w.sum = int64(vs.sum + PowerOf[{a}])
    BY <2>20 DEF Counted
  <2>5. PowerOf[{a}] \in Nat /\ PowerOf[{a}] <= PowerOf[Validators]
        /\ PowerOf[Validators] \in Nat
    BY <2>1, PowerNat, PowerMonotone
  <2>6. w.sum = vs.sum + PowerOf[{a}]
    BY <2>2, <2>4, <2>5, PowerAssumption DEF int64, TotalFits
  <2>7. PowerOf[vs.votes[e] \cup {a}] = PowerOf[vs.votes[e]] + PowerOf[{a}]
    <3>1. vs.votes[e] \in SUBSET Validators /\ {a} \in SUBSET Validators
          /\ vs.votes[e] \cap {a} = {}
      BY <2>1, <2>2
    <3> QED
      BY <3>1, PowerAssumption
  <2>8. ASSUME NEW d \in DataOrNil PROVE PowerOf[w.votes[d]] <= w.sum
    <3>1. PowerOf[vs.votes[d]] <= vs.sum /\ PowerOf[vs.votes[d]] \in Nat
      BY <2>2, PowerNat DEF TotalOK
    <3>2. CASE d = e
      <4>1. w.votes[d] = vs.votes[d] \cup {a}
        BY <3>2, <2>2, <2>3
      <4> QED
        BY <4>1, <3>1, <3>2, <2>2, <2>5, <2>6, <2>7
    <3>3. CASE d # e
      <4>1. w.votes[d] = vs.votes[d]
        BY <3>3, <2>2, <2>3
      <4> QED
        BY <4>1, <3>1, <2>2, <2>5, <2>6
    <3> QED
      BY <3>2, <3>3
  <2>9. new = w
    BY <1>2 DEF VoteSet_AddVote, w
  <2> QED
    BY <2>8, <2>9 DEF TotalOK
<1> QED
  BY <1>1, <1>2

\* A new VoteSet is empty, and its majority and total are right.
LEMMA NewVoteSetOK ==
  ASSUME NoOverflow, NEW members \in SUBSET Validators, NEW height \in Nat,
         NEW round \in Int, NEW type \in VoteTypes, NEW base \in DataOrNil
  PROVE  LET vs == NewVoteSet(height, round, type, base)
         IN  /\ SetOK(vs, height, round, type, base, members)
             /\ TotalOK(vs)
             /\ \A d \in DataOrNil : vs.votes[d] = {}
             /\ ~(PowerOf[{}] >= Quorum(members))
<1> DEFINE vs == NewVoteSet(height, round, type, base)
<1>1. vs \in VoteSets
  BY DEF NewVoteSet, VoteSets, DataOrNil, VoteTypes
<1>2. /\ vs.height = height /\ vs.round = round /\ vs.type_ = type /\ vs.base = base
      /\ vs.votes = [d \in DataOrNil |-> {}] /\ vs.maj23 = Nil /\ vs.sum = 0
  BY DEF NewVoteSet
<1> HIDE DEF vs
<1>3. \A d \in DataOrNil : vs.votes[d] = {}
  BY <1>2
<1>4. ~(PowerOf[{}] >= Quorum(members))
  <2>1. Quorum(members) \in Nat /\ (0 >= Quorum(members) <=> 3 * 0 > 2 * PowerOf[members])
    BY QuorumIsExact
  <2> QED
    BY <2>1, NoPower, PowerNat
<1>5. SetOK(vs, height, round, type, base, members)
  BY <1>1, <1>2, <1>3, <1>4 DEF SetOK, DataOrNil
<1>6. TotalOK(vs)
  BY <1>2, <1>3, NoPower DEF TotalOK
<1> QED
  BY <1>3, <1>4, <1>5, <1>6 DEF vs

\* A value with a quorum makes HasTwoThirdsAny true.
LEMMA QuorumIsAny ==
  ASSUME NoOverflow, NEW members \in SUBSET Validators, NEW vs \in VoteSets,
         TotalOK(vs), NEW d \in DataOrNil, PowerOf[vs.votes[d]] >= Quorum(members)
  PROVE  HasTwoThirdsAny(vs, members)
<1>1. PowerOf[vs.votes[d]] \in Nat /\ vs.sum \in Int /\ Quorum(members) \in Nat
  BY PowerNat, QuorumIsExact DEF VoteSets
<1>2. Quorum(members) = TwoThirds(members) + 1 /\ TwoThirds(members) \in Int
  <2>1. PowerOf[members] \in Nat
    BY PowerNat
  <2> QED
    BY <2>1, PowerAssumption DEF Quorum, TwoThirds, TotalVotingPower, int64
<1> QED
  BY <1>1, <1>2 DEF HasTwoThirdsAny, TotalOK

-----------------------------------------------------------------------------
(***************************************************************************)
(* The votes of a height.  They are looked up with getVoteSet, to which an *)
(* untracked round is one without votes: tracking it makes no difference.  *)
(***************************************************************************)
VotesOK(hvs, members) ==
  /\ IsHeightVoteSet(hvs)
  /\ \A r \in DOMAIN hvs.roundVoteSets : \A t \in VoteTypes :
       SetOK(hvs.roundVoteSets[r][t], hvs.height, r, t, hvs.base, members)

TotalsOK(hvs) == \A r \in Nat : \A t \in VoteTypes : TotalOK(getVoteSet(hvs, r, t))

TotalsFit(hvs) == \A r \in Nat : \A t \in VoteTypes : TotalFits(getVoteSet(hvs, r, t))

\* The parts of a HeightVoteSet.
LEMMA HeightVoteSetType ==
  ASSUME NEW hvs, IsHeightVoteSet(hvs)
  PROVE  /\ hvs.height \in Nat /\ hvs.base \in DataOrNil /\ hvs.round \in Nat
         /\ DOMAIN hvs.roundVoteSets \subseteq Nat
         /\ hvs.roundVoteSets \in [DOMAIN hvs.roundVoteSets -> RoundVoteSets]
         /\ hvs \in [height : Nat, base : DataOrNil, round : Nat,
                     roundVoteSets : {hvs.roundVoteSets}]
BY DEF IsHeightVoteSet

\* A round nobody voted in is in order.
LEMMA NewRoundOK ==
  ASSUME NoOverflow, NEW members \in SUBSET Validators, NEW height \in Nat,
         NEW round \in Nat, NEW base \in DataOrNil
  PROVE  LET rvs == NewRoundVoteSet(height, round, base)
         IN  /\ rvs \in RoundVoteSets
             /\ \A t \in VoteTypes :
                  /\ rvs[t] = NewVoteSet(height, round, t, base)
                  /\ SetOK(rvs[t], height, round, t, base, members)
<1> DEFINE rvs == NewRoundVoteSet(height, round, base)
<1>1. \A t \in VoteTypes : rvs[t] = NewVoteSet(height, round, t, base)
  BY DEF NewRoundVoteSet, VoteTypes, PrevoteType, PrecommitType
<1>2. \A t \in VoteTypes :
        SetOK(NewVoteSet(height, round, t, base), height, round, t, base, members)
  <2>1. round \in Int
    OBVIOUS
  <2> QED
    BY <2>1, NewVoteSetOK
<1>3. \A t \in VoteTypes : NewVoteSet(height, round, t, base) \in VoteSets
  BY <1>2 DEF SetOK
<1>4. rvs \in RoundVoteSets
  BY <1>3 DEF NewRoundVoteSet, RoundVoteSets, VoteTypes
<1> QED
  BY <1>1, <1>2, <1>4

\* Looking up a round always gives a set in order.
LEMMA LookUp ==
  ASSUME NoOverflow, NEW members \in SUBSET Validators, NEW hvs,
         VotesOK(hvs, members), NEW r \in Nat, NEW t \in VoteTypes
  PROVE  SetOK(getVoteSet(hvs, r, t), hvs.height, r, t, hvs.base, members)
<1>1. hvs.height \in Nat /\ hvs.base \in DataOrNil /\ r \in Int
  BY HeightVoteSetType DEF VotesOK
<1>2. SetOK(NewVoteSet(hvs.height, r, t, hvs.base), hvs.height, r, t, hvs.base, members)
  BY <1>1, NewVoteSetOK
<1> QED
  BY <1>2 DEF VotesOK, getVoteSet

\* Tracking more rounds changes no answer.
LEMMA AddRoundsOK ==
  ASSUME NoOverflow, NEW members \in SUBSET Validators, NEW hvs,
         VotesOK(hvs, members), NEW rounds \in SUBSET Nat
  PROVE  LET new == addRounds(hvs, rounds)
         IN  /\ VotesOK(new, members)
             /\ new.height = hvs.height /\ new.base = hvs.base
             /\ new.round = hvs.round
             /\ \A r : r \in DOMAIN new.roundVoteSets
                        <=> r \in DOMAIN hvs.roundVoteSets \/ r \in rounds
             /\ \A r \in Nat : \A t \in VoteTypes :
                  getVoteSet(new, r, t) = getVoteSet(hvs, r, t)
<1> DEFINE dom == DOMAIN hvs.roundVoteSets
           map == [r \in dom \cup rounds |->
                     IF r \in dom THEN hvs.roundVoteSets[r]
                     ELSE NewRoundVoteSet(hvs.height, r, hvs.base)]
           new == addRounds(hvs, rounds)
<1>1. /\ hvs.height \in Nat /\ hvs.base \in DataOrNil /\ hvs.round \in Nat
      /\ dom \subseteq Nat /\ hvs.roundVoteSets \in [dom -> RoundVoteSets]
      /\ hvs \in [height : Nat, base : DataOrNil, round : Nat,
                  roundVoteSets : {hvs.roundVoteSets}]
  BY HeightVoteSetType DEF VotesOK
<1>2. \A r \in Nat :
        /\ NewRoundVoteSet(hvs.height, r, hvs.base) \in RoundVoteSets
        /\ \A t \in VoteTypes :
             /\ NewRoundVoteSet(hvs.height, r, hvs.base)[t]
                  = NewVoteSet(hvs.height, r, t, hvs.base)
             /\ SetOK(NewRoundVoteSet(hvs.height, r, hvs.base)[t],
                      hvs.height, r, t, hvs.base, members)
  BY <1>1, NewRoundOK
<1>3. /\ DOMAIN map = dom \cup rounds
      /\ \A r \in dom : map[r] = hvs.roundVoteSets[r]
      /\ \A r \in rounds \ dom : map[r] = NewRoundVoteSet(hvs.height, r, hvs.base)
  OBVIOUS
<1>4. map \in [dom \cup rounds -> RoundVoteSets]
  BY <1>1, <1>2
<1>5. new = [hvs EXCEPT !.roundVoteSets = map]
  BY DEF addRounds
<1> HIDE DEF map
<1>6. /\ new.height = hvs.height /\ new.base = hvs.base /\ new.round = hvs.round
      /\ new.roundVoteSets = map
      /\ new \in [height : Nat, base : DataOrNil, round : Nat, roundVoteSets : {map}]
  BY <1>1, <1>5
<1> HIDE DEF new
<1>7. IsHeightVoteSet(new)
  BY <1>1, <1>3, <1>4, <1>6 DEF IsHeightVoteSet
<1>8. ASSUME NEW r \in dom \cup rounds, NEW t \in VoteTypes
      PROVE  SetOK(map[r][t], hvs.height, r, t, hvs.base, members)
  BY <1>1, <1>2, <1>3 DEF VotesOK
<1>9. VotesOK(new, members)
  BY <1>3, <1>6, <1>7, <1>8 DEF VotesOK
<1>10. ASSUME NEW r \in Nat, NEW t \in VoteTypes
       PROVE  getVoteSet(new, r, t) = getVoteSet(hvs, r, t)
  BY <1>2, <1>3, <1>6 DEF getVoteSet
<1> QED
  BY <1>3, <1>6, <1>9, <1>10 DEF new

\* new tracks the rounds up to the given one too, and has the same votes.
RoundsAdded(hvs, new, round, members) ==
  /\ VotesOK(new, members)
  /\ new.height = hvs.height /\ new.base = hvs.base
  /\ new.round = round
  /\ \A r : r \in DOMAIN new.roundVoteSets <=>
             r \in DOMAIN hvs.roundVoteSets \/ r \in (hvs.round + 1)..round
  /\ \A r \in Nat : \A t \in VoteTypes :
       getVoteSet(new, r, t) = getVoteSet(hvs, r, t)

\* SetRound adds the rounds up to its argument, and changes no vote.
LEMMA SetRoundOK ==
  ASSUME NoOverflow, NEW members \in SUBSET Validators, NEW hvs,
         VotesOK(hvs, members), NEW round \in Nat
  PROVE  RoundsAdded(hvs, SetRound(hvs, round), round, members)
<1> DEFINE rounds == (hvs.round + 1)..round
           more   == addRounds(hvs, rounds)
           new    == SetRound(hvs, round)
<1>1. rounds \in SUBSET Nat
  BY HeightVoteSetType DEF VotesOK
<1> HIDE DEF rounds
<1>2. /\ VotesOK(more, members)
      /\ more.height = hvs.height /\ more.base = hvs.base
      /\ \A r : r \in DOMAIN more.roundVoteSets
                 <=> r \in DOMAIN hvs.roundVoteSets \/ r \in rounds
      /\ \A r \in Nat : \A t \in VoteTypes :
           getVoteSet(more, r, t) = getVoteSet(hvs, r, t)
  BY <1>1, AddRoundsOK
<1>3. new = [more EXCEPT !.round = round]
  BY DEF SetRound, rounds
<1> HIDE DEF more
<1>4. more \in [height : Nat, base : DataOrNil, round : Nat,
                roundVoteSets : {more.roundVoteSets}]
  BY <1>2, HeightVoteSetType DEF VotesOK
<1>5. /\ new.height = more.height /\ new.base = more.base /\ new.round = round
      /\ new.roundVoteSets = more.roundVoteSets
      /\ new \in [height : Nat, base : DataOrNil, round : Nat,
                  roundVoteSets : {more.roundVoteSets}]
  BY <1>3, <1>4
<1> HIDE DEF new
<1>6. VotesOK(new, members)
  BY <1>2, <1>5 DEF VotesOK, IsHeightVoteSet
<1>7. \A r \in Nat : \A t \in VoteTypes :
        getVoteSet(new, r, t) = getVoteSet(more, r, t)
  BY <1>5 DEF getVoteSet
<1> QED
  BY <1>2, <1>5, <1>6, <1>7 DEF RoundsAdded, new, rounds

\* What AddVote of a HeightVoteSet returns.
OneSetChanged(hvs, vote, members) ==
  LET res == HeightVoteSet_AddVote(hvs, vote, members)
      old == getVoteSet(hvs, vote.Round, vote.Type)
  IN  /\ VotesOK(res.hvs, members)
      /\ res.hvs.height = hvs.height /\ res.hvs.base = hvs.base
      /\ res.hvs.round = hvs.round
      /\ \A r : r \in DOMAIN res.hvs.roundVoteSets
                 <=> r \in DOMAIN hvs.roundVoteSets \/ r = vote.Round
      /\ res.added = VoteSet_AddVote(old, vote, members).added
      /\ getVoteSet(res.hvs, vote.Round, vote.Type)
           = VoteSet_AddVote(old, vote, members).vs
      /\ \A r \in Nat : \A t \in VoteTypes :
           r # vote.Round \/ t # vote.Type =>
             getVoteSet(res.hvs, r, t) = getVoteSet(hvs, r, t)

\* A vote for a round changes the set it belongs to and no other.
LEMMA HeightAddVoteOK ==
  ASSUME NoOverflow, NEW members \in SUBSET Validators, NEW hvs,
         VotesOK(hvs, members), NEW vote \in Vote,
         vote.Round \in Nat, vote.Type \in VoteTypes
  PROVE  OneSetChanged(hvs, vote, members)
<1> DEFINE k    == vote.Round
           ty   == vote.Type
           more == addRounds(hvs, {k})
           map  == more.roundVoteSets
           old  == map[k][ty]
           put  == VoteSet_AddVote(old, vote, members)
           res  == HeightVoteSet_AddVote(hvs, vote, members)
<1>1. {k} \in SUBSET Nat
  OBVIOUS
<1>2. /\ VotesOK(more, members)
      /\ more.height = hvs.height /\ more.base = hvs.base /\ more.round = hvs.round
      /\ \A r : r \in DOMAIN map <=> r \in DOMAIN hvs.roundVoteSets \/ r \in {k}
      /\ \A r \in Nat : \A t \in VoteTypes :
           getVoteSet(more, r, t) = getVoteSet(hvs, r, t)
  BY <1>1, AddRoundsOK
<1> DEFINE rvs == [map[k] EXCEPT ![ty] = put.vs]
           m2  == [map EXCEPT ![k] = rvs]
           new == [more EXCEPT !.roundVoteSets = m2]
<1>3. res = [hvs |-> new, added |-> put.added, err |-> put.err]
  BY DEF HeightVoteSet_AddVote
<1> HIDE DEF new
<1>21. res.hvs = new /\ res.added = put.added
  BY <1>3
<1> HIDE DEF more, put, res
<1>4. /\ more \in [height : Nat, base : DataOrNil, round : Nat, roundVoteSets : {map}]
      /\ DOMAIN map \subseteq Nat /\ map \in [DOMAIN map -> RoundVoteSets]
  BY <1>2, HeightVoteSetType DEF VotesOK
<1>5. k \in DOMAIN map
  BY <1>2
<1>6. old = getVoteSet(hvs, k, ty)
  BY <1>2, <1>5 DEF getVoteSet
<1>7. SetOK(old, hvs.height, k, ty, hvs.base, members)
  BY <1>2, <1>5 DEF VotesOK
<1>8. SetOK(put.vs, hvs.height, k, ty, hvs.base, members)
  BY <1>7, AddVoteOK DEF put
<1>9. put.vs \in VoteSets
  BY <1>8 DEF SetOK
<1>10. /\ rvs \in RoundVoteSets /\ rvs[ty] = put.vs
       /\ \A t \in VoteTypes : t # ty => rvs[t] = map[k][t]
  <2>1. map[k] \in [Prevote : VoteSets, Precommit : VoteSets]
    BY <1>4, <1>5 DEF RoundVoteSets
  <2> QED
    BY <2>1, <1>9 DEF RoundVoteSets, VoteTypes, PrevoteType, PrecommitType
<1> HIDE DEF rvs
<1>11. /\ m2 \in [DOMAIN map -> RoundVoteSets] /\ DOMAIN m2 = DOMAIN map
       /\ m2[k] = rvs /\ \A r \in DOMAIN map : r # k => m2[r] = map[r]
  BY <1>4, <1>5, <1>10
<1>12. res.hvs = [more EXCEPT !.roundVoteSets = m2]
  BY <1>21 DEF new
<1> HIDE DEF m2
<1>13. /\ res.hvs.height = hvs.height /\ res.hvs.base = hvs.base
       /\ res.hvs.round = hvs.round /\ res.hvs.roundVoteSets = m2
       /\ res.hvs \in [height : Nat, base : DataOrNil, round : Nat, roundVoteSets : {m2}]
  BY <1>2, <1>4, <1>12
<1>14. IsHeightVoteSet(res.hvs)
  BY <1>4, <1>11, <1>13 DEF IsHeightVoteSet
<1>15. ASSUME NEW r \in DOMAIN map, NEW t \in VoteTypes
       PROVE  SetOK(m2[r][t], hvs.height, r, t, hvs.base, members)
  <2>1. SetOK(map[r][t], hvs.height, r, t, hvs.base, members)
    BY <1>2 DEF VotesOK
  <2>2. CASE r = k /\ t = ty
    BY <2>2, <1>8, <1>10, <1>11
  <2>3. CASE r # k \/ t # ty
    BY <2>1, <2>3, <1>10, <1>11
  <2> QED
    BY <2>2, <2>3
<1>16. VotesOK(res.hvs, members)
  BY <1>11, <1>13, <1>14, <1>15 DEF VotesOK
<1>17. ASSUME NEW r \in Nat, NEW t \in VoteTypes, r # k \/ t # ty
       PROVE  getVoteSet(res.hvs, r, t) = getVoteSet(hvs, r, t)
  <2>1. getVoteSet(hvs, r, t) = getVoteSet(more, r, t)
    BY <1>2
  <2>2. CASE r \in DOMAIN map
    <3>1. m2[r][t] = map[r][t]
      BY <1>10, <1>11, <1>17, <2>2
    <3> QED
      BY <2>1, <2>2, <3>1, <1>11, <1>13 DEF getVoteSet
  <2>3. CASE r \notin DOMAIN map
    BY <2>1, <2>3, <1>2, <1>11, <1>13 DEF getVoteSet
  <2> QED
    BY <2>2, <2>3
<1>18. getVoteSet(res.hvs, k, ty) = put.vs
  BY <1>5, <1>10, <1>11, <1>13 DEF getVoteSet
<1>19. put = VoteSet_AddVote(getVoteSet(hvs, k, ty), vote, members)
  BY <1>6 DEF put
<1>20. \A r : r \in DOMAIN res.hvs.roundVoteSets
                <=> r \in DOMAIN hvs.roundVoteSets \/ r = k
  BY <1>2, <1>11, <1>13
<1> QED
  BY <1>21, <1>13, <1>16, <1>17, <1>18, <1>19, <1>20 DEF OneSetChanged, res

\* NewHeightVoteSet tracks round 0, with empty sets.
LEMMA NewHeightOK ==
  ASSUME NoOverflow, NEW members \in SUBSET Validators, NEW height \in Nat,
         NEW base \in DataOrNil
  PROVE  LET hvs == NewHeightVoteSet(height, base)
         IN  /\ VotesOK(hvs, members)
             /\ hvs.height = height /\ hvs.base = base /\ hvs.round = 0
             /\ DOMAIN hvs.roundVoteSets = {0}
             /\ \A r \in Nat : \A t \in VoteTypes :
                  getVoteSet(hvs, r, t) = NewVoteSet(height, r, t, base)
<1> DEFINE map == [r \in {0} |-> NewRoundVoteSet(height, r, base)]
           hvs == NewHeightVoteSet(height, base)
<1>1. \A r \in Nat :
        /\ NewRoundVoteSet(height, r, base) \in RoundVoteSets
        /\ \A t \in VoteTypes :
             /\ NewRoundVoteSet(height, r, base)[t] = NewVoteSet(height, r, t, base)
             /\ SetOK(NewRoundVoteSet(height, r, base)[t],
                      height, r, t, base, members)
  BY NewRoundOK
<1>2. /\ DOMAIN map = {0} /\ map[0] = NewRoundVoteSet(height, 0, base)
      /\ map \in [{0} -> RoundVoteSets]
  BY <1>1
<1>3. hvs = [height |-> height, base |-> base, round |-> 0, roundVoteSets |-> map]
  BY DEF NewHeightVoteSet
<1> HIDE DEF map
<1>4. /\ hvs.height = height /\ hvs.base = base /\ hvs.round = 0
      /\ hvs.roundVoteSets = map
      /\ hvs \in [height : Nat, base : DataOrNil, round : Nat, roundVoteSets : {map}]
  BY <1>3
<1> HIDE DEF hvs
<1>5. VotesOK(hvs, members)
  BY <1>1, <1>2, <1>4 DEF VotesOK, IsHeightVoteSet
<1>6. \A r \in Nat : \A t \in VoteTypes :
        getVoteSet(hvs, r, t) = NewVoteSet(height, r, t, base)
  BY <1>1, <1>2, <1>4 DEF getVoteSet
<1> QED
  BY <1>2, <1>4, <1>5, <1>6 DEF hvs

\* POLInfo answers the last round with a majority of prevotes.
LEMMA POLRoundIsLast ==
  ASSUME NEW hvs, NEW round \in Nat, hvs.round \in Nat, round <= hvs.round,
         HasTwoThirdsMajority(Prevotes(hvs, round)),
         \A r \in Nat : HasTwoThirdsMajority(Prevotes(hvs, r)) => r <= round
  PROVE  POLRound(hvs) = round
<1> DEFINE pols == {r \in 0..hvs.round : HasTwoThirdsMajority(Prevotes(hvs, r))}
<1>1. round \in pols /\ \A q \in pols : q \in Nat /\ q <= round
  OBVIOUS
<1>2. POLRound(hvs) = CHOOSE r \in pols : \A q \in pols : q <= r
  BY <1>1 DEF POLRound
<1> HIDE DEF pols
<1>3. \E r \in pols : \A q \in pols : q <= r
  BY <1>1
<1>4. \A r \in pols : (\A q \in pols : q <= r) => r = round
  BY <1>1
<1> QED
  BY <1>2, <1>3, <1>4

\* The list of a request has finitely many entries.
LEMMA FetchVotesReqType ==
  ASSUME NEW vs \in VoteSets
  PROVE  MakeFetchVotesReq(vs) \in [Type : VoteTypes, Height : Nat, Round : Int,
                                    Voters : SUBSET Validators, len : Nat]
<1> DEFINE S == {p \in DataOrNil \X Validators : p[2] \in vs.votes[p[1]]}
<1>1. IsFiniteSet(DataOrNil)
  BY ListAssumption, FS_AddElement DEF DataOrNil
<1>2. IsFiniteSet(DataOrNil \X Validators)
  BY <1>1, ListAssumption, FS_Product
<1>3. IsFiniteSet(S)
  <2>1. S \subseteq DataOrNil \X Validators
    OBVIOUS
  <2> QED
    BY <1>2, <2>1, FS_Subset
<1>4. Cardinality(S) \in Nat
  BY <1>3, FS_CardinalityType
<1>5. UNION {vs.votes[d] : d \in DataOrNil} \subseteq Validators
  BY DEF VoteSets
<1> DEFINE n == Cardinality(S)
           U == UNION {vs.votes[d] : d \in DataOrNil}
<1>6. MakeFetchVotesReq(vs) = [Type |-> vs.type_, Height |-> vs.height,
                               Round |-> vs.round, Voters |-> U, len |-> n]
  BY DEF MakeFetchVotesReq
<1>7. n \in Nat /\ U \in SUBSET Validators
  BY <1>4, <1>5
<1> HIDE DEF n, U
<1> QED
  BY <1>6, <1>7 DEF VoteSets, VoteTypes
=============================================================================
