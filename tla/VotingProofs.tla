---------------------------- MODULE VotingProofs -----------------------------
(***************************************************************************)
(* Agreement, for every committee, every distribution of power, every set  *)
(* of data and any number of rounds, from the rules of Voting alone, as    *)
(* long as nobody shows votes in other rounds than they were cast in.      *)
(***************************************************************************)
EXTENDS Voting, CommitteeProofs

-----------------------------------------------------------------------------
(***************************************************************************)
(* Quorums meet in an honest validator.                                    *)
(***************************************************************************)

\* The quorum is more than two thirds of the total power.
LEMMA QuorumIsTwoThirds ==
  /\ Quorum(Validators) \in Nat
  /\ 3 * Quorum(Validators) > 2 * PowerOf[Validators]
<1>1. 2 * PowerOf[Validators] <= MaxInt64
  BY FaultAssumption DEF TotalVotingPower
<1> QED
  BY <1>1, QuorumIsExact DEF NoOverflow

\* Two quorums share an honest validator.
LEMMA QuorumsMeet ==
  ASSUME NEW S \in SUBSET Validators, NEW T \in SUBSET Validators,
         PowerOf[S] >= Quorum(Validators), PowerOf[T] >= Quorum(Validators)
  PROVE  \E v \in Honest : v \in S /\ v \in T
<1>1. /\ PowerOf[S] \in Nat /\ PowerOf[T] \in Nat /\ PowerOf[S \cap T] \in Nat
      /\ PowerOf[Faulty] \in Nat /\ PowerOf[Validators] \in Nat
  BY PowerNat, FaultAssumption
<1>2. 3 * PowerOf[S \cap T] > PowerOf[Validators]
  <2>1. /\ 3 * PowerOf[S] > 2 * PowerOf[Validators]
        /\ 3 * PowerOf[T] > 2 * PowerOf[Validators]
    BY <1>1, QuorumIsTwoThirds
  <2> QED
    BY <2>1, MajoritiesMeet
<1>3. ~(S \cap T \subseteq Faulty)
  <2>1. SUFFICES ASSUME S \cap T \subseteq Faulty PROVE FALSE
    OBVIOUS
  <2>2. PowerOf[S \cap T] <= PowerOf[Faulty]
    BY <2>1, PowerMonotone, FaultAssumption
  <2> QED
    BY <1>1, <1>2, <2>2, FaultAssumption DEF TotalVotingPower
<1> QED
  BY <1>3 DEF Honest

\* The three families of voters are sets of validators.
LEMMA VotersAreValidators ==
  \A r, d : /\ Prevoters(r, d) \in SUBSET Validators
            /\ Precommitters(r, d) \in SUBSET Validators
            /\ Potential(r, d) \in SUBSET Validators
  BY FaultAssumption DEF Prevoters, Precommitters, Potential, Honest

-----------------------------------------------------------------------------
(***************************************************************************)
(* What a step does: it types, it never changes a vote that was cast, and  *)
(* never takes a validator back.                                           *)
(***************************************************************************)

\* Every reachable state has the types of TypeOK.
LEMMA StepTypes ==
  ASSUME TypeOK, [Next]_vars
  PROVE  TypeOK'
<1>1. CASE UNCHANGED vars \/ Reround
  BY <1>1 DEF vars, Reround, TypeOK
<1>2. ASSUME NEW v \in Honest, NEW r \in Rounds, NEW next \in Rounds,
             NEW prevote \in Ballot, NEW precommit \in Ballot,
             Moves(v, r, next), Prevotes(v, r, prevote),
             Precommits(v, r, precommit), UNCHANGED rerounded
      PROVE  TypeOK'
  <2>1. round' \in [Honest -> Nat]
    BY <1>2, FaultAssumption DEF Moves, Prevotes, Precommits, TypeOK
  <2>2. ASSUME NEW votes \in [Honest -> [Rounds -> Ballot]], NEW b \in Ballot
        PROVE  Cast(votes, v, r, b) \in [Honest -> [Rounds -> Ballot]]
    BY DEF Cast
  <2>3. prevoted' \in [Honest -> [Rounds -> Ballot]]
    BY <1>2, <2>2 DEF Moves, Prevotes, Precommits, TypeOK
  <2>4. precommitted' \in [Honest -> [Rounds -> Ballot]]
    BY <1>2, <2>2 DEF Moves, Prevotes, Precommits, TypeOK
  <2> QED
    BY <1>2, <2>1, <2>3, <2>4 DEF TypeOK
<1> QED
  BY <1>1, <1>2 DEF Next, Step

\* A validator's round never decreases and a vote, once cast, never changes.
LEMMA VotesPersist ==
  ASSUME TypeOK, [Next]_vars
  PROVE  \A w \in Honest :
           /\ round[w] <= round'[w]
           /\ \A q \in Rounds :
                /\ prevoted[w][q] # None => prevoted'[w][q] = prevoted[w][q]
                /\ precommitted[w][q] # None
                     => precommitted'[w][q] = precommitted[w][q]
<1>1. CASE UNCHANGED vars \/ Reround
  BY <1>1 DEF vars, Reround, TypeOK
<1>2. ASSUME NEW v \in Honest, NEW r \in Rounds, NEW next \in Rounds,
             NEW prevote \in Ballot, NEW precommit \in Ballot,
             Moves(v, r, next), Prevotes(v, r, prevote),
             Precommits(v, r, precommit),
             NEW w \in Honest
      PROVE  /\ round[w] <= round'[w]
             /\ \A q \in Rounds :
                  /\ prevoted[w][q] # None => prevoted'[w][q] = prevoted[w][q]
                  /\ precommitted[w][q] # None
                       => precommitted'[w][q] = precommitted[w][q]
  <2>1. round[w] <= round'[w]
    BY <1>2, FaultAssumption DEF Moves, Prevotes, Precommits, TypeOK
  <2>2. ASSUME NEW q \in Rounds, prevoted[w][q] # None
        PROVE  prevoted'[w][q] = prevoted[w][q]
    BY <1>2, <2>2 DEF Moves, Prevotes, Precommits, TypeOK, Cast, MayPrevote
  <2>3. ASSUME NEW q \in Rounds, precommitted[w][q] # None
        PROVE  precommitted'[w][q] = precommitted[w][q]
    BY <1>2, <2>3 DEF Moves, Prevotes, Precommits, TypeOK, Cast, MayPrecommit
  <2> QED
    BY <2>1, <2>2, <2>3
<1> QED
  BY <1>1, <1>2 DEF Next, Step

\* A polka, once there, stays.
LEMMA PolkaPersists ==
  ASSUME TypeOK, [Next]_vars, NEW q \in Rounds, NEW e \in Data, Polka(q, e)
  PROVE  Polka(q, e)'
<1>1. e # None
  BY ValueAssumption DEF DataOrNil
<1>2. Prevoters(q, e) \subseteq Prevoters(q, e)'
  <2>1. Counted(q) \subseteq Counted(q)' /\ Counted(q) \subseteq Rounds
    BY DEF Next, Step, Reround, vars, Counted
  <2> QED
    BY <1>1, <2>1, VotesPersist DEF Prevoters
<1>3. Prevoters(q, e) \in SUBSET Validators /\ Prevoters(q, e)' \in SUBSET Validators
  BY FaultAssumption DEF Prevoters, Honest
<1>4. PowerOf[Prevoters(q, e)] <= PowerOf[Prevoters(q, e)']
  BY <1>2, <1>3, PowerMonotone
<1>5. /\ PowerOf[Prevoters(q, e)] \in Nat /\ PowerOf[Prevoters(q, e)'] \in Nat
      /\ Quorum(Validators) \in Nat
  BY <1>3, PowerNat, QuorumIsTwoThirds
<1> QED
  BY <1>4, <1>5 DEF Polka

\* Data that can be chosen after a step could be chosen before it.
LEMMA PotentialShrinks ==
  ASSUME TypeOK, [Next]_vars, NEW r \in Rounds, NEW d \in Data,
         PowerOf[Potential(r, d)'] >= Quorum(Validators)
  PROVE  PowerOf[Potential(r, d)] >= Quorum(Validators)
<1>1. ASSUME NEW w \in Honest, w \in Potential(r, d)'
      PROVE  w \in Potential(r, d)
  <2>1. d # None
    BY ValueAssumption DEF DataOrNil
  <2>2. CASE precommitted'[w][r] = None /\ round'[w] <= r
    <3>1. precommitted[w][r] = None
      BY <2>2, VotesPersist
    <3>2. round[w] \in Nat /\ round'[w] \in Nat /\ r \in Nat
      BY StepTypes, FaultAssumption DEF TypeOK
    <3>3. round[w] <= r
      BY <2>2, <3>2, VotesPersist
    <3> QED
      BY <3>1, <3>3 DEF Potential
  <2>3. CASE precommitted'[w][r] = d /\ precommitted[w][r] # None
    BY <2>3, VotesPersist DEF Potential
  <2>4. CASE precommitted'[w][r] = d /\ precommitted[w][r] = None
    <3>1. round[w] <= r
      <4>1. CASE UNCHANGED vars \/ Reround
        BY <4>1, <2>1, <2>4 DEF vars, Reround
      <4>2. ASSUME NEW v \in Honest, NEW q \in Rounds, NEW next \in Rounds,
                   NEW prevote \in Ballot, NEW precommit \in Ballot,
                   Moves(v, q, next), Prevotes(v, q, prevote),
                   Precommits(v, q, precommit)
            PROVE  round[w] <= r
        <5>1. v = w /\ q = r
          BY <4>2, <2>1, <2>4 DEF Moves, Prevotes, Precommits, Cast, TypeOK
        <5> QED
          BY <4>2, <5>1 DEF Moves, Prevotes, Precommits
      <4> QED
        BY <4>1, <4>2 DEF Next, Step
    <3> QED
      BY <2>4, <3>1 DEF Potential
  <2> QED
    BY <1>1, <2>2, <2>3, <2>4 DEF Potential, Honest
<1>2. Potential(r, d)' \subseteq Potential(r, d)
  BY <1>1 DEF Potential
<1>3. Potential(r, d) \in SUBSET Validators /\ Potential(r, d)' \in SUBSET Validators
  BY FaultAssumption DEF Potential, Honest
<1>4. PowerOf[Potential(r, d)'] <= PowerOf[Potential(r, d)]
  BY <1>2, <1>3, PowerMonotone
<1> QED
  BY <1>3, <1>4, PowerNat, QuorumIsTwoThirds

-----------------------------------------------------------------------------
(***************************************************************************)
(* Inv is inductive.                                                       *)
(***************************************************************************)

\* At the start nobody has voted, and the faulty alone make no polka.
LEMMA InitInv == Init => Inv
<1> SUFFICES ASSUME Init PROVE Inv
  OBVIOUS
<1>1. TypeOK
  BY DEF Init, TypeOK, Ballot
<1>2. VotesUpToRound
  BY DEF Init, VotesUpToRound
<1>3. None \notin DataOrNil
  BY ValueAssumption
<1>4. PrecommitAfterPolka /\ LocksHeld
  BY <1>3 DEF Init, PrecommitAfterPolka, LocksHeld, DataOrNil
<1>5. ASSUME NEW q \in Rounds, NEW e \in Data
      PROVE  ~Polka(q, e)
  <2>1. Prevoters(q, e) = Faulty
    BY <1>3 DEF Init, Prevoters, Counted, DataOrNil
  <2>2. PowerOf[Faulty] < Quorum(Validators)
    <3>1. PowerOf[Faulty] \in Nat /\ PowerOf[Validators] \in Nat
      BY PowerNat, FaultAssumption
    <3> QED
      BY <3>1, FaultAssumption, QuorumIsTwoThirds DEF TotalVotingPower
  <2> QED
    BY <2>1, <2>2, PowerNat, FaultAssumption, QuorumIsTwoThirds DEF Polka
<1> QED
  BY <1>1, <1>2, <1>4, <1>5 DEF Inv, ChoosableIsSafe

\* A step keeps votes within their validator's round.
LEMMA StepVotesUpToRound ==
  ASSUME TypeOK, VotesUpToRound, [Next]_vars
  PROVE  VotesUpToRound'
<1>1. CASE UNCHANGED vars \/ Reround
  BY <1>1 DEF vars, Reround, VotesUpToRound
<1>2. ASSUME NEW v \in Honest, NEW r \in Rounds, NEW next \in Rounds,
             NEW prevote \in Ballot, NEW precommit \in Ballot,
             Moves(v, r, next), Prevotes(v, r, prevote),
             Precommits(v, r, precommit),
             NEW w \in Honest, NEW q \in Rounds, q > round'[w]
      PROVE  prevoted'[w][q] = None /\ precommitted'[w][q] = None
  <2>1. q > round[w] /\ (v = w => q # r)
    <3>1. q \in Nat /\ r \in Nat /\ round[w] \in Nat /\ round'[w] \in Nat
      BY StepTypes, FaultAssumption DEF TypeOK
    <3>2. round[w] <= round'[w]
      BY VotesPersist
    <3>3. v = w => round'[w] = next /\ r <= next /\ next \in Nat
      BY <1>2, FaultAssumption DEF Moves, Prevotes, Precommits, TypeOK
    <3> QED
      BY <1>2, <3>1, <3>2, <3>3
  <2>2. prevoted[w][q] = None /\ precommitted[w][q] = None
    BY <2>1 DEF VotesUpToRound
  <2>3. prevoted'[w][q] = prevoted[w][q]
    BY <1>2, <2>1 DEF Moves, Prevotes, Precommits, Cast, TypeOK
  <2>4. precommitted'[w][q] = precommitted[w][q]
    BY <1>2, <2>1 DEF Moves, Prevotes, Precommits, Cast, TypeOK
  <2> QED
    BY <2>2, <2>3, <2>4
<1> QED
  BY <1>1, <1>2 DEF Next, Step, VotesUpToRound

\* A step precommits data only on a polka, and polkas persist.
LEMMA StepPrecommitAfterPolka ==
  ASSUME TypeOK, PrecommitAfterPolka, [Next]_vars
  PROVE  PrecommitAfterPolka'
<1> SUFFICES ASSUME NEW w \in Honest, NEW q \in Rounds, NEW e \in Data,
                    precommitted'[w][q] = e
             PROVE  Polka(q, e)'
  BY DEF PrecommitAfterPolka
<1>1. e # None /\ e # Nil
  BY ValueAssumption DEF DataOrNil
<1>2. Polka(q, e)
  <2>1. CASE precommitted[w][q] # None
    BY <2>1, VotesPersist DEF PrecommitAfterPolka
  <2>2. CASE precommitted[w][q] = None
    <3>1. CASE UNCHANGED vars \/ Reround
      BY <3>1, <2>2, <1>1 DEF vars, Reround
    <3>2. ASSUME NEW v \in Honest, NEW r \in Rounds, NEW next \in Rounds,
                 NEW prevote \in Ballot, NEW precommit \in Ballot,
                 Moves(v, r, next), Prevotes(v, r, prevote),
                 Precommits(v, r, precommit)
          PROVE  Polka(q, e)
      <4>1. v = w /\ r = q /\ precommit = e
        BY <3>2, <2>2, <1>1 DEF Moves, Prevotes, Precommits, Cast, TypeOK
      <4> QED
        BY <3>2, <4>1, <1>1 DEF Moves, Prevotes, Precommits, MayPrecommit
    <3> QED
      BY <3>1, <3>2 DEF Next, Step
  <2> QED
    BY <2>1, <2>2
<1> QED
  BY <1>2, PolkaPersists

\* A validator that after the step has precommitted data and prevoted other
\* data later had the polka that released it before the step.
LEMMA ReleasedBefore ==
  ASSUME TypeOK, VotesUpToRound, LocksHeld, [Next]_vars,
         NEW w \in Honest, NEW r \in Rounds, NEW q \in Rounds, r < q,
         precommitted'[w][r] \in Data,
         prevoted'[w][q] \in DataOrNil \ {precommitted'[w][r]}
  PROVE  \E q1 \in Rounds, d1 \in Data \ {precommitted'[w][r]} :
           r < q1 /\ q1 <= q /\ Polka(q1, d1)
<1> DEFINE d == precommitted'[w][r]
<1> DEFINE b == prevoted'[w][q]
<1>1. d # None /\ b # None
  BY ValueAssumption DEF DataOrNil
<1>2. CASE precommitted[w][r] # None /\ prevoted[w][q] # None
  <2>1. precommitted[w][r] = d /\ prevoted[w][q] = b
    BY <1>2, VotesPersist
  <2> QED
    BY <2>1 DEF LocksHeld
<1>3. CASE precommitted[w][r] = None \/ prevoted[w][q] = None
  <2>1. PICK v \in Honest, r1 \in Rounds, next \in Rounds,
               prevote \in Ballot, precommit \in Ballot :
          /\ Moves(v, r1, next)
          /\ Prevotes(v, r1, prevote)
          /\ Precommits(v, r1, precommit)
    BY <1>1, <1>3 DEF Next, Step, Reround, vars
  <2>2. v = w
    BY <2>1, <1>1, <1>3 DEF Moves, Prevotes, Precommits, Cast, TypeOK
  <2>3. precommitted[w][r] = None => r1 = r
    BY <2>1, <2>2, <1>1 DEF Moves, Prevotes, Precommits, Cast, TypeOK
  <2>4. prevoted[w][q] = None => r1 = q /\ prevote = b
    BY <2>1, <2>2, <1>1 DEF Moves, Prevotes, Precommits, Cast, TypeOK
  <2>5. r # q
    BY FaultAssumption
  <2>6. precommitted[w][r] # None
    <3>1. SUFFICES ASSUME precommitted[w][r] = None PROVE FALSE
      OBVIOUS
    <3>2. r1 = r /\ prevoted[w][q] # None
      BY <3>1, <2>3, <2>4, <2>5
    <3>3. round[w] <= r
      BY <2>1, <2>2, <3>2 DEF Moves, Prevotes, Precommits
    <3>4. q > round[w]
      <4>1. q \in Nat /\ r \in Nat /\ round[w] \in Nat
        BY FaultAssumption DEF TypeOK
      <4> QED
        BY <3>3, <4>1
    <3> QED
      BY <3>2, <3>4 DEF VotesUpToRound
  <2>7. precommitted[w][r] = d
    BY <2>6, VotesPersist
  <2>8. prevoted[w][q] = None
    BY <2>6, <1>3
  <2>9. MayPrevote(w, q, b)
    BY <2>1, <2>2, <2>4, <2>8, <1>1 DEF Moves, Prevotes, Precommits
  <2>10. precommitted[w][r] \in Data \ {b}
    BY <2>7
  <2> QED
    BY <2>7, <2>9, <2>10 DEF MayPrevote
<1> QED
  BY <1>2, <1>3

\* So a step keeps the lock rule.
LEMMA StepLocksHeld ==
  ASSUME TypeOK, VotesUpToRound, LocksHeld, [Next]_vars
  PROVE  LocksHeld'
<1> SUFFICES ASSUME NEW w \in Honest, NEW r \in Rounds, NEW q \in Rounds, r < q,
                    precommitted'[w][r] \in Data,
                    prevoted'[w][q] \in DataOrNil \ {precommitted'[w][r]}
             PROVE  \E q1 \in Rounds, d1 \in Data \ {precommitted'[w][r]} :
                      r < q1 /\ q1 <= q /\ Polka(q1, d1)'
  BY DEF LocksHeld
<1>1. PICK q1 \in Rounds, d1 \in Data \ {precommitted'[w][r]} :
        r < q1 /\ q1 <= q /\ Polka(q1, d1)
  BY ReleasedBefore
<1>2. Polka(q1, d1)'
  BY <1>1, PolkaPersists
<1> QED
  BY <1>1, <1>2

\* While d can be chosen in round r, a step makes no polka for other data in a
\* later round: the polka and those who can choose d share an honest validator,
\* which has precommitted d and prevoted the other data, so a polka for other
\* data was there before.
LEMMA StepChoosableIsSafe ==
  ASSUME TypeOK, VotesUpToRound, LocksHeld, ChoosableIsSafe, [Next]_vars
  PROVE  ChoosableIsSafe'
<1> SUFFICES ASSUME NEW r \in Rounds, NEW q \in Rounds,
                    NEW d \in Data, NEW e \in Data,
                    ~rerounded',
                    PowerOf[Potential(r, d)'] >= Quorum(Validators),
                    r < q,
                    Polka(q, e)',
                    d # e
             PROVE  FALSE
  BY DEF ChoosableIsSafe
<1>1. PowerOf[Potential(r, d)] >= Quorum(Validators)
  BY PotentialShrinks
<1>2. Potential(r, d)' \in SUBSET Validators /\ Prevoters(q, e)' \in SUBSET Validators
  BY FaultAssumption DEF Potential, Prevoters, Honest
<1>3. PICK w \in Honest : w \in Potential(r, d)' /\ w \in Prevoters(q, e)'
  BY <1>2, QuorumsMeet DEF Polka
<1>4. prevoted'[w][q] = e
  BY <1>3 DEF Prevoters, Counted, Honest
<1>5. ~(round'[w] < q)
  <2>1. e # None
    BY ValueAssumption DEF DataOrNil
  <2>2. round'[w] \in Nat /\ q \in Nat
    BY StepTypes, FaultAssumption DEF TypeOK
  <2>3. VotesUpToRound'
    BY StepVotesUpToRound
  <2> QED
    BY <1>4, <2>1, <2>2, <2>3 DEF VotesUpToRound
<1>6. precommitted'[w][r] = d
  <2>1. round'[w] \in Nat /\ q \in Nat /\ r \in Nat
    BY StepTypes, FaultAssumption DEF TypeOK
  <2>2. ~(round'[w] <= r)
    BY <1>5, <2>1
  <2> QED
    BY <1>3, <2>2 DEF Potential, Honest
<1>7. PICK q1 \in Rounds, d1 \in Data \ {d} : r < q1 /\ Polka(q1, d1)
  BY <1>4, <1>6, ReleasedBefore DEF DataOrNil
<1>8. ~rerounded
  BY DEF Next, Step, Reround, vars
<1> QED
  BY <1>1, <1>7, <1>8 DEF ChoosableIsSafe

\* Every reachable state satisfies the inductive invariant: types, votes up to
\* the round, precommits on polkas, the lock rule, and no polka against data
\* that can still be chosen, as far as votes are shown in their own rounds only.
THEOREM Invariance == Spec => []Inv
<1>1. Inv /\ [Next]_vars => Inv'
  BY StepTypes, StepVotesUpToRound, StepPrecommitAfterPolka, StepLocksHeld,
     StepChoosableIsSafe DEF Inv
<1> QED
  BY <1>1, InitInv, PTL DEF Spec

\* In a state of the invariant, two values chosen at a height are the same, as
\* long as nobody shows votes in other rounds.
LEMMA InvAgreement == Inv => Agreement
<1> SUFFICES ASSUME Inv, ~rerounded, NEW r \in Rounds, NEW q \in Rounds,
                    NEW d \in Data, NEW e \in Data,
                    Chosen(r, d), Chosen(q, e)
             PROVE  d = e
  BY DEF Agreement
<1>1. ASSUME NEW r1 \in Rounds, NEW d1 \in Data, Chosen(r1, d1)
      PROVE  Polka(r1, d1) /\ PowerOf[Potential(r1, d1)] >= Quorum(Validators)
  <2>1. PICK v \in Honest : v \in Precommitters(r1, d1)
    BY <1>1, QuorumsMeet, VotersAreValidators DEF Chosen
  <2>2. precommitted[v][r1] = d1
    BY <2>1 DEF Precommitters, Counted, Honest
  <2>3. Polka(r1, d1)
    BY <2>2 DEF Inv, PrecommitAfterPolka
  <2>4. Precommitters(r1, d1) \subseteq Potential(r1, d1)
    BY DEF Precommitters, Counted, Potential
  <2>5. PowerOf[Precommitters(r1, d1)] <= PowerOf[Potential(r1, d1)]
    BY <2>4, VotersAreValidators, PowerMonotone
  <2> QED
    BY <1>1, <2>3, <2>5, VotersAreValidators, PowerNat, QuorumIsTwoThirds DEF Chosen
<1>2. CASE r = q
  <2>1. PICK v \in Honest : v \in Precommitters(r, d) /\ v \in Precommitters(r, e)
    BY <1>2, QuorumsMeet, VotersAreValidators DEF Chosen
  <2> QED
    BY <2>1 DEF Precommitters, Counted, Honest
<1>3. CASE r < q
  BY <1>1, <1>3 DEF Inv, ChoosableIsSafe
<1>4. CASE q < r
  BY <1>1, <1>4 DEF Inv, ChoosableIsSafe
<1> QED
  BY <1>2, <1>3, <1>4, FaultAssumption

\* Agreement: no two +2/3 majorities of precommits at a height are for different
\* data, as long as the faulty have less than a third of the power and nobody
\* shows a vote in another round than it was cast in.
THEOREM AgreementHolds == Spec => []Agreement
  BY Invariance, InvAgreement, PTL

=============================================================================
