--------------------------- MODULE CommitteeProofs ---------------------------
(***************************************************************************)
(* Facts about voting power, for every committee: power is a measure, the  *)
(* quorum of the code is exact, and majorities meet.                       *)
(***************************************************************************)
EXTENDS Committee, TLAPS

\* Twice the total power is an int64.
NoOverflow == 2 * PowerOf[Validators] <= MaxInt64

\* The voting power of a set of validators is a natural number.
LEMMA PowerNat == \A S \in SUBSET Validators : PowerOf[S] \in Nat
  BY PowerAssumption

\* Nobody has no power.
LEMMA NoPower == PowerOf[{}] = 0
<1>1. {} \in SUBSET Validators /\ {} \cap {} = {} /\ {} \cup {} = {}
  OBVIOUS
<1>2. PowerOf[{}] = PowerOf[{}] + PowerOf[{}] /\ PowerOf[{}] \in Nat
  BY <1>1, PowerAssumption
<1>3. \A n \in Nat : n = n + n => n = 0
  BY SMT
<1> QED
  BY <1>2, <1>3

\* More validators have at least as much power.
LEMMA PowerMonotone ==
  ASSUME NEW S \in SUBSET Validators, NEW T \in SUBSET Validators, S \subseteq T
  PROVE  PowerOf[S] <= PowerOf[T]
<1>1. T = S \cup (T \ S) /\ S \cap (T \ S) = {} /\ T \ S \in SUBSET Validators
  OBVIOUS
<1>2. PowerOf[T] = PowerOf[S] + PowerOf[T \ S]
  BY <1>1, PowerAssumption
<1> QED
  BY <1>1, <1>2, PowerNat

\* As long as twice the total power fits an int64, the threshold of
\* addVerifiedVote, integer division included, is met by exactly those who
\* have more than two thirds of the power.
LEMMA QuorumIsExact ==
  ASSUME NoOverflow, NEW members \in SUBSET Validators
  PROVE  /\ Quorum(members) \in Nat
         /\ \A n \in Nat : n >= Quorum(members) <=> 3 * n > 2 * PowerOf[members]
<1>1. PowerOf[members] \in Nat /\ PowerOf[Validators] \in Nat
  BY PowerNat
<1>2. PowerOf[members] <= PowerOf[Validators]
  BY PowerMonotone
<1>3. int64(TotalVotingPower(members) * 2) = 2 * PowerOf[members]
  BY <1>1, <1>2, PowerAssumption DEF int64, TotalVotingPower, NoOverflow
<1>4. Quorum(members) = (2 * PowerOf[members]) \div 3 + 1
  BY <1>1, <1>3 DEF Quorum, TwoThirds
<1> QED
  BY <1>1, <1>4

\* Two sets with more than two thirds of the power each share more than a third.
LEMMA MajoritiesMeet ==
  ASSUME NEW S \in SUBSET Validators, NEW T \in SUBSET Validators,
         3 * PowerOf[S] > 2 * PowerOf[Validators],
         3 * PowerOf[T] > 2 * PowerOf[Validators]
  PROVE  3 * PowerOf[S \cap T] > PowerOf[Validators]
<1>1. /\ S = (S \ T) \cup (S \cap T) /\ (S \ T) \cap (S \cap T) = {}
      /\ S \cup T = (S \ T) \cup T /\ (S \ T) \cap T = {}
      /\ S \ T \in SUBSET Validators /\ S \cap T \in SUBSET Validators
      /\ S \cup T \in SUBSET Validators
  OBVIOUS
<1>2. PowerOf[S] = PowerOf[S \ T] + PowerOf[S \cap T]
  BY <1>1, PowerAssumption
<1>3. PowerOf[S \cup T] = PowerOf[S \ T] + PowerOf[T]
  BY <1>1, PowerAssumption
<1>4. PowerOf[S \cup T] <= PowerOf[Validators]
  BY <1>1, PowerMonotone
<1>5. /\ PowerOf[S] \in Nat /\ PowerOf[T] \in Nat /\ PowerOf[S \ T] \in Nat
      /\ PowerOf[S \cap T] \in Nat /\ PowerOf[S \cup T] \in Nat
      /\ PowerOf[Validators] \in Nat
  BY <1>1, PowerNat
<1> QED
  BY <1>2, <1>3, <1>4, <1>5
=============================================================================
