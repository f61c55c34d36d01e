------------------------------- MODULE Voting --------------------------------
(***************************************************************************)
(* What a height of the protocol promises, without messages and timers: an *)
(* abstract specification of the votes of all validators in all rounds of  *)
(* one height; Validators is the committee of that height.  An honest      *)
(* validator's step is what a handler of its core can do to its votes:     *)
(* move to a round, prevote there, precommit there, or both, under the     *)
(* rules of doPrevote and enterPrecommit.  The faulty validators show any  *)
(* vote to anyone at any time, so they count for every value in every      *)
(* round.  They can also show an honest vote as one of another round, since *)
(* the round is not signed (Digest); once they do, a validator counts in   *)
(* every round for everything it ever voted for.  Network, a system of     *)
(* whole cores, implements it.                                             *)
(***************************************************************************)
EXTENDS Committee

CONSTANTS
  Faulty,  \* the validators that do not follow the protocol
  Rounds   \* the rounds of the height

ASSUME FaultAssumption ==
  /\ Faulty \subseteq Validators
  /\ 3 * PowerOf[Faulty] < TotalVotingPower(Validators)
  /\ 2 * TotalVotingPower(Validators) <= MaxInt64
  /\ Rounds \subseteq Nat

Honest == Validators \ Faulty

Ballot == DataOrNil \cup {None}   \* None: no vote

VARIABLES
  round,       \* the round each honest validator's core is in
  prevoted,    \* the prevotes of the honest validators in each round
  precommitted, \* and their precommits
  rerounded    \* has anybody shown a vote in another round than its signer's?

vars == <<round, prevoted, precommitted, rerounded>>

\* VerifySignature over Digest: the rounds whose votes may be shown in round r.
Counted(r) == IF rerounded THEN Rounds ELSE {r}

Prevoters(r, d) ==
  Faulty \cup {v \in Honest : \E q \in Counted(r) : prevoted[v][q] = d}
Precommitters(r, d) ==
  Faulty \cup {v \in Honest : \E q \in Counted(r) : precommitted[v][q] = d}

\* +2/3 prevotes and +2/3 precommits for data in a round.
Polka(r, d)  == PowerOf[Prevoters(r, d)] >= Quorum(Validators)
Chosen(r, d) == PowerOf[Precommitters(r, d)] >= Quorum(Validators)

-----------------------------------------------------------------------------
\* Mutant: the lock does not bind.
MayPrevote_NoLock(v, r, d) == prevoted[v][r] = None

\* doPrevote: a lock on other data binds until a later polka releases it.
MayPrevote(v, r, d) ==
  /\ prevoted[v][r] = None
  /\ \A q \in Rounds :
       q < r /\ precommitted[v][q] \in Data \ {d}
         => \E q1 \in Rounds, d1 \in Data \ {precommitted[v][q]} :
              q < q1 /\ q1 <= r /\ Polka(q1, d1)

\* Mutant: no polka is needed.
MayPrecommit_NoPolka(v, r, d) == precommitted[v][r] = None

\* enterPrecommit: data needs a polka of the same round.
MayPrecommit(v, r, d) ==
  /\ precommitted[v][r] = None
  /\ d # Nil => Polka(r, d)

Cast(votes, v, r, b) ==
  IF b = None THEN votes ELSE [votes EXCEPT ![v][r] = b]

\* v's core is or gets into round r, and may go on to a later round (a core
\* that commits leaves all rounds behind).
Moves(v, r, next) ==
  /\ round[v] <= r /\ r <= next
  /\ round' = [round EXCEPT ![v] = next]

Prevotes(v, r, b) ==
  /\ b # None => MayPrevote(v, r, b)
  /\ prevoted' = Cast(prevoted, v, r, b)

Precommits(v, r, b) ==
  /\ b # None => MayPrecommit(v, r, b)
  /\ precommitted' = Cast(precommitted, v, r, b)

\* One step of v's core: it votes in round r, or does not.
Step(v, r) ==
  /\ \E next \in Rounds : Moves(v, r, next)
  /\ \E b \in Ballot : Prevotes(v, r, b)
  /\ \E b \in Ballot : Precommits(v, r, b)
  /\ UNCHANGED rerounded

\* Somebody starts to show votes in other rounds than they were cast in.
Reround ==
  /\ ~rerounded
  /\ rerounded' = TRUE
  /\ UNCHANGED <<round, prevoted, precommitted>>

Init ==
  /\ round = [v \in Honest |-> 0]
  /\ prevoted = [v \in Honest |-> [r \in Rounds |-> None]]
  /\ precommitted = [v \in Honest |-> [r \in Rounds |-> None]]
  /\ rerounded = FALSE

Next == \/ \E v \in Honest, r \in Rounds : Step(v, r)
        \/ Reround

Spec == Init /\ [][Next]_vars

-----------------------------------------------------------------------------
TypeOK ==
  /\ round \in [Honest -> Nat]
  /\ prevoted \in [Honest -> [Rounds -> Ballot]]
  /\ precommitted \in [Honest -> [Rounds -> Ballot]]
  /\ rerounded \in BOOLEAN

\* No two cores ever commit different data at a height, as long as nobody shows
\* a vote in another round than it was cast in, whatever else less than a third
\* of the power does: two +2/3 majorities of precommits, in one round or in
\* different ones, are for the same data.  The premise is needed: since
\* Vote.Digest leaves the round out, prevotes of an earlier round can be made a
\* polka of a later one, which releases the locks the first majority relies on.
Agreement ==
  ~rerounded =>
  \A r, q \in Rounds, d, e \in Data : Chosen(r, d) /\ Chosen(q, e) => d = e

\* A validator has no votes beyond its round.
VotesUpToRound ==
  \A v \in Honest, r \in Rounds :
    r > round[v] => prevoted[v][r] = None /\ precommitted[v][r] = None

\* Precommits for data follow a polka.
PrecommitAfterPolka ==
  \A v \in Honest, r \in Rounds :
    precommitted[v][r] \in Data => Polka(r, precommitted[v][r])

\* A validator that precommitted data and later prevoted other data had seen a
\* polka for other data in between.
LocksHeld ==
  \A v \in Honest, r, q \in Rounds :
    /\ r < q
    /\ precommitted[v][r] \in Data
    /\ prevoted[v][q] \in DataOrNil \ {precommitted[v][r]}
    => \E q1 \in Rounds, d1 \in Data \ {precommitted[v][r]} :
         r < q1 /\ q1 <= q /\ Polka(q1, d1)

\* Those whose precommits can still make d chosen in round r.
Potential(r, d) ==
  Faulty \cup {v \in Honest : \/ precommitted[v][r] = d
                              \/ precommitted[v][r] = None /\ round[v] <= r}

\* The heart of agreement: while data can still be chosen in a round, no later
\* round has a polka for other data, unless votes are shown in other rounds.
ChoosableIsSafe ==
  ~rerounded =>
  \A r, q \in Rounds, d, e \in Data :
    /\ PowerOf[Potential(r, d)] >= Quorum(Validators)
    /\ r < q
    /\ Polka(q, e)
    => d = e

Inv == /\ TypeOK
       /\ VotesUpToRound
       /\ PrecommitAfterPolka
       /\ LocksHeld
       /\ ChoosableIsSafe
=============================================================================
