------------------------------ MODULE Committee ------------------------------
(***************************************************************************)
(* The validator group as the consensus code sees it: Validators           *)
(* (validators.go) wraps the user's ICommittee (custom/Ivalidator.go) and  *)
(* answers who a validator is, how much voting power it has and whether a  *)
(* signature verifies.  The user's side of ICommittee is external: it is   *)
(* modelled by constants.  The members of the committee are a parameter of *)
(* every answer, since the user may change them from height to height.     *)
(***************************************************************************)
EXTENDS Integers

CONSTANTS
  Nodes,       \* everybody who runs a core; only some of them are validators
  Validators,  \* everybody who may be a member of the committee
  PowerOf,     \* the voting power of a set of validators
  Data,        \* the values that can be proposed (hashes of blocks)
  Nil,         \* message.NilData, the zero value: a vote for nothing
  None,        \* the nil pointer
  MaxInt64     \* the largest int64

DataOrNil == Data \cup {Nil}

\* TotalVotingPower() and GetVotingPower() are answered by user code.  The
\* quorum arithmetic relies on their agreeing: power is a measure on sets of
\* validators, and the total is the power of all members.
ASSUME PowerAssumption ==
  /\ PowerOf \in [SUBSET Validators -> Nat]
  /\ \A S, T \in SUBSET Validators :
       S \cap T = {} => PowerOf[S \cup T] = PowerOf[S] + PowerOf[T]
  /\ MaxInt64 \in Nat
  /\ PowerOf[Validators] <= MaxInt64

TotalVotingPower(members) == PowerOf[members]

\* Validators.GetVotingPower: nothing for an address outside the committee.
GetVotingPower(address, members) ==
  IF address \in members THEN PowerOf[{address}] ELSE 0

\* The sum or double of two int64 values wraps around.
int64(n) == IF n > MaxInt64 THEN n - 2 * (MaxInt64 + 1) ELSE n

\* TotalVotingPower * 2 / 3: the product may wrap, and the quotient is rounded
\* towards zero.
TwoThirds(members) ==
  LET twice == int64(TotalVotingPower(members) * 2)
  IN  IF twice >= 0 THEN twice \div 3 ELSE -((-twice) \div 3)

\* The power that makes a +2/3 majority.
Quorum(members) == TwoThirds(members) + 1

-----------------------------------------------------------------------------
(***************************************************************************)
(* Votes (message.Vote).  Timestamps and signature bytes are abstracted to *)
(* whether the signature is one the owner of Address made.                 *)
(***************************************************************************)
PrevoteType   == "Prevote"
PrecommitType == "Precommit"
ProposalType  == "Proposal"

Vote == [Type     : {PrevoteType, PrecommitType, ProposalType},
         Height   : Nat,
         Round    : Int,
         Proposed : DataOrNil,
         Prev     : DataOrNil,
         Address  : Nodes,
         sigOK    : BOOLEAN]

\* The nil pointer is no data and no vote.
ASSUME ValueAssumption ==
  /\ Validators \subseteq Nodes
  /\ Nil \notin Data
  /\ None \notin DataOrNil
  /\ None \notin Vote

\* Vote.Digest, which is what is signed.  binary.Write only writes values of a
\* fixed size: of Round (an int), Timestamp and Address it writes nothing.  So a
\* signature on a vote also verifies for the same vote in any other round.
Digest(vote) == [Type |-> vote.Type, Height |-> vote.Height,
                 Proposed |-> vote.Proposed, Prev |-> vote.Prev]

NewVote(type, height, round, proposed, prev, address) ==
  [Type |-> type, Height |-> height, Round |-> round, Proposed |-> proposed,
   Prev |-> prev, Address |-> address, sigOK |-> TRUE]

\* Validators.VerifySignature: unknown signers never verify.  sigOK says that the
\* signature is one that Address made for this Digest, in whatever round.
VerifySignature(vote, members) == vote.Address \in members /\ vote.sigOK
=============================================================================
