----------------------------- MODULE MatrixAccount -----------------------------
(***************************************************************************)
(* The smart account's guardians, who can replace a lost owner key: one of  *)
(* them proposes a key, others support the proposal that is there, and      *)
(* after a timelock anyone may carry it out.                               *)
(*                                                                         *)
(* A transaction is one step; one that reverts is none.  What the owner     *)
(* signed is a call of the account to itself, possible at any time, and     *)
(* after a recovery too when it was validated before.  Checking signatures  *)
(* and what the account pays and calls elsewhere are left out.              *)
(***************************************************************************)
EXTENDS Integers, FiniteSets

CONSTANTS
  Keys,              \* P-256 public keys that are not zero
  NoKey,
  Addresses,         \* of possible guardians
  RecoveryTimelock,
  MaxAccountTime     \* bound

ASSUME AccountConstants ==
  /\ NoKey \notin Keys
  /\ RecoveryTimelock \in Nat \ {0}

VARIABLES
  accountTime,
  ownerKey,          \* ownerX, ownerY
  guardians,
  recoveryThreshold,
  recovery,
  supportedCurrent,  \* addresses whose flag of support is set
  \* bookkeeping
  proposedAt,        \* when the recovery that is there was proposed
  backers            \* the guardians that proposed or supported it

accountVars == <<accountTime, ownerKey, guardians, recoveryThreshold, recovery,
                 supportedCurrent, proposedAt, backers>>

NoRecovery == [key |-> NoKey, executeAfter |-> 0, supportCount |-> 0]
Active == recovery.executeAfter # 0

\* Time is a Unix timestamp: never 0.
AccountInit ==
  /\ accountTime = 1
  /\ ownerKey \in Keys
  /\ guardians = {} /\ recoveryThreshold = 0
  /\ recovery = NoRecovery /\ supportedCurrent = {}
  /\ proposedAt = 0 /\ backers = {}

\* _clearSupport: of the guardians there are.
Cleared(flags, gs) == flags \ gs

\* _resetRecovery
Reset(gs) ==
  /\ recovery' = NoRecovery
  /\ supportedCurrent' = Cleared(supportedCurrent, gs)
  /\ backers' = {}

\* The list is replaced before the flags are cleared.
SetGuardians(gs, threshold) ==
  /\ threshold \in 1..Cardinality(gs)
  /\ guardians' = gs
  /\ recoveryThreshold' = threshold
  /\ Reset(gs)
  /\ UNCHANGED <<accountTime, ownerKey, proposedAt>>

CancelRecovery ==
  /\ Reset(guardians)
  /\ UNCHANGED <<accountTime, ownerKey, guardians, recoveryThreshold, proposedAt>>

\* mutant: the flags of the proposal it replaces stay
FlagsOnTop(g) == supportedCurrent \cup {g}

FlagsAnew(g) == Cleared(supportedCurrent, guardians) \cup {g}

\* Whatever was proposed before is dropped with its support.
InitiateRecovery(g, key) ==
  /\ g \in guardians /\ recoveryThreshold > 0
  /\ recovery' = [key |-> key, executeAfter |-> accountTime + RecoveryTimelock,
                  supportCount |-> 1]
  /\ supportedCurrent' = FlagsAnew(g)
  /\ proposedAt' = accountTime /\ backers' = {g}
  /\ UNCHANGED <<accountTime, ownerKey, guardians, recoveryThreshold>>

SupportRecovery(g) ==
  /\ g \in guardians /\ Active /\ g \notin supportedCurrent
  /\ supportedCurrent' = supportedCurrent \cup {g}
  /\ recovery' = [recovery EXCEPT !.supportCount = @ + 1]
  /\ backers' = backers \cup {g}
  /\ UNCHANGED <<accountTime, ownerKey, guardians, recoveryThreshold, proposedAt>>

ExecuteRecovery ==
  /\ Active
  /\ accountTime >= recovery.executeAfter
  /\ recovery.supportCount >= recoveryThreshold
  /\ ownerKey' = recovery.key
  /\ Reset(guardians)
  /\ UNCHANGED <<accountTime, guardians, recoveryThreshold, proposedAt>>

AccountTick ==
  /\ accountTime < MaxAccountTime
  /\ accountTime' = accountTime + 1
  /\ UNCHANGED <<ownerKey, guardians, recoveryThreshold, recovery, supportedCurrent,
                 proposedAt, backers>>

AccountNext ==
  \/ \E gs \in SUBSET Addresses : \E threshold \in 1..Cardinality(gs) : SetGuardians(gs, threshold)
  \/ CancelRecovery
  \/ \E g \in Addresses : SupportRecovery(g) \/ \E key \in Keys : InitiateRecovery(g, key)
  \/ ExecuteRecovery
  \/ AccountTick

AccountSpec == AccountInit /\ [][AccountNext]_accountVars
-----------------------------------------------------------------------------
(* Properties *)

AccountTypeOK ==
  /\ accountTime \in Nat \ {0}
  /\ ownerKey \in Keys
  /\ guardians \subseteq Addresses /\ supportedCurrent \subseteq Addresses
  /\ recoveryThreshold \in 0..Cardinality(guardians)
  /\ recovery \in [key : Keys \cup {NoKey}, executeAfter : Nat, supportCount : Nat]
  /\ proposedAt \in Nat /\ backers \subseteq Addresses

\* Over proposals that replace one another and guardians that go and come back,
\* the support counted is that of present guardians for the present proposal,
\* each of them once, and no guardian is kept from it by an older flag.
SupportIsCurrent ==
  Active => /\ backers \subseteq guardians
            /\ recovery.supportCount = Cardinality(backers)
            /\ supportedCurrent \cap guardians = backers

\* The owner is replaced by as many guardians as it takes, for the key they
\* support, and not before the owner had the timelock to cancel that proposal.
OwnerHadTime ==
  ownerKey' # ownerKey =>
     /\ ownerKey' = recovery.key
     /\ Cardinality(backers \cap guardians) >= recoveryThreshold
     /\ accountTime >= proposedAt + RecoveryTimelock

\* The guardians decide: every step leaves the support as it was given, and what
\* replaces the owner is a recovery they supported, in its time.
GuardiansDecide == [][SupportIsCurrent' /\ OwnerHadTime]_accountVars
=============================================================================
