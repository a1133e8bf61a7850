----------------------------- MODULE MCContracts -----------------------------
(* Four contracts for TLC: the staking pool, the insurance pool and the DAO, *)
(* which hold many people's ETH in one balance, and the smart account.  They *)
(* share no state and call none of each other, so subject picks the one a    *)
(* behaviour is about.                                                       *)
EXTENDS MCMatrixStaking, MatrixInsurance, MatrixDAO, MatrixAccount

CONSTANT poolAddress

MCFeeRecipients == {neoSafe, poolAddress}

VARIABLE subject

contractVars == <<vars, insuranceVars, daoVars, accountVars, subject>>

\* Of a contract a behaviour is not about, one state will do.
MCInit ==
  /\ Init /\ InsuranceInit /\ DaoInit /\ AccountInit
  /\ subject \in {"staking", "insurance", "dao", "account"}
  /\ subject # "staking" => platformFeeRecipient = neoSafe
  /\ subject # "insurance" => feeRecipient = neoSafe /\ oracle = CHOOSE o \in Oracles : TRUE
  /\ subject # "account" => ownerKey = CHOOSE k \in Keys : TRUE

MCNext ==
  /\ UNCHANGED subject
  /\ \/ subject = "staking" /\ Next /\ UNCHANGED <<insuranceVars, daoVars, accountVars>>
     \/ subject = "insurance" /\ InsuranceNext /\ UNCHANGED <<vars, daoVars, accountVars>>
     \/ subject = "dao" /\ DaoNext /\ UNCHANGED <<vars, insuranceVars, accountVars>>
     \/ subject = "account" /\ AccountNext /\ UNCHANGED <<vars, insuranceVars, daoVars>>

MCSpec == MCInit /\ [][MCNext]_contractVars

ContractSymmetry == Symmetry \cup Permutations(Holders) \cup Permutations(Voters)

\* _sqrt is the integer square root.
ASSUME SquareRoot ==
  \A x \in 0 .. 200 : Sqrt(x) * Sqrt(x) <= x /\ x < (Sqrt(x) + 1) * (Sqrt(x) + 1)
=============================================================================
