------------------------------ MODULE MCPlatform ------------------------------
(* The escrow, the exchange, the lending service, the platform's             *)
(* transactions, the event stream and the gate of tool calls for TLC.  They  *)
(* share no state, so subject picks the one a behaviour is about, and the    *)
(* escrow's fairness is asked where it is about the escrow.                  *)
(* Fairness and symmetry do not go together: no symmetry here.               *)
EXTENDS MCPropertyEscrow, MatrixDEX, MCLending, MCTransactionNonces,
        MCEventBroadcaster, MCToolGate

MCPairs == {<<"dai", "eth">>, <<"eth", "usdc">>}

VARIABLE subject

platformVars == <<escrowVars, exchangeVars, lendVars, nonceVars, streamVars, gateVars, subject>>

MCInit ==
  /\ EscrowInit /\ ExchangeInit /\ LendInit /\ NonceInit /\ StreamInit /\ GateInit
  /\ subject \in {"escrow", "exchange", "lending", "transactions", "stream", "gate"}

MCNext ==
  /\ UNCHANGED subject
  /\ \/ subject = "escrow" /\ EscrowNext
        /\ UNCHANGED <<exchangeVars, lendVars, nonceVars, streamVars, gateVars>>
     \/ subject = "exchange" /\ ExchangeNext
        /\ UNCHANGED <<escrowVars, lendVars, nonceVars, streamVars, gateVars>>
     \/ subject = "lending" /\ LendNext
        /\ UNCHANGED <<escrowVars, exchangeVars, nonceVars, streamVars, gateVars>>
     \/ subject = "transactions" /\ NonceNext
        /\ UNCHANGED <<escrowVars, exchangeVars, lendVars, streamVars, gateVars>>
     \/ subject = "stream" /\ StreamNext
        /\ UNCHANGED <<escrowVars, exchangeVars, lendVars, nonceVars, gateVars>>
     \/ subject = "gate" /\ GateNext
        /\ UNCHANGED <<escrowVars, exchangeVars, lendVars, nonceVars, streamVars>>

MCSpec == MCInit /\ [][MCNext]_platformVars /\ (subject = "escrow" => EscrowFairness)
=============================================================================
