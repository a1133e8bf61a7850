----------------------------- MODULE MCServices -----------------------------
(* Six services of the gateway for TLC.  They share no state and call none of *)
(* each other, so subject picks the one a behaviour is about.                *)
EXTENDS MCSponsorshipLedger, MCAccountSessions, MCEntitlements, MCPropertyDocuments,
        MCPropertySale, AttestationBatches

VARIABLE subject

servicesVars == <<vars, sessionStateVars, entVars, documentVars, saleVars, attVars, subject>>

Services == {"sponsorship", "sessions", "entitlements", "documents", "sale", "attestations"}

MCInit ==
  /\ Init /\ SessionInit /\ EntInit /\ DocumentInit /\ SaleInit /\ AttInit
  /\ subject \in Services

MCNext ==
  /\ UNCHANGED subject
  /\ \/ subject = "sponsorship" /\ Next
        /\ UNCHANGED <<sessionStateVars, entVars, documentVars, saleVars, attVars>>
     \/ subject = "sessions" /\ SessionNext
        /\ UNCHANGED <<vars, entVars, documentVars, saleVars, attVars>>
     \/ subject = "entitlements" /\ EntNext
        /\ UNCHANGED <<vars, sessionStateVars, documentVars, saleVars, attVars>>
     \/ subject = "documents" /\ DocumentNext
        /\ UNCHANGED <<vars, sessionStateVars, entVars, saleVars, attVars>>
     \/ subject = "sale" /\ SaleNext
        /\ UNCHANGED <<vars, sessionStateVars, entVars, documentVars, attVars>>
     \/ subject = "attestations" /\ AttNext
        /\ UNCHANGED <<vars, sessionStateVars, entVars, documentVars, saleVars>>

MCSpec == MCInit /\ [][MCNext]_servicesVars
=============================================================================
