------------------------ MODULE MCSponsorshipLedger ------------------------
(* Instances of SponsorshipLedger for TLC. *)
EXTENDS SponsorshipLedger, TLC

CONSTANTS checksummed, lowercase, blank

\* Two spellings of one address, and an identity that is blank.
MetersAs == [i \in Spellings |-> IF i = blank THEN NoSpender ELSE lowercase]

\* What an earlier build left in the ledger.
Committed == {[id |-> 0, identity |-> lowercase, usd |-> 2, state |-> "committed", at |-> 0]}
=============================================================================
