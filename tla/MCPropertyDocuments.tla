------------------------- MODULE MCPropertyDocuments -------------------------
(* PropertyDocuments for TLC: a document that is fresh for a day, a proof of  *)
(* funds for two; three uploads of the one and two of the other, so that one  *)
(* follows another that was interrupted.                                      *)
EXTENDS PropertyDocuments, TLC

MCFreshness == [k \in Kinds |-> IF k = Funds THEN 2 ELSE 1]
MCMaxPapers == [k \in Kinds |-> IF k = Funds THEN 2 ELSE 3]
=============================================================================
