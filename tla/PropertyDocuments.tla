-------------------------- MODULE PropertyDocuments --------------------------
(***************************************************************************)
(* The papers a property sale waits for: a property's documents, a buyer's *)
(* proof of funds, and the verdict whether the sale may go ahead.          *)
(*                                                                         *)
(* A paper is never changed.  A newer one is inserted, and then the one    *)
(* found current before is stamped superseded.  From the time a paper is   *)
(* dated its request waits for nothing, so no other comes between, but the *)
(* second statement may fail, or the process die before it.                *)
(*                                                                         *)
(* Storage of the content and hashes are left out; an attestation is its   *)
(* outcome.  One property and one buyer: others' rows are never touched.   *)
(***************************************************************************)
EXTENDS Integers, Sequences, SequencesExt

CONSTANTS
  DocTypes,         \* the required documents
  Freshness,        \* freshness window of each kind of paper
  Price,
  Balances,         \* what a buyer's wallet may hold
  MaxPapers,        \* bounds on the papers of each kind
  MaxDay            \* bound on the clock

Funds == "proof_of_funds"
Kinds == DocTypes \cup {Funds}

ASSUME DocumentConstants ==
  /\ Funds \notin DocTypes
  /\ Freshness \in [Kinds -> Nat \ {0}]
  /\ Price \in Nat /\ Balances \subseteq Nat
  /\ MaxPapers \in [Kinds -> Nat] /\ MaxDay \in Nat

VARIABLES
  today,            \* time.time()
  papers,           \* rows of each kind, in the order they were inserted
  stamping          \* the row a request in progress is to stamp, or NoRow

documentVars == <<today, papers, stamping>>

NoRow == [kind |-> "none"]
NoPaper == [good |-> FALSE, amount |-> 0, expires |-> 0, superseded |-> FALSE]

DocumentInit ==
  /\ today = 0
  /\ papers = [k \in Kinds |-> <<>>]
  /\ stamping = NoRow

CurrentRows(k) == {i \in DOMAIN papers[k] : ~papers[k][i].superseded}

FirstRow(S) == CHOOSE i \in S : \A j \in S : i <= j
LastRow(S) == CHOOSE i \in S : \A j \in S : j <= i

-----------------------------------------------------------------------------
(* upload_document and verify_buyer, by add_document and add_verification *)

\* A document is good if it was attested, a proof if the balance reached the
\* threshold its buyer chose.  The row to stamp is the first found current.
Insert(k, balance) ==
  LET current == CurrentRows(k) IN
  /\ stamping = NoRow
  /\ Len(papers[k]) < MaxPapers[k]
  /\ \E good \in BOOLEAN :
        papers' = [papers EXCEPT ![k] = Append(@,
          [good |-> good, amount |-> balance, expires |-> today + Freshness[k],
           superseded |-> FALSE])]
  /\ stamping' = IF current = {} THEN NoRow ELSE [kind |-> k, row |-> FirstRow(current)]
  /\ UNCHANGED today

Supersede ==
  /\ stamping # NoRow
  /\ papers' = [papers EXCEPT ![stamping.kind][stamping.row].superseded = TRUE]
  /\ stamping' = NoRow
  /\ UNCHANGED today

\* The second statement fails, or the process dies.
Interrupted ==
  /\ stamping # NoRow
  /\ stamping' = NoRow
  /\ UNCHANGED <<today, papers>>

NextDay ==
  /\ today < MaxDay
  /\ today' = today + 1
  /\ UNCHANGED <<papers, stamping>>

DocumentNext ==
  \/ \E k \in DocTypes : Insert(k, 0)
  \/ \E balance \in Balances : Insert(Funds, balance)
  \/ Supersede \/ Interrupted
  \/ NextDay

DocumentSpec == DocumentInit /\ [][DocumentNext]_documentVars
-----------------------------------------------------------------------------
(* get_readiness, which writes nothing *)

FirstCurrentDocument(k) ==  \* mutant: the first row of a type stays in the dict
  IF CurrentRows(k) = {} THEN NoPaper ELSE papers[k][FirstRow(CurrentRows(k))]

\* current_documents: of several current rows of a type the last stays in the
\* dict.  current_verification takes the first.
CurrentDocument(k) ==
  IF CurrentRows(k) = {} THEN NoPaper ELSE papers[k][LastRow(CurrentRows(k))]

CurrentVerification ==
  IF CurrentRows(Funds) = {} THEN NoPaper ELSE papers[Funds][FirstRow(CurrentRows(Funds))]

\* is_fresh: at its expiry a paper is stale.
Fresh(paper) == today < paper.expires

\* No _document_blocker.  A paper never filed has expired.
DocumentClear(paper) == Fresh(paper) /\ paper.good

\* No _buyer_blocker.
BuyerClear(proof) == Fresh(proof) /\ proof.good /\ proof.amount >= Price

\* evaluate_readiness
Ready ==
  /\ \A k \in DocTypes : DocumentClear(CurrentDocument(k))
  /\ BuyerClear(CurrentVerification)
-----------------------------------------------------------------------------
(* Properties *)

Paper == [good : BOOLEAN, amount : Nat, expires : Nat, superseded : BOOLEAN]

DocumentTypeOK ==
  /\ today \in Nat
  /\ papers \in [Kinds -> Seq(Paper)]
  /\ stamping \in [kind : Kinds, row : Nat] \cup {NoRow}

Newest(k) == IF papers[k] = <<>> THEN NoPaper ELSE Last(papers[k])

\* "A cached green is never trusted": a sale is cleared only if the newest
\* document of every required type was attested and is fresh, though uploads
\* that stopped half way have left several of a type current.
NewestDocumentsClear == Ready => \A k \in DocTypes : DocumentClear(Newest(k))
=============================================================================
