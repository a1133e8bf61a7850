-------------------------------- MODULE Filters --------------------------------
(***************************************************************************)
(* The members of a sequence that are in a set, in their order: SelectSeq   *)
(* for a set, by a recursive function that proofs can unfold.               *)
(***************************************************************************)
EXTENDS Integers, Sequences

Selected(s, T) ==
  LET upTo[i \in 0..Len(s)] ==
        IF i = 0 THEN <<>>
        ELSE IF s[i] \in T THEN Append(upTo[i - 1], s[i]) ELSE upTo[i - 1]
  IN  upTo[Len(s)]
=============================================================================
