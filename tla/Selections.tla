----------------------------- MODULE Selections -----------------------------
(***************************************************************************)
(* What a loop over a vector keeps: the elements of a sequence that are in *)
(* a set, in their order.  The loops of the library that skip or collect   *)
(* elements (null passes, blank lines, pragmas) are written with it.  It   *)
(* is a recursive function, so that the proofs can unfold it.              *)
(***************************************************************************)
EXTENDS Naturals, Sequences

(* For each n, the selection from the first n elements of s.               *)
Selection(s, K) ==
  LET kept[n \in 0 .. Len(s)] ==
        IF n = 0 THEN <<>>
        ELSE IF s[n] \in K THEN Append(kept[n - 1], s[n]) ELSE kept[n - 1]
  IN  kept

Select(s, K) == Selection(s, K)[Len(s)]
=============================================================================
