----------------------------- MODULE Subsequences -----------------------------
(***************************************************************************)
(* What a filter leaves of a list: its elements that belong to a set, in   *)
(* their order.  The filters of the source test one element at a time, so  *)
(* that a set says what they keep; and a recursive function over the list  *)
(* is one that a proof can unfold.                                         *)
(***************************************************************************)
EXTENDS Integers, Sequences

\* The elements of s that belong to S.
Kept(s, S) ==
  LET kept[n \in 0 .. Len(s)] ==
        IF n = 0 THEN <<>>
        ELSE IF s[n] \in S THEN Append(kept[n - 1], s[n]) ELSE kept[n - 1]
  IN  kept[Len(s)]
=============================================================================
