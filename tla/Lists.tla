------------------------------- MODULE Lists -------------------------------
(***************************************************************************)
(* The program's linked lists (list.c) as sequences.  A loop that removes  *)
(* elements from a list leaves the others in their order.  (As SelectSeq,  *)
(* but by the positions to keep, so that there are theorems about it.)     *)
(***************************************************************************)
EXTENDS Integers, Sequences

Select(s, K) ==
  LET upTo[n \in 0 .. Len(s)] ==
        IF n = 0 THEN <<>> ELSE IF n \in K THEN Append(upTo[n - 1], s[n]) ELSE upTo[n - 1]
  IN upTo[Len(s)]
=============================================================================
