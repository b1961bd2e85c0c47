------------------------------- MODULE Queues -------------------------------
(***************************************************************************)
(* Operators on queues that several components share: what is left of a     *)
(* queue when some of its entries go, and the sum of its numbers.  They are *)
(* functions over the prefixes of a queue, about which one can prove.       *)
(***************************************************************************)
EXTENDS Naturals, Sequences

\* The entries of q at the positions in I, in their order.
Keeping(q, I) ==
  LET kept[n \in 0 .. Len(q)] ==
        IF n = 0 THEN << >>
        ELSE IF n \in I THEN Append(kept[n - 1], q[n]) ELSE kept[n - 1]
  IN kept[Len(q)]

\* The sum of the numbers in q.
SumOf(q) ==
  LET sum[n \in 0 .. Len(q)] == IF n = 0 THEN 0 ELSE sum[n - 1] + q[n]
  IN sum[Len(q)]

\* The sum of the sizes of the messages in q.
SumBytes(q) == SumOf([i \in DOMAIN q |-> q[i].size])

=============================================================================
