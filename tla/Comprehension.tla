---------------------------- MODULE Comprehension ----------------------------
(***************************************************************************)
(* List comprehensions [c for c in calls if ...] of the Python code, and   *)
(* filter() of the agent's, and sorted(calls, key=enter.sequence), as      *)
(* recursive functions.                                                    *)
(***************************************************************************)
EXTENDS Integers, Sequences

(* The elements at the wanted positions, in order.                         *)
Picked(list, wanted) ==
  LET picked[n \in 0..Len(list)] ==
        CASE n = 0       -> <<>>
          [] n \in wanted -> Append(picked[n - 1], list[n])
          [] OTHER       -> picked[n - 1]
  IN  picked[Len(list)]

(* A call goes after those before it in the file whose number is not       *)
(* greater.  Threads number their own events.                              *)
Inserted(sorted, c) ==
  LET earlier == {m \in DOMAIN sorted : sorted[m].sequence <= c.sequence}
  IN  Append(Picked(sorted, earlier), c) \o Picked(sorted, DOMAIN sorted \ earlier)

BySequence(calls) ==
  LET sorted[n \in 0..Len(calls)] ==
        IF n = 0 THEN <<>> ELSE Inserted(sorted[n - 1], calls[n])
  IN  sorted[Len(calls)]
=============================================================================
