------------------------------- MODULE Iterators -------------------------------
(***************************************************************************)
(* What Rust's iterators make of a list: filter and sum.                   *)
(***************************************************************************)
EXTENDS Integers, Sequences

(* The elements among the first k of seq whose positions are in at, in     *)
(* their order.                                                            *)
PickedUpto(seq, at) ==
    LET upto[k \in 0..Len(seq)] ==
            IF k = 0 THEN <<>>
            ELSE IF k \in at THEN Append(upto[k-1], seq[k]) ELSE upto[k-1]
    IN  upto

Picked(seq, at) == PickedUpto(seq, at)[Len(seq)]

(* The sum of the first k numbers. *)
TotalUpto(numbers) ==
    LET upto[k \in 0..Len(numbers)] == IF k = 0 THEN 0 ELSE upto[k-1] + numbers[k]
    IN  upto

Total(numbers) == TotalUpto(numbers)[Len(numbers)]
=============================================================================
