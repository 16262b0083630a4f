----------------------------- MODULE TokenBucket ------------------------------
(***************************************************************************)
(* What a rate limiter promises: every client has a bucket that is full at *)
(* the start, refills with time up to its capacity and pays for each       *)
(* admitted request; a request is refused only from a bucket too empty.    *)
(* There are no records, no last-use times and no cleaning up.             *)
(***************************************************************************)
EXTENDS Integers

CONSTANTS
  Keys,      \* clients
  Burst,     \* a bucket's capacity
  Cost,      \* what a request takes from it
  Rate,      \* what a unit of time puts into it
  NoReply

VARIABLES
  level,     \* per client
  reply      \* the answer given since the clock last moved, if any

Least(a, b) == IF a < b THEN a ELSE b

Init ==
  /\ level = [k \in Keys |-> Burst]
  /\ reply = NoReply

Refill ==
  /\ level' = [k \in Keys |-> Least(Burst, level[k] + Rate)]
  /\ reply' = NoReply

Admit(k) ==
  /\ level[k] >= Cost
  /\ level' = [level EXCEPT ![k] = @ - Cost]
  /\ reply' = [key |-> k, ok |-> TRUE]

Refuse(k) ==
  /\ level[k] < Cost
  /\ reply' = [key |-> k, ok |-> FALSE]
  /\ UNCHANGED level

Next == Refill \/ \E k \in Keys : Admit(k) \/ Refuse(k)

Spec == Init /\ [][Next]_<<level, reply>>
=============================================================================
