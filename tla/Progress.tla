------------------------------ MODULE Progress ------------------------------
(***************************************************************************)
(* What is left to do, as four numbers of which the first that changes     *)
(* counts: a failover starts the count of the tokens again, but there is   *)
(* one failover less.                                                      *)
(***************************************************************************)
EXTENDS Naturals

\* a leaves less to do than b.
Less(a, b) == \E i \in 1 .. 4 : a[i] < b[i] /\ \A j \in 1 .. (i - 1) : a[j] = b[j]

=============================================================================
