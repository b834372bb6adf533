-------------------------- MODULE MCAutoAllocation --------------------------
(***************************************************************************)
(* Small swarms for AutoAllocation: machines of every size.                *)
(***************************************************************************)
EXTENDS AutoAllocation

CONSTANTS ma, mb, mc, md

\* Two machines that hold the whole model, one that holds half, one a quarter.
MixedFits == [n \in Node |-> IF n \in {ma, mb} THEN 4 ELSE IF n = mc THEN 2 ELSE 1]

=============================================================================
