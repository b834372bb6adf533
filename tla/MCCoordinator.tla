---------------------------- MODULE MCCoordinator ----------------------------
(***************************************************************************)
(* Small instances of Coordinator: the swarms, the inputs of the requests  *)
(* and the bounds that the .cfg files choose from.                         *)
(***************************************************************************)
EXTENDS Coordinator

CONSTANTS wa, wb, wc,             \* workers
          greedy, sampled, other  \* requests

\* A model of two layers: wa and wb make a chain together, wc is a whole one.
SplitStages ==
    [n \in Conn |->
        CASE n = wa -> [embed |-> TRUE, head |-> FALSE, decoders |-> {<<0, 1>>}]
          [] n = wb -> [embed |-> FALSE, head |-> TRUE, decoders |-> {<<1, 2>>}]
          [] n = wc -> [embed |-> TRUE, head |-> TRUE, decoders |-> {<<0, 1>>, <<1, 2>>}]]

\* A model of one layer that every worker holds.
WholeStages ==
    [n \in Conn |-> [embed |-> TRUE, head |-> TRUE, decoders |-> {<<0, 1>>}]]

\* max_new_tokens; 0 is a legal value.
OneNew == [r \in Request |-> 1]
ThreeNew == [r \in Request |-> 3]
MixedNew == [r \in Request |-> IF r = greedy THEN 2 ELSE IF r = sampled THEN 1 ELSE 0]

\* The reference output is longer than what is asked, or stops after two tokens.
NeverStop == [r \in Request |-> 9]
StopAfterTwo == [r \in Request |-> 2]

=============================================================================
