-------------------------- MODULE MCPeerInference --------------------------
(***************************************************************************)
(* Small instances of PeerInference: a model of one layer on two nodes.    *)
(***************************************************************************)
EXTENDS PeerInference

CONSTANTS na, nb,             \* nodes
          chat, first, second \* requests

\* na holds everything, nb the layer.
TwoHolders ==
    [n \in Node |-> [embed |-> n = na, head |-> n = na, decoders |-> {<<0, 1>>}]]

AtFirstNode == [c \in Entry |-> na]

\* A chat of one token, and clients that ask for two.
ChatShort == [c \in Client |-> IF c = chat THEN 1 ELSE 2]

\* A client's output stops after one of its tokens.
ClientStops == [c \in Client |-> IF c = chat THEN 9 ELSE 1]

=============================================================================
