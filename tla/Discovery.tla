------------------------------ MODULE Discovery ------------------------------
(***************************************************************************)
(* Chain building of eujeno/net/discovery.py.  A swarm is a function from  *)
(* node ids to what each announces:                                        *)
(*   [embed: BOOLEAN, head: BOOLEAN, decoders: SUBSET (Nat \X Nat)]        *)
(* where <<lo, hi>> is the block of decoder layers lo .. hi-1.             *)
(*                                                                         *)
(* A chain is a function from stage positions to the node that serves the  *)
(* stage: position 0 is the embedding, 1 + lo the block that starts at     *)
(* layer lo, and numLayers + 1 the head.  Its domain is therefore the way  *)
(* the blocks tile the model.                                              *)
(***************************************************************************)
EXTENDS Naturals, FiniteSets

\* HoldersByStart is a slip of Holders that nothing uses: it shows that the
\* properties notice it.

EmbedAt == 0
BlockAt(lo) == lo + 1
HeadAt(numLayers) == numLayers + 1

Blocks(swarm) == UNION {swarm[u].decoders : u \in DOMAIN swarm}

-----------------------------------------------------------------------------
(* The greedy tiling *)

\* The ends of the blocks that start at the cursor.  In the sorted list of
\* ranges the first one that starts there and is not empty has the least end.
Ends(blocks, cursor) == {b[2] : b \in {x \in blocks : x[1] = cursor /\ x[2] > cursor}}

Step(blocks, cursor) ==
    IF Ends(blocks, cursor) = {} THEN cursor
    ELSE CHOOSE hi \in Ends(blocks, cursor) : \A e \in Ends(blocks, cursor) : hi <= e

\* The cursor after n ranges were accepted; it can move once per block.
Cursor(blocks) ==
    LET cur[n \in 0 .. Cardinality(blocks)] == IF n = 0 THEN 0 ELSE Step(blocks, cur[n - 1])
    IN  cur

Tiles(blocks, numLayers) == Cursor(blocks)[Cardinality(blocks)] = numLayers

\* The layers at which a block of the tiling starts: the first one, and those
\* the cursor stops at inside the model.
Starts(blocks, numLayers) ==
    {0} \cup {lo \in 1 .. (numLayers - 1) :
                \E n \in DOMAIN Cursor(blocks) : Cursor(blocks)[n] = lo}

-----------------------------------------------------------------------------
(* Who serves a stage *)

HoldersByStart(swarm, numLayers, at) ==
    {u \in DOMAIN swarm :
        IF at = EmbedAt THEN swarm[u].embed
        ELSE IF at = HeadAt(numLayers) THEN swarm[u].head
        ELSE \E b \in swarm[u].decoders : b[1] = at - 1}

\* The nodes that announce the stage at a position of the chain.
Holders(swarm, numLayers, at) ==
    {u \in DOMAIN swarm :
        IF at = EmbedAt THEN swarm[u].embed
        ELSE IF at = HeadAt(numLayers) THEN swarm[u].head
        ELSE <<at - 1, Step(Blocks(swarm), at - 1)>> \in swarm[u].decoders}

\* u ranks at least as well as v: reputation, then speed, then load decide.
Outranks(rank, u, v) ==
    LET a == rank[u]
        b == rank[v]
    IN  \/ a.reputation > b.reputation
        \/ a.reputation = b.reputation /\ a.speed > b.speed
        \/ a.reputation = b.reputation /\ a.speed = b.speed /\ a.load <= b.load

\* Ties are broken by the order of a dictionary, here in every way.
Least(candidates, rank) ==
    {u \in candidates : \A v \in candidates : Outranks(rank, u, v)}

Positions(swarm, numLayers) ==
    {EmbedAt, HeadAt(numLayers)} \cup {BlockAt(lo) : lo \in Starts(Blocks(swarm), numLayers)}

\* build_chain does not return None.
HasChain(swarm, numLayers) ==
    /\ Tiles(Blocks(swarm), numLayers)
    /\ Holders(swarm, numLayers, EmbedAt) # {}
    /\ Holders(swarm, numLayers, HeadAt(numLayers)) # {}

\* The chains build_chain may return; none when it returns None.
BuildChain(swarm, numLayers, rank) ==
    LET positions == Positions(swarm, numLayers)
        best == [at \in positions |-> Least(Holders(swarm, numLayers, at), rank)]
    IN  IF ~Tiles(Blocks(swarm), numLayers) THEN {}
        ELSE {chain \in [positions -> DOMAIN swarm] :
                \A at \in positions : chain[at] \in best[at]}

-----------------------------------------------------------------------------
(* What a chain is good for *)

\* A way through the whole model: the node at each position announces what the
\* chain uses it for, a decoder position the block up to the next position.
RunsWholeModel(swarm, numLayers, route) ==
    /\ {EmbedAt, BlockAt(0), HeadAt(numLayers)} \subseteq DOMAIN route
    /\ DOMAIN route \subseteq EmbedAt .. HeadAt(numLayers)
    /\ \A x \in DOMAIN route : route[x] \in DOMAIN swarm
    /\ swarm[route[EmbedAt]].embed
    /\ swarm[route[HeadAt(numLayers)]].head
    /\ \A x, y \in DOMAIN route :
          /\ x # EmbedAt /\ x < y /\ \A z \in DOMAIN route : ~(x < z /\ z < y)
          => <<x - 1, y - 1>> \in swarm[route[x]].decoders

=============================================================================
