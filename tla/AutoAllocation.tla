--------------------------- MODULE AutoAllocation ---------------------------
(***************************************************************************)
(* How a swarm assembles itself: every `serve --auto` reads a registry,    *)
(* claims a stage range from its coverage gaps (cli.py, capacity.py,       *)
(* allocator.py), loads the model, and only then announces the claim.      *)
(* Discovery!BuildChain says whether the swarm can serve.                  *)
(***************************************************************************)
EXTENDS Integers, FiniteSets, Discovery

CONSTANTS
    Node,       \* the machines on which `serve --auto` is run
    NumLayers,  \* decoder layers of the model
    Fits,       \* how many decoder layers the memory of each machine holds
    Target      \* --target, the replicas wanted per range

ASSUME NodeAssumption == IsFiniteSet(Node)

ASSUME SizeAssumption ==
    /\ NumLayers \in Nat \ {0}
    /\ Fits \in [Node -> Nat]
    /\ Target \in Nat \ {0}

\* Operators named as a slip of another one (CutAtCapacity for Cut, ...) are used
\* by no action: they show that the properties notice the slip.

VARIABLES
    phase,  \* out, loading the model, in the swarm, told NO_GAP
    claim,  \* the stages of each node, chosen when it read the registry
    orderly \* history: every claim was made knowing all claims before it

vars == <<phase, claim, orderly>>

NoClaim == [embed |-> FALSE, head |-> FALSE, decoders |-> {}]

Swarm == [n \in {m \in Node : phase[m] = "in"} |-> claim[n]]

-----------------------------------------------------------------------------
(* coverage_gaps *)

Replicas(swarm, layer) ==
    Cardinality({x \in (DOMAIN swarm) \X Blocks(swarm) :
                    x[2] \in swarm[x[1]].decoders /\ x[2][1] <= layer /\ layer < x[2][2]})

HasLess(swarm, layer) == Replicas(swarm, layer) < Target

\* The maximal ranges of layers with fewer replicas than wanted.
Gaps(swarm) ==
    {gap \in (0 .. NumLayers) \X (0 .. NumLayers) :
        /\ gap[1] < gap[2]
        /\ \A i \in gap[1] .. (gap[2] - 1) : HasLess(swarm, i)
        /\ gap[1] = 0 \/ ~HasLess(swarm, gap[1] - 1)
        /\ gap[2] = NumLayers \/ ~HasLess(swarm, gap[2])}

\* The replicas of a gap are those of its worst layer.
GapReplicas(swarm, gap) ==
    CHOOSE k \in {Replicas(swarm, i) : i \in gap[1] .. (gap[2] - 1)} :
        \A i \in gap[1] .. (gap[2] - 1) : k <= Replicas(swarm, i)

EmbedReplicas(swarm) == Cardinality({n \in DOMAIN swarm : swarm[n].embed})
HeadReplicas(swarm) == Cardinality({n \in DOMAIN swarm : swarm[n].head})

-----------------------------------------------------------------------------
(* choose_stages *)

\* The most urgent gap: fewest replicas, then the longest, then the first.
MoreUrgent(swarm, x, y) ==
    LET p == GapReplicas(swarm, x)
        q == GapReplicas(swarm, y)
    IN  \/ p < q
        \/ p = q /\ x[2] - x[1] > y[2] - y[1]
        \/ p = q /\ x[2] - x[1] = y[2] - y[1] /\ x[1] <= y[1]

UrgentGap(swarm) ==
    CHOOSE x \in Gaps(swarm) : \A y \in Gaps(swarm) : MoreUrgent(swarm, x, y)

\* The claim starts where the gap does and is cut at the node's capacity.
CutAtCapacity(gap, layers) == <<gap[1], gap[1] + layers>>
Cut(gap, layers) ==
    <<gap[1], IF gap[2] < gap[1] + layers THEN gap[2] ELSE gap[1] + layers>>

MaxDecoderLayers(n) == IF Fits[n] < NumLayers THEN Fits[n] ELSE NumLayers

\* Only a node that could hold every layer takes the embedding and the head.
TakesEnds(n) == MaxDecoderLayers(n) >= NumLayers

ChooseDecodersOnly(n, swarm) ==
    [embed    |-> FALSE,
     head     |-> FALSE,
     decoders |-> IF Gaps(swarm) # {} /\ MaxDecoderLayers(n) > 0
                  THEN {Cut(UrgentGap(swarm), MaxDecoderLayers(n))} ELSE {}]

ChooseStages(n, swarm) ==
    [embed    |-> TakesEnds(n) /\ EmbedReplicas(swarm) < Target,
     head     |-> TakesEnds(n) /\ HeadReplicas(swarm) < Target,
     decoders |-> IF Gaps(swarm) # {} /\ MaxDecoderLayers(n) > 0
                  THEN {Cut(UrgentGap(swarm), MaxDecoderLayers(n))} ELSE {}]

-----------------------------------------------------------------------------
(* Joining and leaving *)

Init ==
    /\ phase = [n \in Node |-> "out"]
    /\ claim = [n \in Node |-> NoClaim]
    /\ orderly = TRUE

\* plan_auto_stages on what the node learned of the swarm; an empty claim is NO_GAP.
Plan(n, learned) ==
    /\ phase[n] = "out"
    /\ claim' = [claim EXCEPT ![n] = ChooseStages(n, learned)]
    /\ phase' = [phase EXCEPT ![n] =
                    IF ChooseStages(n, learned) = NoClaim THEN "nogap" ELSE "loading"]

Read(n) ==
    /\ Plan(n, Swarm)
    /\ orderly' = (orderly /\ \A m \in Node : phase[m] # "loading")

\* Five reads of the (one) registry failed: "claiming from RAM only".
ReadFails(n) ==
    /\ Plan(n, [m \in {} |-> NoClaim])
    /\ orderly' = FALSE

\* The model is loaded and the node announces its claim.
Announce(n) ==
    /\ phase[n] = "loading"
    /\ phase' = [phase EXCEPT ![n] = "in"]
    /\ UNCHANGED <<claim, orderly>>

\* The process ends: a node leaves, fails to load, or exits after NO_GAP.
Leave(n) ==
    /\ phase[n] # "out"
    /\ phase' = [phase EXCEPT ![n] = "out"]
    /\ claim' = [claim EXCEPT ![n] = NoClaim]
    /\ UNCHANGED orderly

Next == \E n \in Node : Read(n) \/ ReadFails(n) \/ Announce(n) \/ Leave(n)

Spec == Init /\ [][Next]_vars

-----------------------------------------------------------------------------
(* Properties *)

\* However the joins went, no claim exceeds the memory of its node or the model.
ClaimsFit ==
    \A n \in Node : \A x \in claim[n].decoders :
        0 <= x[1] /\ x[1] < x[2] /\ x[2] <= NumLayers /\ x[2] - x[1] <= Fits[n]

TypeOK ==
    /\ phase \in [Node -> {"out", "loading", "in", "nogap"}]
    /\ claim \in [Node -> [embed : BOOLEAN, head : BOOLEAN,
                           decoders : SUBSET ((0 .. NumLayers) \X (0 .. NumLayers))]]
    /\ ClaimsFit
    /\ orderly \in BOOLEAN

Operational == HasChain(Swarm, NumLayers)

Covered ==
    /\ EmbedReplicas(Swarm) > 0
    /\ HeadReplicas(Swarm) > 0
    /\ \A i \in 0 .. (NumLayers - 1) : Replicas(Swarm, i) > 0

\* "operational <=> embed covered, decoder:0..N covered (contiguous, no gaps),
\* head covered" (docs/pages/concepts/architecture-overview.mdx:59-61).
OperationalIffCovered == Operational <=> Covered

\* Whoever joined with whatever overlapping claims: build_chain returns a chain
\* exactly when it may, and each chain runs every layer once, in order, on nodes
\* that announce the stage they are to run.
Unranked == [n \in Node |-> [reputation |-> 0, speed |-> 0, load |-> 0]]

ChainsRunWholeModel ==
    /\ Operational <=> BuildChain(Swarm, NumLayers, Unranked) # {}
    /\ \A route \in BuildChain(Swarm, NumLayers, Unranked) :
            RunsWholeModel(Swarm, NumLayers, route)

NothingClaimedTwice ==
    \A m, n \in Node : m # n =>
        \A x \in claim[m].decoders, y \in claim[n].decoders : x[2] <= y[1] \/ y[2] <= x[1]

\* After orderly joins for one replica, whoever left in between, the claims of
\* the nodes that joined or are joining share no layer, and the greedy tiling
\* of build_chain finds a chain whenever coverage_gaps sees none.  Without order
\* both fail, and for two replicas claims that cross block boundaries can
\* defeat the greedy tiling even then.
OrderlyJoinsServe ==
    orderly /\ Target = 1 => OperationalIffCovered /\ NothingClaimedTwice

\* After orderly joins a machine that could hold the whole model is turned away
\* with NO_GAP only by a swarm that serves without it.
TurnedAwayOnlyIfOperational ==
    [][\A n \in Node :
        orderly' /\ phase[n] = "out" /\ phase'[n] = "nogap" /\ TakesEnds(n)
            => Operational]_vars

=============================================================================
