-------------------------- MODULE AllocationProofs --------------------------
(***************************************************************************)
(* What every `serve --auto` claims fits its machine and the model;        *)
(* orderly joins claim no layer twice, and the greedy tiling of Discovery  *)
(* makes a chain of whatever they cover: for any number of machines of any *)
(* size and a model of any depth.                                          *)
(***************************************************************************)
EXTENDS AutoAllocation, DiscoveryProofs

Layers == 0 .. NumLayers

Claims == [embed : BOOLEAN, head : BOOLEAN, decoders : SUBSET (Layers \X Layers)]

\* What a node can learn of the swarm.
IsSwarm(swarm) == DOMAIN swarm \subseteq Node /\ swarm \in [DOMAIN swarm -> Claims]

-----------------------------------------------------------------------------
(* Replicas and gaps *)

LEMMA BlocksAreFinite ==
    ASSUME NEW swarm, IsSwarm(swarm)
    PROVE  /\ IsFiniteSet(DOMAIN swarm)
           /\ IsFiniteSet(Blocks(swarm)) /\ Blocks(swarm) \subseteq Layers \X Layers
<1>1. \A n \in DOMAIN swarm : swarm[n].decoders \subseteq Layers \X Layers
  BY DEF IsSwarm, Claims
<1>2. IsFiniteSet(Layers)
  BY FS_Interval, SizeAssumption DEF Layers
<1>3. IsFiniteSet(Layers \X Layers)
  BY <1>2, FS_Product
<1>4. Blocks(swarm) \subseteq Layers \X Layers /\ DOMAIN swarm \subseteq Node
  BY <1>1 DEF Blocks, IsSwarm
<1> QED
  BY <1>3, <1>4, NodeAssumption, FS_Subset

LEMMA PairsAreFinite ==
    ASSUME NEW swarm, IsSwarm(swarm)
    PROVE  IsFiniteSet((DOMAIN swarm) \X Blocks(swarm))
  BY BlocksAreFinite, FS_Product

LEMMA ReplicasCount ==
    ASSUME NEW swarm, IsSwarm(swarm), NEW layer
    PROVE  Replicas(swarm, layer) \in Nat
<1> DEFINE Pairs == (DOMAIN swarm) \X Blocks(swarm)
           S == {x \in Pairs : x[2] \in swarm[x[1]].decoders /\ x[2][1] <= layer /\ layer < x[2][2]}
<1>1. S \subseteq Pairs /\ IsFiniteSet(Pairs)
  BY PairsAreFinite
<1>2. Replicas(swarm, layer) = Cardinality(S)
  BY DEF Replicas
<1> HIDE DEF S, Pairs
<1>3. IsFiniteSet(S)
  BY <1>1, FS_Subset
<1> QED
  BY <1>2, <1>3, FS_CardinalityType

LEMMA GapsAreRanges ==
    ASSUME NEW swarm, NEW gap \in Gaps(swarm)
    PROVE  /\ gap = <<gap[1], gap[2]>> /\ gap[1] \in Layers /\ gap[2] \in Layers
           /\ gap[1] \in Nat /\ gap[2] \in Nat /\ gap[1] < gap[2]
           /\ \A i \in gap[1] .. (gap[2] - 1) : HasLess(swarm, i)
  BY SizeAssumption DEF Gaps, Layers

LEMMA GapReplicasCount ==
    ASSUME NEW swarm, IsSwarm(swarm), NEW gap \in Gaps(swarm)
    PROVE  GapReplicas(swarm, gap) \in Nat
<1> DEFINE counts == {Replicas(swarm, i) : i \in gap[1] .. (gap[2] - 1)}
<1>1. counts \in SUBSET Nat
  BY ReplicasCount
<1>2. counts # {}
  <2>1. gap[1] \in gap[1] .. (gap[2] - 1)
    BY GapsAreRanges
  <2> QED
    BY <2>1
<1>3. GapReplicas(swarm, gap) = CHOOSE k \in counts : \A i \in gap[1] .. (gap[2] - 1) : k <= Replicas(swarm, i)
  BY DEF GapReplicas
<1>4. \A i \in gap[1] .. (gap[2] - 1) : Replicas(swarm, i) \in counts
  OBVIOUS
<1> HIDE DEF counts
<1>5. PICK m \in counts : \A k \in counts : m <= k
  BY <1>1, <1>2, LeastExists
<1>6. \A i \in gap[1] .. (gap[2] - 1) : m <= Replicas(swarm, i)
  BY <1>4, <1>5
<1> QED
  BY <1>1, <1>3, <1>5, <1>6

\* The urgency of gaps is a total order, so the most urgent one exists.
LEMMA UrgentGapIsGap ==
    ASSUME NEW swarm, IsSwarm(swarm), Gaps(swarm) # {}
    PROVE  UrgentGap(swarm) \in Gaps(swarm)
<1> DEFINE Few == {GapReplicas(swarm, x) : x \in Gaps(swarm)}
<1>1. \A x \in Gaps(swarm) : GapReplicas(swarm, x) \in Nat
  BY GapReplicasCount
<1>2. Few \in SUBSET Nat /\ Few # {}
  BY <1>1
<1>3. PICK p \in Few : \A q \in Few : p <= q
  <2> HIDE DEF Few
  <2> QED
    BY <1>2, LeastExists
<1> DEFINE Rarest == {x \in Gaps(swarm) : GapReplicas(swarm, x) = p}
           Short == {NumLayers - (x[2] - x[1]) : x \in Rarest}
<1>4. Rarest # {} /\ Rarest \subseteq Gaps(swarm)
  BY <1>3
<1>5. \A x \in Gaps(swarm) : NumLayers - (x[2] - x[1]) \in Nat
  BY GapsAreRanges, SizeAssumption DEF Layers
<1>6. Short \in SUBSET Nat /\ Short # {}
  BY <1>4, <1>5
<1>7. PICK s \in Short : \A t \in Short : s <= t
  <2> HIDE DEF Short
  <2> QED
    BY <1>6, LeastExists
<1> DEFINE Longest == {x \in Rarest : NumLayers - (x[2] - x[1]) = s}
           Firsts == {x[1] : x \in Longest}
<1>8. Longest # {} /\ Longest \subseteq Gaps(swarm)
  BY <1>7
<1>9. Firsts \in SUBSET Nat /\ Firsts # {}
  BY <1>8, GapsAreRanges
<1>10. PICK f \in Firsts : \A g \in Firsts : f <= g
  <2> HIDE DEF Firsts
  <2> QED
    BY <1>9, LeastExists
<1>11. PICK best \in Longest : best[1] = f
  BY <1>10
<1>12. ASSUME NEW y \in Gaps(swarm) PROVE MoreUrgent(swarm, best, y)
  <2>1. /\ best \in Gaps(swarm) /\ GapReplicas(swarm, best) = p
        /\ NumLayers - (best[2] - best[1]) = s /\ best[1] = f
    BY <1>11
  <2>2. /\ p \in Nat /\ s \in Nat /\ f \in Nat
        /\ GapReplicas(swarm, y) \in Nat /\ p <= GapReplicas(swarm, y)
    BY <1>1, <1>3, <1>6, <1>9
  <2>3. /\ best[1] \in Nat /\ best[2] \in Nat /\ y[1] \in Nat /\ y[2] \in Nat /\ NumLayers \in Nat
    BY <2>1, GapsAreRanges, SizeAssumption
  <2>4. GapReplicas(swarm, y) = p => y \in Rarest /\ s <= NumLayers - (y[2] - y[1])
    BY <1>7
  <2>5. GapReplicas(swarm, y) = p /\ NumLayers - (y[2] - y[1]) = s => f <= y[1]
    BY <1>10, <2>4
  <2> HIDE DEF Few, Rarest, Short, Longest, Firsts
  <2>6. CASE p < GapReplicas(swarm, y)
    BY <2>1, <2>6 DEF MoreUrgent
  <2>7. CASE p = GapReplicas(swarm, y) /\ s < NumLayers - (y[2] - y[1])
    <3>1. best[2] - best[1] > y[2] - y[1]
      BY <2>1, <2>2, <2>3, <2>7
    <3> QED
      BY <2>1, <2>7, <3>1 DEF MoreUrgent
  <2>8. CASE p = GapReplicas(swarm, y) /\ s = NumLayers - (y[2] - y[1])
    <3>1. best[2] - best[1] = y[2] - y[1] /\ best[1] <= y[1]
      BY <2>1, <2>2, <2>3, <2>5, <2>8
    <3> QED
      BY <2>1, <2>8, <3>1 DEF MoreUrgent
  <2> QED
    BY <2>2, <2>3, <2>4, <2>6, <2>7, <2>8
<1>13. best \in Gaps(swarm)
  BY <1>8, <1>11
<1> HIDE DEF Few, Rarest, Short, Longest, Firsts
<1> QED
  BY <1>12, <1>13 DEF UrgentGap

-----------------------------------------------------------------------------
(* What a node claims *)

LEMMA ClaimIsCut ==
    ASSUME NEW swarm, IsSwarm(swarm), NEW n \in Node, NEW x \in ChooseStages(n, swarm).decoders
    PROVE  \E gap \in Gaps(swarm) :
              /\ x = <<gap[1], x[2]>> /\ x[2] \in Layers
              /\ gap[1] < x[2] /\ x[2] <= gap[2] /\ x[2] - gap[1] <= Fits[n]
<1> DEFINE gap == UrgentGap(swarm)
           most == MaxDecoderLayers(n)
<1>1. Gaps(swarm) # {} /\ most > 0 /\ x = Cut(gap, most)
  BY DEF ChooseStages
<1>2. gap \in Gaps(swarm)
  BY <1>1, UrgentGapIsGap
<1>3. most \in Nat /\ most <= Fits[n] /\ Fits[n] \in Nat /\ NumLayers \in Nat
  BY SizeAssumption DEF MaxDecoderLayers
<1> HIDE DEF gap, most
<1>4. /\ gap[1] \in Layers /\ gap[2] \in Layers
      /\ gap[1] \in Nat /\ gap[2] \in Nat /\ gap[1] < gap[2]
  BY <1>2, GapsAreRanges
<1>5. x = <<gap[1], x[2]>> /\ x[2] = (IF gap[2] < gap[1] + most THEN gap[2] ELSE gap[1] + most)
  BY <1>1 DEF Cut
<1>6. x[2] \in Nat /\ gap[1] < x[2] /\ x[2] <= gap[2] /\ x[2] - gap[1] <= Fits[n]
  BY <1>1, <1>3, <1>4, <1>5
<1>7. x[2] \in Layers
  BY <1>3, <1>4, <1>6 DEF Layers
<1> QED
  BY <1>2, <1>5, <1>6, <1>7

LEMMA ClaimTyped ==
    ASSUME NEW swarm, IsSwarm(swarm), NEW n \in Node
    PROVE  /\ ChooseStages(n, swarm) \in Claims
           /\ \A x \in ChooseStages(n, swarm).decoders :
                0 <= x[1] /\ x[1] < x[2] /\ x[2] <= NumLayers /\ x[2] - x[1] <= Fits[n]
<1>1. ASSUME NEW x \in ChooseStages(n, swarm).decoders
      PROVE  /\ x \in Layers \X Layers
             /\ 0 <= x[1] /\ x[1] < x[2] /\ x[2] <= NumLayers /\ x[2] - x[1] <= Fits[n]
  <2>1. PICK gap \in Gaps(swarm) :
              /\ x = <<gap[1], x[2]>> /\ x[2] \in Layers
              /\ gap[1] < x[2] /\ x[2] <= gap[2] /\ x[2] - gap[1] <= Fits[n]
    BY ClaimIsCut
  <2>2. gap[1] \in Layers
    BY GapsAreRanges
  <2>3. x \in Layers \X Layers /\ x[1] = gap[1]
    BY <2>1, <2>2
  <2> QED
    BY <2>1, <2>2, <2>3, SizeAssumption DEF Layers
<1>2. ChooseStages(n, swarm).decoders \in SUBSET (Layers \X Layers)
  BY <1>1
<1>3. /\ ChooseStages(n, swarm) = [embed |-> ChooseStages(n, swarm).embed, head |-> ChooseStages(n, swarm).head,
                                   decoders |-> ChooseStages(n, swarm).decoders]
      /\ ChooseStages(n, swarm).embed \in BOOLEAN /\ ChooseStages(n, swarm).head \in BOOLEAN
  BY DEF ChooseStages
<1>4. ChooseStages(n, swarm) \in Claims
  BY <1>2, <1>3 DEF Claims
<1> QED
  BY <1>1, <1>4

LEMMA SwarmIsSwarm ==
    ASSUME TypeOK PROVE IsSwarm(Swarm) /\ IsSwarm([m \in {} |-> NoClaim])
<1>1. claim \in [Node -> Claims]
  BY DEF TypeOK, Claims, Layers
<1> QED
  BY <1>1 DEF IsSwarm, Swarm

LEMMA NoClaimTyped == NoClaim \in Claims /\ NoClaim.decoders = {}
  BY DEF NoClaim, Claims

-----------------------------------------------------------------------------
(* Types *)

LEMMA PlanTyped ==
    ASSUME TypeOK, NEW n \in Node, NEW learned, IsSwarm(learned), Plan(n, learned), orderly' \in BOOLEAN
    PROVE  TypeOK'
<1> DEFINE stages == ChooseStages(n, learned)
<1>1. /\ claim' = [claim EXCEPT ![n] = stages]
      /\ phase' = [phase EXCEPT ![n] = IF stages = NoClaim THEN "nogap" ELSE "loading"]
  BY DEF Plan
<1>2. stages \in Claims /\ \A x \in stages.decoders :
         0 <= x[1] /\ x[1] < x[2] /\ x[2] <= NumLayers /\ x[2] - x[1] <= Fits[n]
  BY ClaimTyped
<1> HIDE DEF stages
<1>3. claim \in [Node -> Claims] /\ phase \in [Node -> {"out", "loading", "in", "nogap"}]
  BY DEF TypeOK, Claims, Layers
<1>4. claim' \in [Node -> Claims] /\ phase' \in [Node -> {"out", "loading", "in", "nogap"}]
  BY <1>1, <1>2, <1>3
<1>5. ClaimsFit'
  BY <1>1, <1>2, <1>3 DEF TypeOK, ClaimsFit
<1> QED
  BY <1>4, <1>5 DEF TypeOK, Claims, Layers

LEMMA TypeOKNext == TypeOK /\ [Next]_vars => TypeOK'
<1> SUFFICES ASSUME TypeOK, [Next]_vars PROVE TypeOK'
  OBVIOUS
<1>0. claim \in [Node -> Claims] /\ IsSwarm(Swarm) /\ IsSwarm([m \in {} |-> NoClaim])
  BY SwarmIsSwarm DEF TypeOK, Claims, Layers
<1>1. ASSUME NEW n \in Node, Read(n) PROVE TypeOK'
  <2>1. Plan(n, Swarm) /\ orderly' \in BOOLEAN
    BY <1>1 DEF Read, TypeOK
  <2> QED
    BY <1>0, <2>1, PlanTyped
<1>2. ASSUME NEW n \in Node, ReadFails(n) PROVE TypeOK'
  <2>1. Plan(n, [m \in {} |-> NoClaim]) /\ orderly' \in BOOLEAN
    BY <1>2 DEF ReadFails
  <2> QED
    BY <1>0, <2>1, PlanTyped
<1>3. ASSUME NEW n \in Node, Announce(n) PROVE TypeOK'
  BY <1>3 DEF Announce, TypeOK, ClaimsFit
<1>4. ASSUME NEW n \in Node, Leave(n) PROVE TypeOK'
  <2>1. claim' = [claim EXCEPT ![n] = NoClaim] /\ phase' = [phase EXCEPT ![n] = "out"] /\ orderly' = orderly
    BY <1>4 DEF Leave
  <2>2. claim' \in [Node -> Claims] /\ phase' \in [Node -> {"out", "loading", "in", "nogap"}]
    BY <1>0, <2>1, NoClaimTyped DEF TypeOK
  <2>3. ClaimsFit'
    BY <1>0, <2>1, NoClaimTyped DEF TypeOK, ClaimsFit
  <2> QED
    BY <2>1, <2>2, <2>3 DEF TypeOK, Claims, Layers
<1>5. CASE UNCHANGED vars
  BY <1>5 DEF vars, TypeOK, ClaimsFit
<1> QED
  BY <1>1, <1>2, <1>3, <1>4, <1>5 DEF Next

LEMMA TypeOKInit == Init => TypeOK
  BY NoClaimTyped DEF Init, TypeOK, ClaimsFit, Claims, Layers

\* TypeOK: whatever a machine reads and whenever it does, what it claims is a part
\* of the model and fits its memory.
THEOREM ClaimsAlwaysFit == Spec => []TypeOK
  BY TypeOKInit, TypeOKNext, PTL DEF Spec

-----------------------------------------------------------------------------
(* Orderly joins *)

\* The machines whose claim holds a layer, the embedding or the head.
LayerClaimants(i) == {n \in Node : \E b \in claim[n].decoders : Covers(b, i)}
EmbedClaimants == {n \in Node : claim[n].embed}
HeadClaimants == {n \in Node : claim[n].head}

\* Nothing is claimed by more machines than --target wants.
ClaimedInMeasure ==
    /\ \A i \in 0 .. (NumLayers - 1) : Cardinality(LayerClaimants(i)) <= Target
    /\ Cardinality(EmbedClaimants) <= Target
    /\ Cardinality(HeadClaimants) <= Target

\* Only a node that loads or is in the swarm claims anything.
OthersClaimNothing == \A n \in Node : phase[n] \in {"out", "nogap"} => claim[n] = NoClaim

\* choose_stages takes from one gap, so a claim is one block at most.
OneBlock == \A n \in Node : \A x, y \in claim[n].decoders : x = y

OrderlyInv ==
    /\ TypeOK
    /\ OthersClaimNothing
    /\ OneBlock
    /\ orderly => ClaimedInMeasure

\* A set of claimants stays in measure when nobody joins it, or one does while
\* it was below.
LEMMA InMeasure ==
    ASSUME NEW S \in SUBSET Node, NEW T \in SUBSET Node, NEW n \in Node, T \subseteq S \cup {n},
           Cardinality(S) <= Target, n \in T => Cardinality(S) < Target
    PROVE  Cardinality(T) <= Target
<1>1. IsFiniteSet(S) /\ IsFiniteSet(S \cup {n}) /\ Cardinality(S) \in Nat
  BY NodeAssumption, FS_Subset, FS_CardinalityType
<1>2. Cardinality(S \cup {n}) <= Cardinality(S) + 1 /\ Cardinality(S \cup {n}) \in Nat
  BY <1>1, FS_AddElement, FS_CardinalityType
<1>3. CASE n \in T
  <2>1. Cardinality(T) <= Cardinality(S \cup {n}) /\ Cardinality(T) \in Nat
    BY <1>1, FS_Subset, FS_CardinalityType
  <2> QED
    BY <1>1, <1>2, <1>3, <2>1, SizeAssumption
<1>4. CASE n \notin T
  <2>1. T \subseteq S
    BY <1>4
  <2>2. Cardinality(T) <= Cardinality(S) /\ Cardinality(T) \in Nat
    BY <1>1, <2>1, FS_Subset, FS_CardinalityType
  <2> QED
    BY <1>1, <2>2, SizeAssumption
<1> QED
  BY <1>3, <1>4

\* When nobody loads, whatever is claimed is announced, and coverage_gaps counts it.
LEMMA ClaimantsAreCounted ==
    ASSUME TypeOK, OthersClaimNothing, \A m \in Node : phase[m] # "loading"
    PROVE  /\ \A i : Cardinality(LayerClaimants(i)) <= Replicas(Swarm, i)
           /\ Cardinality(EmbedClaimants) = EmbedReplicas(Swarm)
           /\ Cardinality(HeadClaimants) = HeadReplicas(Swarm)
<1>1. DOMAIN Swarm = {m \in Node : phase[m] = "in"} /\ \A m \in DOMAIN Swarm : Swarm[m] = claim[m]
  BY DEF Swarm
<1>2. \A m \in Node : phase[m] # "in" => claim[m] = NoClaim
  BY DEF TypeOK, OthersClaimNothing
<1>3. EmbedClaimants = {m \in DOMAIN Swarm : Swarm[m].embed}
  BY <1>1, <1>2 DEF EmbedClaimants, NoClaim
<1>4. HeadClaimants = {m \in DOMAIN Swarm : Swarm[m].head}
  BY <1>1, <1>2 DEF HeadClaimants, NoClaim
<1>5. ASSUME NEW i PROVE Cardinality(LayerClaimants(i)) <= Replicas(Swarm, i)
  <2> DEFINE Pairs == (DOMAIN Swarm) \X Blocks(Swarm)
             S == {x \in Pairs : x[2] \in Swarm[x[1]].decoders /\ x[2][1] <= i /\ i < x[2][2]}
             block(m) == CHOOSE b \in claim[m].decoders : Covers(b, i)
             f == [m \in LayerClaimants(i) |-> <<m, block(m)>>]
  <2>1. ASSUME NEW m \in LayerClaimants(i) PROVE <<m, block(m)>> \in S
    <3>1. m \in Node /\ \E b \in claim[m].decoders : Covers(b, i)
      BY DEF LayerClaimants
    <3>2. block(m) \in claim[m].decoders /\ Covers(block(m), i)
      BY <3>1
    <3>3. claim[m] # NoClaim
      BY <3>1, NoClaimTyped
    <3>4. m \in DOMAIN Swarm /\ Swarm[m] = claim[m]
      BY <1>1, <1>2, <3>1, <3>3
    <3> HIDE DEF block
    <3>5. block(m) \in Blocks(Swarm)
      BY <3>2, <3>4 DEF Blocks
    <3> QED
      BY <3>2, <3>4, <3>5 DEF Covers
  <2> HIDE DEF S, block
  <2>2. f \in Injection(LayerClaimants(i), S)
    BY <2>1 DEF Injection, IsInjective
  <2>3. IsFiniteSet(S)
    <3>1. S \subseteq Pairs /\ IsFiniteSet(Pairs)
      BY PairsAreFinite, SwarmIsSwarm DEF S
    <3> HIDE DEF Pairs
    <3> QED
      BY <3>1, FS_Subset
  <2>4. Cardinality(LayerClaimants(i)) <= Cardinality(S)
    BY <2>2, <2>3, FS_Injection
  <2>5. Replicas(Swarm, i) = Cardinality(S)
    BY DEF Replicas, S
  <2> QED
    BY <2>4, <2>5
<1> QED
  BY <1>3, <1>4, <1>5 DEF EmbedReplicas, HeadReplicas

LEMMA ReadInMeasure ==
    ASSUME OrderlyInv, NEW n \in Node, Read(n), orderly'
    PROVE  ClaimedInMeasure'
<1> DEFINE stages == ChooseStages(n, Swarm)
<1>1. /\ \A m \in Node : phase[m] # "loading"
      /\ ClaimedInMeasure /\ TypeOK /\ OthersClaimNothing /\ IsSwarm(Swarm)
      /\ claim' = [claim EXCEPT ![n] = stages] /\ DOMAIN claim = Node
  BY SwarmIsSwarm DEF Read, Plan, OrderlyInv, TypeOK
<1>2. /\ \A x \in stages.decoders : \E gap \in Gaps(Swarm) :
              /\ x = <<gap[1], x[2]>> /\ x[2] \in Layers
              /\ gap[1] < x[2] /\ x[2] <= gap[2] /\ x[2] - gap[1] <= Fits[n]
      /\ stages.embed => EmbedReplicas(Swarm) < Target
      /\ stages.head => HeadReplicas(Swarm) < Target
  <2>1. \A x \in stages.decoders : \E gap \in Gaps(Swarm) :
              /\ x = <<gap[1], x[2]>> /\ x[2] \in Layers
              /\ gap[1] < x[2] /\ x[2] <= gap[2] /\ x[2] - gap[1] <= Fits[n]
    BY <1>1, ClaimIsCut
  <2> QED
    BY <2>1 DEF ChooseStages
<1> HIDE DEF stages
<1>3. claim'[n] = stages /\ \A m \in Node : m # n => claim'[m] = claim[m]
  BY <1>1
<1>4. /\ \A i : Cardinality(LayerClaimants(i)) <= Replicas(Swarm, i)
      /\ Cardinality(EmbedClaimants) = EmbedReplicas(Swarm)
      /\ Cardinality(HeadClaimants) = HeadReplicas(Swarm)
  BY <1>1, ClaimantsAreCounted
<1>5. ASSUME NEW i \in 0 .. (NumLayers - 1) PROVE Cardinality(LayerClaimants(i)') <= Target
  <2> DEFINE S == LayerClaimants(i)
             T == LayerClaimants(i)'
  <2>1. S \in SUBSET Node /\ T \in SUBSET Node /\ T \subseteq S \cup {n}
    BY <1>3 DEF LayerClaimants
  <2>2. Cardinality(S) <= Target
    BY <1>1 DEF ClaimedInMeasure
  <2>3. ASSUME n \in T PROVE Cardinality(S) < Target
    <3>1. PICK x \in stages.decoders : Covers(x, i)
      BY <1>3, <2>3 DEF LayerClaimants
    <3>2. PICK gap \in Gaps(Swarm) :
              /\ x = <<gap[1], x[2]>> /\ x[2] \in Layers
              /\ gap[1] < x[2] /\ x[2] <= gap[2] /\ x[2] - gap[1] <= Fits[n]
      BY <1>2
    <3>3. /\ gap[1] \in Nat /\ gap[2] \in Nat /\ x[2] \in Nat
          /\ \A k \in gap[1] .. (gap[2] - 1) : HasLess(Swarm, k)
      BY <3>2, GapsAreRanges, SizeAssumption DEF Layers
    <3>4. i \in gap[1] .. (gap[2] - 1)
      BY <3>1, <3>2, <3>3, SizeAssumption DEF Covers
    <3>5. Replicas(Swarm, i) < Target
      BY <3>3, <3>4 DEF HasLess
    <3>6. Replicas(Swarm, i) \in Nat /\ Cardinality(S) \in Nat
      BY <1>1, <2>1, ReplicasCount, NodeAssumption, FS_Subset, FS_CardinalityType
    <3> QED
      BY <1>4, <3>5, <3>6, SizeAssumption
  <2> HIDE DEF S, T
  <2>4. Cardinality(T) <= Target
    BY <2>1, <2>2, <2>3, InMeasure
  <2> QED
    BY <2>4 DEF T
<1>6. Cardinality(EmbedClaimants') <= Target
  <2>1. EmbedClaimants \in SUBSET Node /\ EmbedClaimants' \in SUBSET Node /\ EmbedClaimants' \subseteq EmbedClaimants \cup {n}
    BY <1>3 DEF EmbedClaimants
  <2>2. n \in EmbedClaimants' => Cardinality(EmbedClaimants) < Target
    BY <1>2, <1>3, <1>4 DEF EmbedClaimants
  <2>3. Cardinality(EmbedClaimants) <= Target
    BY <1>1 DEF ClaimedInMeasure
  <2> QED
    BY <2>1, <2>2, <2>3, InMeasure
<1>7. Cardinality(HeadClaimants') <= Target
  <2>1. HeadClaimants \in SUBSET Node /\ HeadClaimants' \in SUBSET Node /\ HeadClaimants' \subseteq HeadClaimants \cup {n}
    BY <1>3 DEF HeadClaimants
  <2>2. n \in HeadClaimants' => Cardinality(HeadClaimants) < Target
    BY <1>2, <1>3, <1>4 DEF HeadClaimants
  <2>3. Cardinality(HeadClaimants) <= Target
    BY <1>1 DEF ClaimedInMeasure
  <2> QED
    BY <2>1, <2>2, <2>3, InMeasure
<1> QED
  BY <1>5, <1>6, <1>7 DEF ClaimedInMeasure

LEMMA LeaveInMeasure ==
    ASSUME OrderlyInv, NEW n \in Node, Leave(n), ClaimedInMeasure
    PROVE  ClaimedInMeasure'
<1>1. /\ claim' = [claim EXCEPT ![n] = NoClaim] /\ DOMAIN claim = Node
  BY DEF Leave, OrderlyInv, TypeOK
<1>2. claim'[n] = NoClaim /\ \A m \in Node : m # n => claim'[m] = claim[m]
  BY <1>1
<1>3. /\ \A i : LayerClaimants(i)' \subseteq LayerClaimants(i)
      /\ EmbedClaimants' \subseteq EmbedClaimants /\ HeadClaimants' \subseteq HeadClaimants
  BY <1>2, NoClaimTyped DEF LayerClaimants, EmbedClaimants, HeadClaimants, NoClaim
<1>4. ASSUME NEW S \in SUBSET Node, NEW T, T \subseteq S, Cardinality(S) <= Target
      PROVE  Cardinality(T) <= Target
  <2>1. IsFiniteSet(S) /\ Cardinality(S) \in Nat
    BY NodeAssumption, FS_Subset, FS_CardinalityType
  <2>2. Cardinality(T) <= Cardinality(S) /\ Cardinality(T) \in Nat
    BY <1>4, <2>1, FS_Subset, FS_CardinalityType
  <2> QED
    BY <1>4, <2>1, <2>2, SizeAssumption
<1>5. /\ \A i : LayerClaimants(i) \in SUBSET Node
      /\ EmbedClaimants \in SUBSET Node /\ HeadClaimants \in SUBSET Node
  BY DEF LayerClaimants, EmbedClaimants, HeadClaimants
<1> QED
  BY <1>3, <1>4, <1>5 DEF ClaimedInMeasure

LEMMA OrderlyInit == Init => OrderlyInv
<1> SUFFICES ASSUME Init PROVE OrderlyInv
  OBVIOUS
<1>1. \A n \in Node : claim[n] = NoClaim
  BY DEF Init
<1>2. (\A i : LayerClaimants(i) = {}) /\ EmbedClaimants = {} /\ HeadClaimants = {}
  BY <1>1, NoClaimTyped DEF LayerClaimants, EmbedClaimants, HeadClaimants, NoClaim
<1>3. Cardinality({}) = 0
  BY FS_EmptySet
<1> QED
  <2>1. OthersClaimNothing /\ OneBlock
    BY <1>1, NoClaimTyped DEF OthersClaimNothing, OneBlock
  <2>2. ClaimedInMeasure
    BY <1>2, <1>3, SizeAssumption DEF ClaimedInMeasure
  <2> QED
    BY <2>1, <2>2, TypeOKInit DEF OrderlyInv

LEMMA OrderlyNext == OrderlyInv /\ [Next]_vars => OrderlyInv'
<1> SUFFICES ASSUME OrderlyInv, [Next]_vars PROVE OrderlyInv'
  OBVIOUS
<1>0. TypeOK /\ TypeOK' /\ OthersClaimNothing /\ OneBlock /\ (orderly => ClaimedInMeasure)
  BY TypeOKNext DEF OrderlyInv
<1>1. OthersClaimNothing'
  <2>1. ASSUME NEW n \in Node, NEW learned, Plan(n, learned) PROVE OthersClaimNothing'
    BY <1>0, <2>1 DEF Plan, OthersClaimNothing, TypeOK
  <2> QED
    BY <1>0, <2>1 DEF Next, Read, ReadFails, Announce, Leave, OthersClaimNothing, TypeOK, vars
<1>2. ASSUME orderly' PROVE ClaimedInMeasure'
  <2>1. ASSUME NEW n \in Node, Read(n) PROVE ClaimedInMeasure'
    BY <1>2, <2>1, ReadInMeasure
  <2>2. ASSUME NEW n \in Node, Leave(n) PROVE ClaimedInMeasure'
    BY <1>0, <1>2, <2>2, LeaveInMeasure DEF Leave
  <2>3. CASE UNCHANGED <<claim, orderly>>
    BY <1>0, <1>2, <2>3 DEF ClaimedInMeasure, LayerClaimants, EmbedClaimants, HeadClaimants
  <2>4. \A n \in Node : ~ReadFails(n)
    BY <1>2 DEF ReadFails
  <2> QED
    BY <2>1, <2>2, <2>3, <2>4 DEF Next, Announce, vars
<1>3. OneBlock'
  <2>1. ASSUME NEW n \in Node, NEW learned, Plan(n, learned) PROVE OneBlock'
    <3> DEFINE stages == ChooseStages(n, learned)
    <3>1. \A x, y \in stages.decoders : x = y
      BY DEF ChooseStages
    <3>2. claim' = [claim EXCEPT ![n] = stages] /\ DOMAIN claim = Node
      BY <1>0, <2>1 DEF Plan, TypeOK
    <3> HIDE DEF stages
    <3> QED
      BY <1>0, <3>1, <3>2 DEF OneBlock
  <2>2. ASSUME NEW n \in Node, Leave(n) PROVE OneBlock'
    <3>1. claim' = [claim EXCEPT ![n] = NoClaim] /\ DOMAIN claim = Node
      BY <1>0, <2>2 DEF Leave, TypeOK
    <3> QED
      BY <1>0, <3>1, NoClaimTyped DEF OneBlock
  <2> QED
    BY <1>0, <2>1, <2>2 DEF Next, Read, ReadFails, Announce, OneBlock, vars
<1> QED
  BY <1>0, <1>1, <1>2, <1>3 DEF OrderlyInv

LEMMA NothingTwice ==
    ASSUME OrderlyInv, orderly, Target = 1
    PROVE  NothingClaimedTwice
<1> SUFFICES ASSUME NEW m \in Node, NEW n \in Node, m # n,
                    NEW x \in claim[m].decoders, NEW y \in claim[n].decoders,
                    ~(x[2] <= y[1]), ~(y[2] <= x[1])
             PROVE  FALSE
  BY DEF NothingClaimedTwice
<1>1. /\ x[1] \in Nat /\ x[2] \in Nat /\ y[1] \in Nat /\ y[2] \in Nat /\ NumLayers \in Nat
      /\ x[1] < x[2] /\ x[2] <= NumLayers /\ y[1] < y[2] /\ y[2] <= NumLayers
  <2>1. claim[m] \in Claims /\ claim[n] \in Claims /\ ClaimsFit
    BY DEF OrderlyInv, TypeOK, Claims, Layers
  <2>2. x \in Layers \X Layers /\ y \in Layers \X Layers
    BY <2>1 DEF Claims
  <2> QED
    BY <2>1, <2>2, SizeAssumption DEF ClaimsFit, Layers
<1> DEFINE i == IF x[1] <= y[1] THEN y[1] ELSE x[1]
<1>2. i \in 0 .. (NumLayers - 1) /\ Covers(x, i) /\ Covers(y, i)
  BY <1>1 DEF Covers
<1> HIDE DEF i
<1>3. {m, n} \subseteq LayerClaimants(i)
  BY <1>2 DEF LayerClaimants
<1>4. Cardinality(LayerClaimants(i)) <= 1
  BY <1>2 DEF OrderlyInv, ClaimedInMeasure
<1>5. IsFiniteSet(LayerClaimants(i)) /\ Cardinality(LayerClaimants(i)) \in Nat
  BY NodeAssumption, FS_Subset, FS_CardinalityType DEF LayerClaimants
<1>6. Cardinality(LayerClaimants(i)) = 0 \/ Cardinality(LayerClaimants(i)) = 1
  BY <1>4, <1>5
<1>7. LayerClaimants(i) = {} \/ \E z : LayerClaimants(i) = {z}
  BY <1>5, <1>6, FS_EmptySet, FS_Singleton
<1> QED
  BY <1>3, <1>7

\* ClaimedInMeasure: as long as every machine read the registry after the claims
\* before it were announced, no layer, nor the embedding or the head, is claimed
\* by more machines than --target wants.
THEOREM OrderlyJoinsClaimInMeasure == Spec => [](orderly => ClaimedInMeasure)
<1>1. OrderlyInv => (orderly => ClaimedInMeasure)
  BY DEF OrderlyInv
<1> QED
  BY <1>1, OrderlyInit, OrderlyNext, PTL DEF Spec

-----------------------------------------------------------------------------
(* The greedy tiling *)

\* Blocks of layers of the model that share none.
Disjoint(blocks) ==
    /\ IsFiniteSet(blocks)
    /\ blocks \subseteq Layers \X Layers
    /\ \A b \in blocks : b[1] < b[2]
    /\ \A a, b \in blocks : a # b => a[2] <= b[1] \/ b[2] <= a[1]

LEMMA BlockBounds ==
    ASSUME NEW blocks, Disjoint(blocks), NEW b \in blocks
    PROVE  /\ b[1] \in Nat /\ b[2] \in Nat /\ NumLayers \in Nat
           /\ b[1] < b[2] /\ b[2] <= NumLayers
  BY SizeAssumption DEF Disjoint, Layers

LEMMA DisjointIsFinite ==
    ASSUME NEW blocks, Disjoint(blocks)
    PROVE  FiniteBlocks(blocks)
  BY SizeAssumption DEF Disjoint, FiniteBlocks, Layers

\* Where every layer is covered by blocks that share none, they take over from
\* one another.
LEMMA CoverFollowsOn ==
    ASSUME NEW blocks, Disjoint(blocks), LayersCovered(blocks, NumLayers)
    PROVE  FollowOn(blocks, NumLayers)
<1>1. ASSUME NEW cursor \in 0 .. (NumLayers - 1), cursor = 0 \/ \E a \in blocks : a[2] = cursor
      PROVE  \E b \in blocks : b[1] = cursor
  <2>1. PICK b \in blocks : Covers(b, cursor)
    BY DEF LayersCovered
  <2>2. b[1] \in Nat /\ b[2] \in Nat /\ b[1] < b[2] /\ b[1] <= cursor /\ cursor < b[2]
    BY <2>1, BlockBounds DEF Covers
  <2>3. CASE cursor = 0
    BY <2>2, <2>3
  <2>4. CASE \E a \in blocks : a[2] = cursor
    <3>1. PICK a \in blocks : a[2] = cursor
      BY <2>4
    <3>2. a[1] \in Nat /\ a[2] \in Nat /\ a[1] < a[2]
      BY BlockBounds
    <3>3. a # b
      BY <2>2, <3>1, <3>2
    <3>4. a[2] <= b[1] \/ b[2] <= a[1]
      BY <3>3 DEF Disjoint
    <3>5. b[1] = cursor
      BY <2>2, <3>1, <3>2, <3>4
    <3> QED
      BY <3>5
  <2> QED
    BY <1>1, <2>3, <2>4
<1>2. \E b \in blocks : b[1] = 0
  <2>1. 0 \in 0 .. (NumLayers - 1)
    BY SizeAssumption
  <2> QED
    BY <1>1, <2>1
<1>3. \A a \in blocks : a[2] = NumLayers \/ \E b \in blocks : b[1] = a[2]
  <2> TAKE a \in blocks
  <2>1. a[2] = NumLayers \/ a[2] \in 0 .. (NumLayers - 1)
    BY BlockBounds
  <2> QED
    BY <1>1, <2>1
<1> QED
  BY <1>2, <1>3, BlockBounds, DisjointIsFinite DEF FollowOn

-----------------------------------------------------------------------------
(* Chains of orderly joins *)

LEMMA SwarmDisjoint ==
    ASSUME OrderlyInv, orderly, Target = 1
    PROVE  Disjoint(Blocks(Swarm))
<1>1. TypeOK /\ OneBlock /\ IsSwarm(Swarm) /\ NothingClaimedTwice
  BY SwarmIsSwarm, NothingTwice DEF OrderlyInv
<1>2. \A b \in Blocks(Swarm) : \E n \in Node : b \in claim[n].decoders
  BY DEF Blocks, Swarm
<1>3. \A b \in Blocks(Swarm) : b[1] < b[2]
  BY <1>1, <1>2 DEF TypeOK, ClaimsFit
<1>4. ASSUME NEW a \in Blocks(Swarm), NEW b \in Blocks(Swarm), a # b
      PROVE  a[2] <= b[1] \/ b[2] <= a[1]
  <2>1. PICK m \in Node : a \in claim[m].decoders
    BY <1>2
  <2>2. PICK n \in Node : b \in claim[n].decoders
    BY <1>2
  <2>3. m # n
    BY <1>1, <1>4, <2>1, <2>2 DEF OneBlock
  <2> QED
    BY <1>1, <2>1, <2>2, <2>3 DEF NothingClaimedTwice
<1>5. IsFiniteSet(Blocks(Swarm)) /\ Blocks(Swarm) \subseteq Layers \X Layers
  BY <1>1, BlocksAreFinite
<1> QED
  BY <1>3, <1>4, <1>5 DEF Disjoint

\* A layer has a replica when a block covers it, an end when a node announces it.
LEMMA SomeIsCounted ==
    ASSUME NEW S, IsFiniteSet(S)
    PROVE  Cardinality(S) \in Nat /\ (Cardinality(S) > 0 <=> S # {})
<1>1. Cardinality(S) \in Nat /\ (Cardinality(S) = 0 <=> S = {})
  BY FS_CardinalityType, FS_EmptySet
<1> QED
  BY <1>1

LEMMA ReplicatedIsCovered ==
    ASSUME NEW swarm, IsSwarm(swarm), NEW i
    PROVE  Replicas(swarm, i) > 0 <=> \E b \in Blocks(swarm) : Covers(b, i)
<1> DEFINE Pairs == (DOMAIN swarm) \X Blocks(swarm)
           S == {x \in Pairs : x[2] \in swarm[x[1]].decoders /\ x[2][1] <= i /\ i < x[2][2]}
<1>1. Replicas(swarm, i) = Cardinality(S)
  BY DEF Replicas
<1>2. S \subseteq Pairs /\ IsFiniteSet(Pairs)
  BY PairsAreFinite
<1>3. S # {} <=> \E b \in Blocks(swarm) : Covers(b, i)
  <2>1. ASSUME NEW x \in S PROVE \E b \in Blocks(swarm) : Covers(b, i)
    BY <2>1 DEF Covers
  <2>2. ASSUME NEW b \in Blocks(swarm), Covers(b, i) PROVE S # {}
    <3>1. PICK n \in DOMAIN swarm : b \in swarm[n].decoders
      BY DEF Blocks
    <3>2. <<n, b>> \in S
      BY <2>2, <3>1 DEF Covers
    <3> QED
      BY <3>2
  <2> QED
    BY <2>1, <2>2
<1> HIDE DEF S, Pairs
<1>4. IsFiniteSet(S)
  BY <1>2, FS_Subset
<1> QED
  BY <1>1, <1>3, <1>4, SomeIsCounted

LEMMA EndsAreHeld ==
    ASSUME NEW swarm, IsSwarm(swarm)
    PROVE  /\ EmbedReplicas(swarm) \in Nat /\ HeadReplicas(swarm) \in Nat
           /\ EmbedReplicas(swarm) > 0 <=> Holders(swarm, NumLayers, EmbedAt) # {}
           /\ HeadReplicas(swarm) > 0 <=> Holders(swarm, NumLayers, HeadAt(NumLayers)) # {}
<1> DEFINE E == {n \in DOMAIN swarm : swarm[n].embed}
           H == {n \in DOMAIN swarm : swarm[n].head}
<1>1. EmbedReplicas(swarm) = Cardinality(E) /\ HeadReplicas(swarm) = Cardinality(H)
  BY DEF EmbedReplicas, HeadReplicas
<1>2. E \subseteq DOMAIN swarm /\ H \subseteq DOMAIN swarm /\ IsFiniteSet(DOMAIN swarm)
  BY BlocksAreFinite
<1>3. EmbedAt = 0 /\ HeadAt(NumLayers) = NumLayers + 1 /\ NumLayers + 1 # 0
  BY SizeAssumption DEF EmbedAt, HeadAt
<1>4. Holders(swarm, NumLayers, EmbedAt) = E /\ Holders(swarm, NumLayers, HeadAt(NumLayers)) = H
  BY <1>3 DEF Holders
<1> HIDE DEF E, H
<1>5. IsFiniteSet(E) /\ IsFiniteSet(H)
  BY <1>2, FS_Subset
<1> QED
  BY <1>1, <1>4, <1>5, SomeIsCounted

LEMMA CoveredServes ==
    ASSUME OrderlyInv, orderly, Target = 1
    PROVE  OperationalIffCovered
<1>1. IsSwarm(Swarm) /\ Disjoint(Blocks(Swarm))
  BY SwarmIsSwarm, SwarmDisjoint DEF OrderlyInv
<1>2. Tiles(Blocks(Swarm), NumLayers) <=> LayersCovered(Blocks(Swarm), NumLayers)
  BY <1>1, DisjointIsFinite, CoverFollowsOn, FollowOnTiles, TilingCovers, SizeAssumption
<1>3. LayersCovered(Blocks(Swarm), NumLayers) <=> \A i \in 0 .. (NumLayers - 1) : Replicas(Swarm, i) > 0
  BY <1>1, ReplicatedIsCovered DEF LayersCovered
<1> QED
  BY <1>1, <1>2, <1>3, EndsAreHeld DEF OperationalIffCovered, Operational, Covered, HasChain

\* OrderlyJoinsServe: after orderly joins for one replica no layer is claimed
\* twice, and the greedy tiling of build_chain finds a chain whenever every layer,
\* the embedding and the head are announced.
THEOREM OrderlyJoins == Spec => []OrderlyJoinsServe
<1>1. OrderlyInv => OrderlyJoinsServe
  BY CoveredServes, NothingTwice DEF OrderlyJoinsServe
<1> QED
  BY <1>1, OrderlyInit, OrderlyNext, PTL DEF Spec

-----------------------------------------------------------------------------
(* Chains of any swarm *)

LEMMA SwarmIsRanked ==
    ASSUME TypeOK PROVE IsSwarmOf(Swarm, Unranked)
<1>1. IsSwarm(Swarm)
  BY SwarmIsSwarm
<1>2. IsFiniteSet(DOMAIN Swarm)
  BY <1>1, BlocksAreFinite
<1>3. ASSUME NEW u \in DOMAIN Swarm PROVE FiniteBlocks(Swarm[u].decoders)
  <2>1. Swarm[u].decoders \subseteq Blocks(Swarm) /\ IsFiniteSet(Blocks(Swarm)) /\ Blocks(Swarm) \subseteq Nat \X Nat
    BY <1>1, BlocksAreFinite, SizeAssumption DEF Blocks, Layers
  <2> QED
    BY <2>1, FS_Subset DEF FiniteBlocks
<1>4. Ranking(Unranked, DOMAIN Swarm)
  BY <1>1 DEF Ranking, Unranked, IsSwarm
<1> QED
  BY <1>2, <1>3, <1>4 DEF IsSwarmOf

\* ChainsRunWholeModel: whoever joined in whatever order, build_chain returns a
\* chain exactly when the greedy tiling gets through and both ends are announced,
\* and what it returns runs every layer once on nodes that announce it.
THEOREM EveryChainIsWhole == Spec => []ChainsRunWholeModel
<1>1. ASSUME TypeOK PROVE ChainsRunWholeModel
  <2>1. IsSwarmOf(Swarm, Unranked) /\ NumLayers \in Nat \ {0}
    BY <1>1, SwarmIsRanked, SizeAssumption
  <2>2. Operational <=> BuildChain(Swarm, NumLayers, Unranked) # {}
    BY <2>1, ChainWhenPossible DEF Operational
  <2>3. \A route \in BuildChain(Swarm, NumLayers, Unranked) : RunsWholeModel(Swarm, NumLayers, route)
    BY <2>1, ChainsServe
  <2> QED
    BY <2>2, <2>3 DEF ChainsRunWholeModel
<1> QED
  BY <1>1, ClaimsAlwaysFit, PTL

\* One half of OperationalIffCovered needs no order and no bound on the replicas:
\* a swarm that serves has every layer, the embedding and the head announced.
THEOREM OperationalIsCovered == Spec => [](Operational => Covered)
<1>1. ASSUME TypeOK, Operational PROVE Covered
  <2>1. IsSwarm(Swarm) /\ FiniteBlocks(Blocks(Swarm)) /\ NumLayers \in Nat \ {0}
    BY <1>1, SwarmIsSwarm, SwarmIsRanked, SwarmBlocks, SizeAssumption DEF IsSwarmOf
  <2>2. LayersCovered(Blocks(Swarm), NumLayers)
    BY <1>1, <2>1, TilingCovers DEF Operational, HasChain
  <2>3. \A i \in 0 .. (NumLayers - 1) : Replicas(Swarm, i) > 0
    BY <2>1, <2>2, ReplicatedIsCovered DEF LayersCovered
  <2>4. EmbedReplicas(Swarm) > 0 /\ HeadReplicas(Swarm) > 0
    BY <1>1, <2>1, EndsAreHeld DEF Operational, HasChain
  <2> QED
    BY <2>3, <2>4 DEF Covered
<1> QED
  BY <1>1, ClaimsAlwaysFit, PTL

-----------------------------------------------------------------------------
(* Nodes that are turned away *)

\* A layer with too few replicas lies in a gap.
LEMMA ShortLayerHasGap ==
    ASSUME NEW swarm, NEW i \in 0 .. (NumLayers - 1), HasLess(swarm, i)
    PROVE  Gaps(swarm) # {}
<1>0. i \in Nat /\ NumLayers \in Nat /\ i < NumLayers
  BY SizeAssumption
<1> DEFINE Lows == {a \in 0 .. i : \A k \in a .. i : HasLess(swarm, k)}
           Highs == {b \in (i + 1) .. NumLayers : b = NumLayers \/ ~HasLess(swarm, b)}
<1>1. PICK lo \in Lows : \A a \in Lows : lo <= a
  <2>1. i \in Lows /\ Lows \in SUBSET Nat
    BY <1>0
  <2> HIDE DEF Lows
  <2> QED
    BY <2>1, LeastExists
<1>2. PICK hi \in Highs : \A b \in Highs : hi <= b
  <2>1. NumLayers \in Highs /\ Highs \in SUBSET Nat
    BY <1>0
  <2> HIDE DEF Highs
  <2> QED
    BY <2>1, LeastExists
<1>3. /\ lo \in Nat /\ lo <= i /\ \A k \in lo .. i : HasLess(swarm, k)
      /\ hi \in Nat /\ i < hi /\ hi <= NumLayers /\ (hi = NumLayers \/ ~HasLess(swarm, hi))
  BY <1>0
<1>4. \A k \in lo .. (hi - 1) : HasLess(swarm, k)
  <2> SUFFICES ASSUME NEW k \in lo .. (hi - 1), ~HasLess(swarm, k) PROVE FALSE
    OBVIOUS
  <2>1. k \in Nat /\ lo <= k /\ k < hi
    BY <1>3
  <2>2. CASE k <= i
    BY <1>0, <1>3, <2>1, <2>2
  <2>3. CASE i < k
    <3>1. k \in Highs
      BY <1>0, <1>3, <2>1, <2>3
    <3> QED
      BY <1>2, <1>3, <2>1, <3>1
  <2> QED
    BY <1>0, <2>1, <2>2, <2>3
<1>5. lo = 0 \/ ~HasLess(swarm, lo - 1)
  <2> SUFFICES ASSUME lo # 0, HasLess(swarm, lo - 1) PROVE FALSE
    OBVIOUS
  <2>1. lo - 1 \in 0 .. i /\ ~(lo <= lo - 1)
    BY <1>0, <1>3
  <2>2. \A k \in (lo - 1) .. i : HasLess(swarm, k)
    <3> TAKE k \in (lo - 1) .. i
    <3>1. k = lo - 1 \/ k \in lo .. i
      BY <1>0, <1>3
    <3> QED
      BY <1>3, <3>1
  <2> QED
    BY <1>1, <2>1, <2>2
<1>6. lo \in 0 .. NumLayers /\ hi \in 0 .. NumLayers /\ lo < hi
  BY <1>0, <1>3
<1> HIDE DEF Lows, Highs
<1>7. <<lo, hi>> \in Gaps(swarm)
  BY <1>3, <1>4, <1>5, <1>6 DEF Gaps
<1> QED
  BY <1>7

LEMMA NothingLeftToClaim ==
    ASSUME TypeOK, NEW n \in Node, TakesEnds(n), ChooseStages(n, Swarm) = NoClaim
    PROVE  /\ EmbedReplicas(Swarm) > 0 /\ HeadReplicas(Swarm) > 0
           /\ \A i \in 0 .. (NumLayers - 1) : Replicas(Swarm, i) \in Nat /\ Replicas(Swarm, i) >= Target
<1>1. IsSwarm(Swarm) /\ Target \in Nat /\ Target > 0
  BY SwarmIsSwarm, SizeAssumption
<1>2. /\ ~(TakesEnds(n) /\ EmbedReplicas(Swarm) < Target)
      /\ ~(TakesEnds(n) /\ HeadReplicas(Swarm) < Target)
      /\ ~(Gaps(Swarm) # {} /\ MaxDecoderLayers(n) > 0)
  <2> DEFINE stages == ChooseStages(n, Swarm)
  <2>1. stages.embed = FALSE /\ stages.head = FALSE /\ stages.decoders = {}
    BY DEF NoClaim
  <2> QED
    BY <2>1 DEF ChooseStages
<1>3. MaxDecoderLayers(n) > 0
  BY SizeAssumption DEF TakesEnds, MaxDecoderLayers
<1>4. Gaps(Swarm) = {}
  BY <1>2, <1>3
<1>5. ASSUME NEW i \in 0 .. (NumLayers - 1) PROVE Replicas(Swarm, i) \in Nat /\ Replicas(Swarm, i) >= Target
  <2>1. ~HasLess(Swarm, i)
    BY <1>4, ShortLayerHasGap
  <2>2. Replicas(Swarm, i) \in Nat
    BY <1>1, ReplicasCount
  <2> QED
    BY <1>1, <2>1, <2>2 DEF HasLess
<1>6. EmbedReplicas(Swarm) > 0 /\ HeadReplicas(Swarm) > 0
  BY <1>1, <1>2, EndsAreHeld
<1> QED
  BY <1>5, <1>6

\* A claim is one block at most, so each replica is another machine's.
LEMMA ReplicasAreClaimants ==
    ASSUME TypeOK, OneBlock, NEW i
    PROVE  /\ IsFiniteSet(LayerClaimants(i)) /\ Cardinality(LayerClaimants(i)) \in Nat
           /\ Replicas(Swarm, i) <= Cardinality(LayerClaimants(i))
<1> DEFINE Pairs == (DOMAIN Swarm) \X Blocks(Swarm)
           S == {x \in Pairs : x[2] \in Swarm[x[1]].decoders /\ x[2][1] <= i /\ i < x[2][2]}
           f == [x \in S |-> x[1]]
<1>1. \A m \in DOMAIN Swarm : m \in Node /\ Swarm[m] = claim[m]
  BY DEF Swarm
<1>2. \A x \in S : x[1] \in LayerClaimants(i) /\ x = <<x[1], x[2]>> /\ x[2] \in claim[x[1]].decoders
  BY <1>1 DEF LayerClaimants, Covers
<1>3. \A x, y \in S : x[1] = y[1] => x = y
  <2> TAKE x, y \in S
  <2>1. x[1] \in Node
    BY <1>2 DEF LayerClaimants
  <2>2. x[1] = y[1] => x[2] = y[2]
    BY <1>2, <2>1 DEF OneBlock
  <2>3. x = <<x[1], x[2]>> /\ y = <<y[1], y[2]>>
    BY <1>2
  <2> QED
    BY <2>2, <2>3
<1>4. Replicas(Swarm, i) = Cardinality(S)
  BY DEF Replicas
<1> HIDE DEF S, Pairs
<1>5. f \in Injection(S, LayerClaimants(i))
  BY <1>2, <1>3 DEF Injection, IsInjective
<1>6. IsFiniteSet(LayerClaimants(i)) /\ Cardinality(LayerClaimants(i)) \in Nat
  BY NodeAssumption, FS_Subset, FS_CardinalityType DEF LayerClaimants
<1> HIDE DEF f
<1>7. Cardinality(S) <= Cardinality(LayerClaimants(i))
  BY <1>5, <1>6, FS_Injection
<1> QED
  BY <1>4, <1>6, <1>7

\* When each layer is claimed in measure and announced as often as wanted, the
\* same number of machines holds each layer: as one machine's block ends before
\* the last layer, another's must start there.
LEMMA FullSwarmFollowsOn ==
    ASSUME OrderlyInv, orderly,
           \A i \in 0 .. (NumLayers - 1) : Replicas(Swarm, i) \in Nat /\ Replicas(Swarm, i) >= Target,
           \A m \in Node : phase[m] # "loading"
    PROVE  FollowOn(Blocks(Swarm), NumLayers)
<1> DEFINE blocks == Blocks(Swarm)
           held(i) == LayerClaimants(i)
<1>0. /\ TypeOK /\ OneBlock /\ OthersClaimNothing /\ ClaimedInMeasure /\ IsSwarm(Swarm)
      /\ NumLayers \in Nat \ {0} /\ Target \in Nat \ {0}
  BY SwarmIsSwarm, SizeAssumption DEF OrderlyInv
<1>1. FiniteBlocks(blocks)
  BY <1>0, BlocksAreFinite DEF FiniteBlocks, Layers
<1>2. \A b \in blocks : \E m \in Node : b \in claim[m].decoders
  BY DEF Blocks, Swarm
<1>3. \A m \in Node : claim[m].decoders \subseteq blocks
  <2> TAKE m \in Node
  <2>1. CASE phase[m] = "in"
    <3>1. m \in DOMAIN Swarm /\ Swarm[m] = claim[m]
      BY <2>1 DEF Swarm
    <3> QED
      BY <3>1 DEF Blocks
  <2>2. CASE phase[m] # "in"
    <3>1. claim[m] = NoClaim
      BY <1>0, <2>2 DEF TypeOK, OthersClaimNothing
    <3> QED
      BY <3>1, NoClaimTyped
  <2> QED
    BY <2>1, <2>2
<1>4. \A b \in blocks : b[1] \in Nat /\ b[2] \in Nat /\ b[1] < b[2] /\ b[2] <= NumLayers
  BY <1>0, <1>1, <1>2 DEF TypeOK, ClaimsFit, FiniteBlocks
<1>5. \A i \in 0 .. (NumLayers - 1) : IsFiniteSet(held(i)) /\ Cardinality(held(i)) = Target
  <2> TAKE i \in 0 .. (NumLayers - 1)
  <2>1. IsFiniteSet(held(i)) /\ Cardinality(held(i)) \in Nat /\ Replicas(Swarm, i) <= Cardinality(held(i))
    BY <1>0, ReplicasAreClaimants
  <2>2. Cardinality(held(i)) <= Target /\ Replicas(Swarm, i) \in Nat /\ Replicas(Swarm, i) >= Target
    BY <1>0 DEF ClaimedInMeasure
  <2> HIDE DEF held
  <2> QED
    BY <1>0, <2>1, <2>2
<1>6. \E b \in blocks : b[1] = 0
  <2>1. 0 \in 0 .. (NumLayers - 1)
    BY <1>0
  <2>2. held(0) # {}
    BY <1>0, <1>5, <2>1, SomeIsCounted
  <2>3. PICK m \in Node : \E b \in claim[m].decoders : Covers(b, 0)
    BY <2>2 DEF LayerClaimants
  <2>4. PICK b \in blocks : Covers(b, 0)
    BY <1>3, <2>3
  <2> QED
    BY <1>4, <2>4 DEF Covers
<1>7. ASSUME NEW a \in blocks, a[2] # NumLayers, \A b \in blocks : b[1] # a[2]
      PROVE  FALSE
  <2> DEFINE p == a[2]
  <2>1. p \in 0 .. (NumLayers - 1) /\ p - 1 \in 0 .. (NumLayers - 1) /\ p - 1 < p
    BY <1>0, <1>4, <1>7
  <2>2. \A b \in blocks : Covers(b, p) => Covers(b, p - 1)
    BY <1>4, <1>7 DEF Covers
  <2>3. Covers(a, p - 1) /\ ~Covers(a, p)
    BY <1>4 DEF Covers
  <2> HIDE DEF p
  <2>4. held(p) \subseteq held(p - 1)
    BY <1>3, <2>2 DEF LayerClaimants
  <2>5. PICK m \in Node : a \in claim[m].decoders
    BY <1>2
  <2>6. m \in held(p - 1) /\ m \notin held(p)
    BY <1>0, <2>3, <2>5 DEF LayerClaimants, OneBlock
  <2>7. /\ IsFiniteSet(held(p - 1)) /\ Cardinality(held(p - 1)) = Target
        /\ Cardinality(held(p)) = Target
    BY <1>5, <2>1
  <2> HIDE DEF held
  <2> QED
    BY <2>4, <2>6, <2>7, FS_Subset
<1> QED
  BY <1>1, <1>4, <1>6, <1>7 DEF FollowOn

\* TurnedAwayOnlyIfOperational: after orderly joins, for any number of replicas, a
\* machine that could hold the whole model is told NO_GAP only by a swarm that
\* serves without it.
THEOREM TurnedAwayByServingSwarm == Spec => TurnedAwayOnlyIfOperational
<1>1. ASSUME OrderlyInv, [Next]_vars, NEW n \in Node,
             orderly', phase[n] = "out", phase'[n] = "nogap", TakesEnds(n)
      PROVE  Operational
  <2>0. TypeOK /\ phase \in [Node -> {"out", "loading", "in", "nogap"}] /\ NumLayers \in Nat \ {0}
    BY <1>1, SizeAssumption DEF OrderlyInv, TypeOK
  <2>1. PICK m \in Node : Read(m) \/ ReadFails(m) \/ Announce(m) \/ Leave(m)
    BY <1>1 DEF Next, vars
  <2>2. Read(m) /\ m = n
    <3>1. ~ReadFails(m)
      BY <1>1 DEF ReadFails
    <3>2. ~Announce(m) /\ ~Leave(m)
      BY <1>1, <2>0 DEF Announce, Leave
    <3>3. Read(m) => m = n
      BY <1>1, <2>0 DEF Read, Plan
    <3> QED
      BY <2>1, <3>1, <3>2, <3>3
  <2>3. /\ orderly /\ ChooseStages(n, Swarm) = NoClaim
        /\ \A k \in Node : phase[k] # "loading"
    <3> DEFINE stages == ChooseStages(n, Swarm)
    <3>1. orderly' = (orderly /\ \A k \in Node : phase[k] # "loading")
      BY <2>2 DEF Read
    <3>2. phase' = [phase EXCEPT ![n] = IF stages = NoClaim THEN "nogap" ELSE "loading"]
      BY <2>2 DEF Read, Plan
    <3> HIDE DEF stages
    <3>3. stages = NoClaim
      BY <1>1, <2>0, <3>2
    <3> QED
      BY <1>1, <3>1, <3>3 DEF stages
  <2>4. /\ EmbedReplicas(Swarm) > 0 /\ HeadReplicas(Swarm) > 0
        /\ \A i \in 0 .. (NumLayers - 1) : Replicas(Swarm, i) \in Nat /\ Replicas(Swarm, i) >= Target
    BY <1>1, <2>0, <2>3, NothingLeftToClaim
  <2>5. FollowOn(Blocks(Swarm), NumLayers)
    BY <1>1, <2>3, <2>4, FullSwarmFollowsOn
  <2>6. Tiles(Blocks(Swarm), NumLayers)
    BY <2>0, <2>5, FollowOnTiles
  <2> QED
    BY <2>0, <2>4, <2>6, SwarmIsSwarm, EndsAreHeld DEF Operational, HasChain
<1>2. OrderlyInv /\ [Next]_vars
        => [\A n \in Node :
              orderly' /\ phase[n] = "out" /\ phase'[n] = "nogap" /\ TakesEnds(n)
                  => Operational]_vars
  BY <1>1
<1> QED
  BY <1>2, OrderlyInit, OrderlyNext, PTL DEF Spec, TurnedAwayOnlyIfOperational

=============================================================================
