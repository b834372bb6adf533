------------------------- MODULE PeerInferenceProofs -------------------------
(***************************************************************************)
(* Proofs about PeerInference, for every network, every set of chats and   *)
(* clients and every bound.                                                *)
(***************************************************************************)
EXTENDS PeerInference, DiscoveryProofs

USE DEF EmbedAt, HeadAt, BlockAt, PromptLen

Slots == Node \X JobIds \X (1 .. NumLayers)

-----------------------------------------------------------------------------
(* What the operators return *)

\* A chain goes from the embedding through a block at the first layer to the
\* head, over nodes it was built from.
LEMMA ChainShape ==
    ASSUME NEW nodes, NEW route \in Chains(nodes)
    PROVE  /\ DOMAIN route \subseteq 0 .. HeadAt(NumLayers)
           /\ {EmbedAt, BlockAt(0), HeadAt(NumLayers)} \subseteq DOMAIN route
           /\ \A x \in DOMAIN route : route[x] \in nodes
<1> DEFINE swarm == [n \in nodes |-> Stages[n]]
<1>1. route \in [Positions(swarm, NumLayers) -> nodes]
  BY DEF Chains, BuildChain
<1>2. /\ Positions(swarm, NumLayers) \subseteq 0 .. NumLayers + 1
      /\ {0, 1, NumLayers + 1} \subseteq Positions(swarm, NumLayers)
  <2> HIDE DEF swarm
  <2> QED
    BY NodeAssumption DEF Positions, Starts
<1> QED
  BY <1>1, <1>2

\* The writes of a job log keep its shape.
LEMMA RowsShape ==
    ASSUME NEW c \in Entry, rows \in [Entry -> Row], NEW returned \in Seq(Token)
    PROVE  /\ CreateJob(rows, c) \in [Entry -> Row]
           /\ Fail(rows, c) \in [Entry -> Row]
           /\ Finish(rows, c, returned) \in [Entry -> Row]
           /\ Recover(rows) \in [Entry -> Row]
<1>1. rows[c] \in Row /\ NewRow \in Row
  BY DEF NewRow, Row, Statuses
<1>2. CreateJob(rows, c) \in [Entry -> Row]
  BY <1>1 DEF CreateJob
<1>3. Fail(rows, c) \in [Entry -> Row]
  <2>1. [rows[c] EXCEPT !.status = "FAILED"] \in Row
    BY <1>1 DEF Row, Statuses
  <2> QED
    BY <2>1 DEF Fail, SetStatus, UpdateRow
<1>4. Finish(rows, c, returned) \in [Entry -> Row]
  <2>1. [rows[c] EXCEPT !.status = "DONE", !.result = returned] \in Row
    BY <1>1 DEF Row, Statuses
  <2> QED
    BY <2>1 DEF Finish, UpdateRow
<1>5. Recover(rows) \in [Entry -> Row]
  <2>1. \A k \in Entry : [rows[k] EXCEPT !.status = "INTERRUPTED"] \in Row
    BY DEF Row, Statuses
  <2> QED
    BY <2>1 DEF Recover
<1> QED
  BY <1>2, <1>3, <1>4, <1>5

LEMMA ReceiptsShape ==
    ASSUME NEW c \in Entry, receipts \in [Entry -> [Node -> Nat]], NEW counts \in [Node -> Nat]
    PROVE  AddReceipts(receipts, c, counts) \in [Entry -> [Node -> Nat]]
BY DEF AddReceipts

LEMMA WriteShape ==
    ASSUME LogTypeOK, NEW newRows \in [Entry -> Row],
           NEW newReceipts \in [Entry -> [Node -> Nat]], Write(newRows, newReceipts)
    PROVE  LogTypeOK'
BY BoundAssumption DEF LogTypeOK, Write

LEMMA ProducedShape ==
    ASSUME TypeOK, NEW c \in Client
    PROVE  Produced(c) \in Token
BY DEF TypeOK, AttemptTypeOK, Produced, Token

LEMMA JobShape ==
    ASSUME PlanTypeOK, NEW c \in Client
    PROVE  JobOf(c) \in JobIds
BY DEF PlanTypeOK, JobOf, JobIds

LEMMA CacheShape ==
    ASSUME TypeOK, NEW c \in Client, NEW x \in Decoders(c)
    PROVE  CacheOf(c, x) \in Slots
<1>1. x \in 1 .. NumLayers
  BY NodeAssumption DEF Decoders, TypeOK, AttemptTypeOK
<1>2. chain[c][x] \in Node
  BY DEF Decoders, ChainNodes, TypeOK, AttemptTypeOK
<1> QED
  BY <1>1, <1>2, JobShape DEF CacheOf, Slots, TypeOK

\* What a hop does to the caches.
LEMMA DecodedShape ==
    ASSUME TypeOK, NEW c \in Client
    PROVE  /\ Decoded(c) \in [Slots -> Nat]
           /\ \A k \in Slots : Decoded(c)[k] =
                IF at[c] \in Decoders(c) /\ k = CacheOf(c, at[c]) THEN kv[k] + InputLen(c) ELSE kv[k]
<1>1. InputLen(c) \in Nat
  BY DEF InputLen, TypeOK, AttemptTypeOK
<1>2. kv \in [Slots -> Nat]
  BY DEF TypeOK, NodeTypeOK, Slots
<1>3. at[c] \in Decoders(c) => CacheOf(c, at[c]) \in Slots
  BY CacheShape
<1> HIDE DEF Slots
<1> QED
  BY <1>1, <1>2, <1>3 DEF Decoded

-----------------------------------------------------------------------------
(* Type correctness *)

\* What the code relies on without saying so: a request that runs has a chain
\* from the first layer to the head and a call in it, only `infer --peer` looks
\* for another one, and a pass is begun while tokens are wanted.
RequestWellFormed(c) ==
    /\ pc[c] = "idle" => excluded[c] = {} /\ attempt[c] = 0 /\ tokens[c] = <<>>
    /\ c \in Entry => pc[c] # "cover"
    /\ pc[c] \in Running => {EmbedAt, BlockAt(0), HeadAt(NumLayers)} \subseteq DOMAIN chain[c]
    /\ pc[c] = "call" => at[c] \in DOMAIN chain[c]
    /\ pc[c] = "choose" => at[c] = HeadAt(NumLayers)
    /\ pc[c] \in {"call", "choose"} => Len(tokens[c]) < MaxNew[c]

Shape == TypeOK /\ \A c \in Client : RequestWellFormed(c)

LEMMA ShapeInit == Init => Shape
<1> SUFFICES ASSUME Init PROVE Shape
  OBVIOUS
<1>1. NodeTypeOK
  BY DEF Init, NodeTypeOK
<1>2. PlanTypeOK /\ LogTypeOK
  BY BoundAssumption DEF Init, PlanTypeOK, LogTypeOK, NoRow, Row, Statuses
<1>3. AttemptTypeOK
  BY ClientAssumption, NodeAssumption DEF Init, AttemptTypeOK, ChainNodes
<1>4. \A c \in Client : RequestWellFormed(c)
  BY DEF Init, RequestWellFormed, Running
<1> QED
  BY <1>1, <1>2, <1>3, <1>4, BoundAssumption DEF Init, Shape, TypeOK, PC

\* The variables of the request of d, except its caches and its row.
TaskOf(d) ==
    <<pc[d], attempt[d], excluded[d], chain[d], at[d], prefill[d], h[d], tokens[d], ending[d]>>

LEMMA WellFormedKept ==
    ASSUME NEW d \in Client, RequestWellFormed(d), UNCHANGED TaskOf(d)
    PROVE  RequestWellFormed(d)'
BY DEF RequestWellFormed, TaskOf

\* An attempt begins.
LEMMA BeginShape ==
    ASSUME TypeOK, NEW c \in Client, NEW nodes \in SUBSET Node, NEW route \in Chains(nodes),
           Begin(c, route)
    PROVE  /\ AttemptTypeOK'
           /\ pc' \in [Client -> PC]
           /\ chain'[c] = route /\ at'[c] = EmbedAt /\ prefill'[c] = TRUE /\ h'[c] = {}
           /\ UNCHANGED <<tokens, acked>>
           /\ \/ Len(tokens[c]) < MaxNew[c] /\ pc'[c] = "call" /\ ending' = ending
              \/ ~(Len(tokens[c]) < MaxNew[c]) /\ pc'[c] = "end" /\ ending'[c] = EndTargets(route)
           /\ \A d \in Client : d # c =>
                UNCHANGED <<pc[d], chain[d], at[d], prefill[d], h[d], tokens[d], ending[d]>>
<1> USE DEF TypeOK, AttemptTypeOK
<1>1. /\ DOMAIN route \subseteq 0 .. HeadAt(NumLayers)
      /\ \A x \in DOMAIN route : route[x] \in Node
  BY ChainShape
<1>2. /\ chain' = [chain EXCEPT ![c] = route]
      /\ at' = [at EXCEPT ![c] = EmbedAt]
      /\ prefill' = [prefill EXCEPT ![c] = TRUE]
      /\ h' = [h EXCEPT ![c] = {}]
      /\ UNCHANGED <<tokens, acked>>
  BY DEF Begin
<1>3. \/ /\ Len(tokens[c]) < MaxNew[c]
         /\ pc' = [pc EXCEPT ![c] = "call"] /\ ending' = ending
      \/ /\ ~(Len(tokens[c]) < MaxNew[c])
         /\ pc' = [pc EXCEPT ![c] = "end"] /\ ending' = [ending EXCEPT ![c] = EndTargets(route)]
  BY DEF Begin
<1>4. EndTargets(route) \in SUBSET Node
  BY <1>1 DEF EndTargets
<1>5. /\ DOMAIN chain' = Client
      /\ \A d \in Client : chain'[d] = IF d = c THEN route ELSE chain[d]
  BY <1>2
<1>6. \A d \in Client : DOMAIN chain'[d] \subseteq 0 .. HeadAt(NumLayers)
                        /\ ChainNodes(d)' \subseteq Node
  <2> TAKE d \in Client
  <2>1. CASE d = c
    BY <1>1, <1>5, <2>1 DEF ChainNodes
  <2>2. CASE d # c
    BY <1>5, <2>2 DEF ChainNodes
  <2> QED
    BY <2>1, <2>2
<1>7. /\ at' \in [Client -> 0 .. HeadAt(NumLayers)] /\ prefill' \in [Client -> BOOLEAN]
      /\ h' \in [Client -> SUBSET Nat]
  BY <1>2, NodeAssumption
<1> HIDE DEF EndTargets
<1>8. ending' \in [Client -> SUBSET Node] /\ pc' \in [Client -> PC]
  <2>1. "call" \in PC /\ "end" \in PC
    BY DEF PC, Running
  <2>2. ending \in [Client -> SUBSET Node] /\ pc \in [Client -> PC]
    BY DEF TypeOK, AttemptTypeOK
  <2> HIDE DEF TypeOK, AttemptTypeOK
  <2>3. /\ pc' = [pc EXCEPT ![c] = "call"] \/ pc' = [pc EXCEPT ![c] = "end"]
        /\ ending' = ending \/ ending' = [ending EXCEPT ![c] = EndTargets(route)]
    BY <1>3
  <2> QED
    BY <1>4, <2>1, <2>2, <2>3
<1>9. AttemptTypeOK'
  BY <1>2, <1>5, <1>6, <1>7, <1>8
<1>10. \/ Len(tokens[c]) < MaxNew[c] /\ pc'[c] = "call" /\ ending' = ending
       \/ ~(Len(tokens[c]) < MaxNew[c]) /\ pc'[c] = "end" /\ ending'[c] = EndTargets(route)
  BY <1>3
<1>11. \A d \in Client : d # c =>
         UNCHANGED <<pc[d], chain[d], at[d], prefill[d], h[d], tokens[d], ending[d]>>
  BY <1>2, <1>3
<1> QED
  BY <1>2, <1>5, <1>8, <1>9, <1>10, <1>11

\* The steps of one request.
Serve(c) ==
    \/ Chat(c) \/ Infer(c) \/ Refresh(c) \/ GiveUp(c) \/ Drive(c) \/ ChatRejected(c) \/ Kill(c)

\* A request is driven by its own steps alone.
LEMMA OthersKept ==
    ASSUME TypeOK, NEW c \in Client, Serve(c), NEW d \in Client, d # c
    PROVE  UNCHANGED TaskOf(d) /\ UNCHANGED <<up, forgot, stops>>
<1> USE DEF TypeOK, PlanTypeOK, AttemptTypeOK, TaskOf
<1>1. CASE Chat(c)
  <2>1. \/ \E nodes \in SUBSET Node : \E route \in Chains(nodes) : Begin(c, route)
        \/ pc' = [pc EXCEPT ![c] = "refused"] /\ UNCHANGED attemptVars
    BY <1>1 DEF Chat
  <2>2. UNCHANGED <<planVars, up, forgot, stops>>
    BY <1>1 DEF Chat
  <2>3. UNCHANGED <<pc[d], chain[d], at[d], prefill[d], h[d], tokens[d], ending[d]>>
    <3>1. CASE pc' = [pc EXCEPT ![c] = "refused"] /\ UNCHANGED attemptVars
      BY <3>1 DEF attemptVars
    <3>2. CASE \E nodes \in SUBSET Node : \E route \in Chains(nodes) : Begin(c, route)
      <4> PICK nodes \in SUBSET Node : \E route \in Chains(nodes) : Begin(c, route)
        BY <3>2
      <4> PICK route \in Chains(nodes) : Begin(c, route)
        OBVIOUS
      <4> HIDE DEF TypeOK, AttemptTypeOK, PlanTypeOK
      <4> QED
        BY BeginShape
    <3> QED
      BY <2>1, <3>1, <3>2
  <2> QED
    BY <2>2, <2>3 DEF planVars
<1>2. CASE Infer(c) \/ Refresh(c) \/ GiveUp(c) \/ Kill(c)
  BY <1>2 DEF Infer, Refresh, GiveUp, Kill, planVars, attemptVars
<1>3. CASE Resolve(c)
  <2>1. PICK route \in Chains(Candidates(c)) : Begin(c, route)
    BY <1>3 DEF Resolve
  <2>2. Candidates(c) \in SUBSET Node
    BY DEF Candidates
  <2>3. UNCHANGED <<pc[d], chain[d], at[d], prefill[d], h[d], tokens[d], ending[d]>>
    <3> HIDE DEF TypeOK, AttemptTypeOK, PlanTypeOK
    <3> QED
      BY <2>1, <2>2, BeginShape
  <2> QED
    BY <1>3, <2>3 DEF Resolve, planVars
<1>4. CASE Hop(c)
  <2>1. PICK lengths, next :
          /\ h' = [h EXCEPT ![c] = lengths]
          /\ \/ pc' = [pc EXCEPT ![c] = "choose"] /\ UNCHANGED at
             \/ at' = [at EXCEPT ![c] = next] /\ UNCHANGED pc
    BY <1>4 DEF Hop
  <2> QED
    BY <1>4, <2>1 DEF Hop, planVars
<1>5. CASE HopFails(c) \/ ChatRejected(c)
  <2>1. ChatFails(c) \/ InferFailsOver(c)
    BY <1>5 DEF HopFails, ChatRejected
  <2>2. UNCHANGED <<pc[d], attempt[d], excluded[d]>>
    BY <2>1 DEF ChatFails, InferFailsOver
  <2>3. UNCHANGED <<chain, at, prefill, h, tokens, ending, up, forgot, stops>>
    BY <1>5 DEF HopFails, ChatRejected, attemptVars
  <2> QED
    BY <2>2, <2>3
<1>6. CASE Stop(c) \/ Emit(c)
  BY <1>6 DEF Stop, Emit, planVars
<1>7. CASE Answer(c) \/ \E n \in Node : EndJob(c, n)
  BY <1>7 DEF Answer, EndJob, planVars, attemptVars
<1> QED
  BY <1>1, <1>2, <1>3, <1>4, <1>5, <1>6, <1>7 DEF Serve, Drive

\* The block the pass goes to after the one it is at.
NextAt(c) ==
    CHOOSE y \in DOMAIN chain[c] : y > at[c] /\
        \A z \in DOMAIN chain[c] : z > at[c] => y <= z

LEMMA NextShape ==
    ASSUME Shape, NEW c \in Client, pc[c] = "call", at[c] # HeadAt(NumLayers)
    PROVE  /\ NextAt(c) \in DOMAIN chain[c] /\ NextAt(c) > at[c]
           /\ \A z \in DOMAIN chain[c] : z > at[c] => NextAt(c) <= z
<1> DEFINE later == {y \in DOMAIN chain[c] : y > at[c]}
<1>1. /\ DOMAIN chain[c] \subseteq 0 .. HeadAt(NumLayers)
      /\ HeadAt(NumLayers) \in DOMAIN chain[c]
      /\ at[c] \in 0 .. HeadAt(NumLayers)
  BY DEF Shape, TypeOK, AttemptTypeOK, RequestWellFormed, Running
<1>2. later \in SUBSET Nat /\ HeadAt(NumLayers) \in later
  BY <1>1, NodeAssumption
<1>3. \E y \in later : \A z \in later : y <= z
  BY <1>2, LeastExists
<1>4. \E y \in DOMAIN chain[c] : y > at[c] /\ \A z \in DOMAIN chain[c] : z > at[c] => y <= z
  BY <1>3
<1> HIDE DEF later
<1> QED
  BY <1>4 DEF NextAt

LEMMA AckedShape ==
    ASSUME Shape, NEW c \in Client, pc[c] = "call"
    PROVE  acked \in [Entry -> [Node -> Nat]] /\ Acked(c) \in [Entry -> [Node -> Nat]]
<1>1. acked \in [Entry -> [Node -> Nat]] /\ chain[c][at[c]] \in Node
  BY DEF Shape, TypeOK, AttemptTypeOK, RequestWellFormed, ChainNodes
<1>2. CASE c \in Entry
  <2>1. [acked[c] EXCEPT ![chain[c][at[c]]] = @ + 1] \in [Node -> Nat]
    BY <1>1, <1>2
  <2> QED
    BY <1>1, <1>2, <2>1 DEF Acked
<1>3. CASE c \notin Entry
  BY <1>1, <1>3 DEF Acked
<1> QED
  BY <1>1, <1>2, <1>3

\* What an answered hop does to its request.
LEMMA HopShape ==
    ASSUME Shape, NEW c \in Client, Hop(c)
    PROVE  /\ pc[c] = "call" /\ chain[c][at[c]] \in up
           /\ kv' = Decoded(c)
           /\ h'[c] = IF at[c] \in Decoders(c) THEN h[c] \cup {kv'[CacheOf(c, at[c])]} ELSE h[c]
           /\ \/ /\ at[c] = HeadAt(NumLayers)
                 /\ pc'[c] = "choose" /\ at'[c] = at[c]
              \/ /\ at[c] # HeadAt(NumLayers)
                 /\ pc'[c] = "call" /\ at'[c] = NextAt(c)
           /\ UNCHANGED <<up, planVars, chain, prefill, tokens, ending, logVars, forgot, stops,
                          upsets>>
           /\ NodeTypeOK' /\ AttemptTypeOK' /\ pc' \in [Client -> PC]
<1> USE DEF Shape, TypeOK, AttemptTypeOK
<1>1. /\ pc[c] = "call" /\ chain[c][at[c]] \in up
      /\ kv' = Decoded(c)
      /\ h' = [h EXCEPT ![c] =
                IF at[c] \in Decoders(c) THEN @ \cup {kv'[CacheOf(c, at[c])]} ELSE @]
      /\ acked' = Acked(c)
      /\ UNCHANGED <<up, planVars, chain, prefill, tokens, ending, logVars, forgot, stops, upsets>>
  BY DEF Hop
<1>2. \/ /\ at[c] = HeadAt(NumLayers)
         /\ pc' = [pc EXCEPT ![c] = "choose"] /\ UNCHANGED at
      \/ /\ at[c] # HeadAt(NumLayers)
         /\ at' = [at EXCEPT ![c] = NextAt(c)] /\ UNCHANGED pc
  BY DEF Hop, NextAt
<1>3. kv' \in [Slots -> Nat]
  BY <1>1, DecodedShape
<1>4. at[c] \in Decoders(c) => kv'[CacheOf(c, at[c])] \in Nat
  <2> HIDE DEF Shape, TypeOK, AttemptTypeOK, Slots
  <2>1. TypeOK
    BY DEF Shape
  <2> QED
    BY <1>3, <2>1, CacheShape
<1> DEFINE new == IF at[c] \in Decoders(c) THEN h[c] \cup {kv'[CacheOf(c, at[c])]} ELSE h[c]
<1>5. new \in SUBSET Nat
  BY <1>4
<1>6. h' = [h EXCEPT ![c] = new]
  BY <1>1
<1> HIDE DEF new
<1>7. h'[c] = new /\ h' \in [Client -> SUBSET Nat]
  BY <1>5, <1>6
<1>8. acked' \in [Entry -> [Node -> Nat]]
  <2> HIDE DEF Shape, TypeOK, AttemptTypeOK
  <2> QED
    BY <1>1, AckedShape
<1>9. \/ /\ at[c] = HeadAt(NumLayers)
         /\ pc'[c] = "choose" /\ at'[c] = at[c]
      \/ /\ at[c] # HeadAt(NumLayers)
         /\ pc'[c] = "call" /\ at'[c] = NextAt(c)
  BY <1>1, <1>2
<1>10. at' \in [Client -> 0 .. HeadAt(NumLayers)] /\ pc' \in [Client -> PC]
  <2>1. at[c] # HeadAt(NumLayers) => NextAt(c) \in 0 .. HeadAt(NumLayers)
    BY <1>1, NextShape
  <2>2. "call" \in PC /\ "choose" \in PC
    BY DEF PC, Running
  <2>3. at \in [Client -> 0 .. HeadAt(NumLayers)] /\ pc \in [Client -> PC]
    BY DEF Shape, TypeOK, AttemptTypeOK
  <2> HIDE DEF Shape, TypeOK, AttemptTypeOK, PC
  <2>4. CASE pc' = [pc EXCEPT ![c] = "choose"] /\ UNCHANGED at
    BY <2>2, <2>3, <2>4
  <2>5. CASE at[c] # HeadAt(NumLayers) /\ at' = [at EXCEPT ![c] = NextAt(c)] /\ UNCHANGED pc
    BY <2>1, <2>3, <2>5
  <2> QED
    BY <1>2, <2>4, <2>5
<1>11. NodeTypeOK'
  BY <1>1, <1>3 DEF NodeTypeOK, Slots
<1>12. AttemptTypeOK'
  BY <1>1, <1>7, <1>8, <1>10 DEF ChainNodes
<1> QED
  BY <1>1, <1>7, <1>9, <1>10, <1>11, <1>12 DEF new

\* An attempt that begins is well formed.
LEMMA BegunWellFormed ==
    ASSUME Shape, NEW c \in Client, NEW nodes \in SUBSET Node, NEW route \in Chains(nodes),
           Begin(c, route)
    PROVE  RequestWellFormed(c)'
<1>1. /\ chain'[c] = route /\ at'[c] = EmbedAt /\ tokens'[c] = tokens[c]
      /\ \/ Len(tokens[c]) < MaxNew[c] /\ pc'[c] = "call"
         \/ pc'[c] = "end"
  BY BeginShape DEF Shape
<1>2. {EmbedAt, BlockAt(0), HeadAt(NumLayers)} \subseteq DOMAIN route
  BY ChainShape
<1> QED
  BY <1>1, <1>2 DEF RequestWellFormed

LEMMA ShapeAsk ==
    ASSUME Shape, NEW c \in Client,
           Chat(c) \/ Infer(c) \/ Resolve(c) \/ Refresh(c) \/ GiveUp(c) \/ Kill(c)
    PROVE  TypeOK' /\ RequestWellFormed(c)'
<1>0. TypeOK /\ RequestWellFormed(c)
  BY DEF Shape
<1>1. CASE Chat(c)
  <2>0. UNCHANGED <<up, kv, planVars, forgot, stops, upsets>> /\ c \in Entry
    BY <1>1 DEF Chat
  <2>1. CASE \E nodes \in SUBSET Node : \E route \in Chains(nodes) :
                Begin(c, route) /\ Write(CreateJob(rows, c), receipts)
    <3> PICK nodes \in SUBSET Node : \E route \in Chains(nodes) :
                Begin(c, route) /\ Write(CreateJob(rows, c), receipts)
      BY <2>1
    <3> PICK route \in Chains(nodes) : Begin(c, route) /\ Write(CreateJob(rows, c), receipts)
      OBVIOUS
    <3>1. AttemptTypeOK' /\ pc' \in [Client -> PC]
      BY <1>0, BeginShape
    <3>2. LogTypeOK'
      <4>1. CreateJob(rows, c) \in [Entry -> Row]
        BY <1>0, <2>0 DEF TypeOK, LogTypeOK, CreateJob, NewRow, Row, Statuses
      <4> QED
        BY <1>0, <4>1, WriteShape DEF TypeOK, LogTypeOK
    <3>3. RequestWellFormed(c)'
      BY BegunWellFormed
    <3> QED
      BY <1>0, <2>0, <3>1, <3>2, <3>3 DEF TypeOK, NodeTypeOK, PlanTypeOK, planVars
  <2>2. CASE pc' = [pc EXCEPT ![c] = "refused"] /\ UNCHANGED <<attemptVars, logVars>>
    <3>1. TypeOK'
      BY <1>0, <2>0, <2>2 DEF TypeOK, NodeTypeOK, PlanTypeOK, planVars, AttemptTypeOK,
            LogTypeOK, attemptVars, logVars, PC, Over, ChainNodes
    <3> QED
      BY <1>0, <2>2, <3>1 DEF RequestWellFormed, Running, TypeOK
  <2> QED
    BY <1>1, <2>1, <2>2 DEF Chat
<1>2. CASE Infer(c) \/ Refresh(c) \/ GiveUp(c) \/ Kill(c)
  <2>1. /\ UNCHANGED <<up, kv, attempt, excluded, attemptVars, logVars, forgot, stops>>
        /\ \E place \in {"cover", "refused", "cut"} :
             /\ pc' = [pc EXCEPT ![c] = place]
             /\ place = "cover" => c \notin Entry
        /\ upsets' = upsets \/ (upsets < MaxUpsets /\ upsets' = upsets + 1)
        /\ known' = known \/ \E nodes \in SUBSET Node : known' = [known EXCEPT ![c] = nodes]
    <3>1. CASE Refresh(c)
      <4>1. pc' = [pc EXCEPT ![c] = "cover"] /\ c \notin Entry
        BY <1>0, <3>1 DEF Refresh, TypeOK, RequestWellFormed
      <4> QED
        BY <3>1, <4>1 DEF Refresh
    <3>2. CASE Infer(c) \/ GiveUp(c) \/ Kill(c)
      BY <3>2 DEF Infer, GiveUp, Kill, Upset, planVars
    <3> QED
      BY <1>2, <3>1, <3>2
  <2>2. TypeOK'
    <3>1. pc' \in [Client -> PC]
      BY <1>0, <2>1 DEF TypeOK, PC, Over
    <3>2. upsets' \in 0 .. MaxUpsets
      BY <1>0, <2>1, BoundAssumption DEF TypeOK
    <3>3. PlanTypeOK'
      BY <1>0, <2>1 DEF TypeOK, PlanTypeOK
    <3>4. AttemptTypeOK'
      BY <1>0, <2>1 DEF TypeOK, AttemptTypeOK, attemptVars, ChainNodes
    <3> QED
      BY <1>0, <2>1, <3>1, <3>2, <3>3, <3>4 DEF TypeOK, NodeTypeOK, LogTypeOK, logVars
  <2> QED
    BY <1>0, <2>1, <2>2 DEF RequestWellFormed, Running, TypeOK
<1>3. CASE Resolve(c)
  <2>1. PICK route \in Chains(Candidates(c)) : Begin(c, route)
    BY <1>3 DEF Resolve
  <2>2. Candidates(c) \in SUBSET Node
    BY <1>0 DEF Candidates, TypeOK, PlanTypeOK
  <2>3. AttemptTypeOK' /\ pc' \in [Client -> PC]
    BY <1>0, <2>1, <2>2, BeginShape
  <2>4. UNCHANGED <<up, kv, planVars, logVars, forgot, stops, upsets>>
    BY <1>3 DEF Resolve
  <2>5. RequestWellFormed(c)'
    BY <2>1, <2>2, BegunWellFormed
  <2> QED
    BY <1>0, <2>3, <2>4, <2>5 DEF TypeOK, NodeTypeOK, PlanTypeOK, planVars, LogTypeOK, logVars
<1> QED
  BY <1>1, <1>2, <1>3

\* What a failed hop does to its request.
LEMMA FailShape ==
    ASSUME Shape, NEW c \in Client, HopFails(c) \/ ChatRejected(c)
    PROVE  /\ pc[c] = "call"
           /\ UNCHANGED <<up, known, chain, at, prefill, h, tokens, ending, forgot, stops>>
           /\ \/ UNCHANGED <<kv, upsets>>
              \/ UNCHANGED <<kv, up>> /\ chain[c][at[c]] \in up /\ Upset
              \/ kv' = Decoded(c) /\ chain[c][at[c]] \in up /\ Upset
           /\ acked' = acked \/ acked' = Acked(c)
           /\ \/ /\ c \in Entry
                 /\ pc'[c] = "refused"
                 /\ Write(Fail(rows, c), AddReceipts(receipts, c, acked'[c]))
                 /\ UNCHANGED <<attempt, excluded>>
              \/ /\ c \notin Entry
                 /\ excluded'[c] = excluded[c] \cup {chain[c][at[c]]}
                 /\ \/ pc'[c] = "cover" /\ attempt[c] < MaxFailovers /\ attempt'[c] = attempt[c] + 1
                    \/ pc'[c] = "refused" /\ attempt'[c] = attempt[c]
                 /\ UNCHANGED logVars
           /\ TypeOK'
<1> USE DEF Shape
<1>1. /\ pc[c] = "call" /\ at[c] \in DOMAIN chain[c] /\ chain[c][at[c]] \in Node
      /\ UNCHANGED <<up, known, chain, at, prefill, h, tokens, ending, forgot, stops>>
  BY DEF HopFails, ChatRejected, attemptVars, RequestWellFormed, ChainNodes, TypeOK, AttemptTypeOK
<1>2. /\ \/ UNCHANGED <<kv, upsets>>
         \/ UNCHANGED <<kv, up>> /\ chain[c][at[c]] \in up /\ Upset
         \/ kv' = Decoded(c) /\ chain[c][at[c]] \in up /\ Upset
      /\ acked' = acked \/ acked' = Acked(c)
  BY DEF HopFails, ChatRejected, attemptVars
<1>3. NodeTypeOK' /\ upsets' \in 0 .. MaxUpsets
  <2>1. kv' \in [Slots -> Nat]
    BY <1>2, DecodedShape DEF TypeOK, NodeTypeOK, Slots
  <2>2. upsets' \in 0 .. MaxUpsets
    BY <1>2, BoundAssumption DEF TypeOK, Upset
  <2> QED
    BY <1>1, <2>1, <2>2 DEF TypeOK, NodeTypeOK, Slots
<1>4. acked' \in [Entry -> [Node -> Nat]]
  BY <1>1, <1>2, AckedShape
<1>5. AttemptTypeOK'
  BY <1>1, <1>4 DEF TypeOK, AttemptTypeOK, ChainNodes
<1>6. CASE ChatFails(c)
  <2>1. /\ c \in Entry /\ pc' = [pc EXCEPT ![c] = "refused"]
        /\ Write(Fail(rows, c), AddReceipts(receipts, c, acked'[c]))
        /\ UNCHANGED <<attempt, excluded>>
    BY <1>6 DEF ChatFails
  <2>2. LogTypeOK'
    <3>1. AddReceipts(receipts, c, acked'[c]) \in [Entry -> [Node -> Nat]]
      BY <1>4, <2>1, ReceiptsShape DEF TypeOK, LogTypeOK
    <3>2. Fail(rows, c) \in [Entry -> Row]
      <4>1. <<>> \in Seq(Token)
        OBVIOUS
      <4> QED
        BY <2>1, <4>1, RowsShape DEF TypeOK, LogTypeOK
    <3> QED
      BY <2>1, <3>1, <3>2, WriteShape DEF TypeOK
  <2>3. pc'[c] = "refused" /\ pc' \in [Client -> PC]
    BY <2>1 DEF TypeOK, PC, Over
  <2>4. TypeOK'
    BY <1>1, <1>3, <1>5, <2>1, <2>2, <2>3 DEF TypeOK, PlanTypeOK
  <2> QED
    BY <1>1, <1>2, <2>1, <2>3, <2>4
<1>7. CASE InferFailsOver(c)
  <2>1. /\ c \notin Entry /\ UNCHANGED logVars
        /\ excluded' = [excluded EXCEPT ![c] = @ \cup {chain[c][at[c]]}]
        /\ \/ /\ attempt[c] < MaxFailovers
              /\ attempt' = [attempt EXCEPT ![c] = @ + 1]
              /\ pc' = [pc EXCEPT ![c] = "cover"]
           \/ pc' = [pc EXCEPT ![c] = "refused"] /\ UNCHANGED attempt
    BY <1>7 DEF InferFailsOver
  <2>2. /\ excluded'[c] = excluded[c] \cup {chain[c][at[c]]}
        /\ \/ pc'[c] = "cover" /\ attempt[c] < MaxFailovers /\ attempt'[c] = attempt[c] + 1
           \/ pc'[c] = "refused" /\ attempt'[c] = attempt[c]
    BY <2>1 DEF TypeOK, PlanTypeOK
  <2>3. pc' \in [Client -> PC]
    BY <2>1 DEF TypeOK, PC, Over
  <2>4. PlanTypeOK'
    BY <1>1, <2>1, BoundAssumption DEF TypeOK, PlanTypeOK
  <2>5. TypeOK'
    BY <1>1, <1>3, <1>5, <2>1, <2>3, <2>4 DEF TypeOK, LogTypeOK, logVars
  <2> QED
    BY <1>1, <1>2, <2>1, <2>2, <2>5
<1> QED
  BY <1>6, <1>7 DEF HopFails, ChatRejected

LEMMA ShapePass ==
    ASSUME Shape, NEW c \in Client, Hop(c) \/ HopFails(c) \/ ChatRejected(c) \/ Stop(c) \/ Emit(c)
    PROVE  TypeOK' /\ RequestWellFormed(c)'
<1>0. TypeOK /\ RequestWellFormed(c)
  BY DEF Shape
<1>1. CASE Hop(c)
  <2>1. /\ pc[c] = "call"
        /\ \/ at[c] = HeadAt(NumLayers) /\ pc'[c] = "choose" /\ at'[c] = at[c]
           \/ at[c] # HeadAt(NumLayers) /\ pc'[c] = "call" /\ at'[c] = NextAt(c)
        /\ UNCHANGED <<up, planVars, chain, prefill, tokens, ending, logVars, forgot, stops, upsets>>
        /\ NodeTypeOK' /\ AttemptTypeOK' /\ pc' \in [Client -> PC]
    BY <1>1, HopShape
  <2>2. TypeOK'
    BY <1>0, <2>1 DEF TypeOK, PlanTypeOK, planVars, LogTypeOK, logVars
  <2>3. at[c] # HeadAt(NumLayers) => NextAt(c) \in DOMAIN chain[c]
    BY <2>1, NextShape
  <2> QED
    BY <1>0, <2>1, <2>2, <2>3 DEF RequestWellFormed, Running
<1>2. CASE HopFails(c) \/ ChatRejected(c)
  <2>1. /\ TypeOK' /\ pc[c] = "call"
        /\ pc'[c] = "refused" \/ (pc'[c] = "cover" /\ c \notin Entry)
    BY <1>2, FailShape
  <2> QED
    BY <1>0, <2>1 DEF RequestWellFormed, Running
<1>3. CASE Stop(c) \/ Emit(c)
  <2>1. UNCHANGED <<up, kv, planVars, chain, acked, logVars, forgot, stops, upsets>>
        /\ pc[c] = "choose"
    BY <1>3 DEF Stop, Emit
  <2>2. Len(tokens[c]) < MaxNew[c] /\ Produced(c) \in Token /\ tokens[c] \in Seq(Token)
    BY <1>0, <2>1, ProducedShape DEF RequestWellFormed, TypeOK, AttemptTypeOK
  <2>3. EndTargets(chain[c]) \in SUBSET Node
    BY <1>0 DEF EndTargets, ChainNodes, TypeOK, AttemptTypeOK
  <2>4. /\ tokens' \in [Client -> Seq(Token)]
        /\ \A d \in Client : Len(tokens'[d]) <= MaxNew[d]
        /\ Emit(c) => Len(tokens'[c]) = Len(tokens[c]) + 1
    <3>1. CASE Stop(c)
      BY <1>0, <3>1 DEF Stop, Emit, TypeOK, AttemptTypeOK
    <3>2. CASE Emit(c)
      <4>1. tokens' = [tokens EXCEPT ![c] = Append(tokens[c], Produced(c))]
        BY <3>2 DEF Emit
      <4>2. Append(tokens[c], Produced(c)) \in Seq(Token)
            /\ Len(Append(tokens[c], Produced(c))) = Len(tokens[c]) + 1
        BY <2>2
      <4>3. Len(tokens[c]) + 1 <= MaxNew[c]
        BY <2>2, ClientAssumption
      <4> QED
        BY <1>0, <4>1, <4>2, <4>3 DEF TypeOK, AttemptTypeOK
    <3> QED
      BY <1>3, <3>1, <3>2
  <2>5. \/ /\ pc' = [pc EXCEPT ![c] = "end"] /\ UNCHANGED <<at, prefill, h>>
           /\ ending' = [ending EXCEPT ![c] = EndTargets(chain[c])]
        \/ /\ pc' = [pc EXCEPT ![c] = "call"] /\ UNCHANGED ending
           /\ Len(tokens[c]) + 1 < MaxNew[c] /\ Emit(c)
           /\ at' = [at EXCEPT ![c] = EmbedAt]
           /\ prefill' = [prefill EXCEPT ![c] = FALSE]
           /\ h' = [h EXCEPT ![c] = {}]
    BY <1>3 DEF Stop, Emit
  <2> HIDE DEF EndTargets
  <2>6. AttemptTypeOK'
    <3>1. ending' \in [Client -> SUBSET Node]
      BY <1>0, <2>3, <2>5 DEF TypeOK, AttemptTypeOK
    <3>2. at' \in [Client -> 0 .. HeadAt(NumLayers)]
      <4>1. at \in [Client -> 0 .. HeadAt(NumLayers)] /\ EmbedAt \in 0 .. HeadAt(NumLayers)
        BY <1>0, NodeAssumption DEF TypeOK, AttemptTypeOK
      <4> QED
        BY <2>5, <4>1
    <3>3. prefill' \in [Client -> BOOLEAN]
      BY <1>0, <2>5 DEF TypeOK, AttemptTypeOK
    <3>4. h' \in [Client -> SUBSET Nat]
      <4>1. h \in [Client -> SUBSET Nat]
        BY <1>0 DEF TypeOK, AttemptTypeOK
      <4> QED
        BY <2>5, <4>1
    <3> QED
      BY <1>0, <2>1, <2>4, <3>1, <3>2, <3>3, <3>4 DEF TypeOK, AttemptTypeOK, ChainNodes
  <2>7. TypeOK'
    BY <1>0, <2>1, <2>5, <2>6 DEF TypeOK, NodeTypeOK, PlanTypeOK, planVars, LogTypeOK, logVars,
          PC, Running
  <2>8. RequestWellFormed(c)'
    <3>1. \/ pc'[c] = "end"
          \/ pc'[c] = "call" /\ at'[c] = EmbedAt /\ Len(tokens'[c]) < MaxNew[c]
      BY <1>0, <2>4, <2>5 DEF TypeOK, AttemptTypeOK
    <3> QED
      BY <1>0, <2>1, <3>1 DEF RequestWellFormed, Running
  <2> QED
    BY <2>7, <2>8
<1> QED
  BY <1>1, <1>2, <1>3

LEMMA ShapeEnd ==
    ASSUME Shape, NEW c \in Client, Answer(c) \/ \E n \in Node : EndJob(c, n)
    PROVE  TypeOK' /\ RequestWellFormed(c)'
<1>0. TypeOK /\ RequestWellFormed(c)
  BY DEF Shape
<1>1. CASE \E n \in Node : EndJob(c, n)
  <2> PICK n \in Node : EndJob(c, n)
    BY <1>1
  <2>1. /\ UNCHANGED <<up, pc, planVars, chain, at, prefill, h, tokens, acked, logVars, forgot, stops>>
        /\ ending' = [ending EXCEPT ![c] = @ \ {n}]
        /\ \/ kv' = [x \in DOMAIN kv |-> IF x[1] = n /\ x[2] = JobOf(c) THEN 0 ELSE kv[x]]
              /\ UNCHANGED upsets
           \/ UNCHANGED kv /\ (UNCHANGED upsets \/ Upset)
    BY DEF EndJob
  <2>2. NodeTypeOK' /\ upsets' \in 0 .. MaxUpsets
    <3>1. kv \in [Slots -> Nat]
      BY <1>0 DEF TypeOK, NodeTypeOK, Slots
    <3>2. kv' \in [Slots -> Nat]
      <4> HIDE DEF Slots
      <4> QED
        BY <2>1, <3>1
    <3> QED
      BY <1>0, <2>1, <3>2, BoundAssumption DEF TypeOK, NodeTypeOK, Slots, Upset
  <2>3. AttemptTypeOK'
    <3>1. ending' \in [Client -> SUBSET Node]
      BY <1>0, <2>1 DEF TypeOK, AttemptTypeOK
    <3> QED
      BY <1>0, <2>1, <3>1 DEF TypeOK, AttemptTypeOK, ChainNodes
  <2>4. TypeOK'
    BY <1>0, <2>1, <2>2, <2>3 DEF TypeOK, PlanTypeOK, planVars, LogTypeOK, logVars
  <2> QED
    BY <1>0, <2>1, <2>4 DEF RequestWellFormed, planVars
<1>2. CASE Answer(c)
  <2>1. /\ pc[c] = "end" /\ pc' = [pc EXCEPT ![c] = "done"]
        /\ UNCHANGED <<up, kv, planVars, attemptVars, forgot, stops, upsets>>
    BY <1>2 DEF Answer
  <2>2. LogTypeOK'
    <3>1. CASE c \in Entry
      <4>1. Finish(rows, c, tokens[c]) \in [Entry -> Row]
        BY <1>0, <3>1, RowsShape DEF TypeOK, LogTypeOK, AttemptTypeOK
      <4>2. AddReceipts(receipts, c, acked[c]) \in [Entry -> [Node -> Nat]]
        BY <1>0, <3>1, ReceiptsShape DEF TypeOK, LogTypeOK, AttemptTypeOK
      <4> QED
        BY <1>0, <1>2, <3>1, <4>1, <4>2, WriteShape DEF Answer, TypeOK
    <3>2. CASE c \notin Entry
      BY <1>0, <1>2, <3>2 DEF Answer, TypeOK, LogTypeOK, logVars
    <3> QED
      BY <3>1, <3>2
  <2>3. pc'[c] = "done" /\ pc' \in [Client -> PC]
    BY <1>0, <2>1 DEF TypeOK, PC, Over
  <2>4. AttemptTypeOK'
    BY <1>0, <2>1 DEF TypeOK, AttemptTypeOK, attemptVars, ChainNodes
  <2>5. TypeOK'
    BY <1>0, <2>1, <2>2, <2>3, <2>4 DEF TypeOK, NodeTypeOK, PlanTypeOK, planVars
  <2> QED
    BY <2>3, <2>5 DEF RequestWellFormed, Running
<1> QED
  BY <1>1, <1>2

LEMMA ShapeServe ==
    ASSUME Shape, NEW c \in Client, Serve(c)
    PROVE  Shape'
<1>1. TypeOK' /\ RequestWellFormed(c)'
  BY ShapeAsk, ShapePass, ShapeEnd DEF Serve, Drive
<1>2. ASSUME NEW d \in Client, d # c PROVE RequestWellFormed(d)'
  <2>1. UNCHANGED TaskOf(d)
    BY <1>2, OthersKept DEF Shape
  <2> QED
    BY <2>1, WellFormedKept DEF Shape
<1> QED
  BY <1>1, <1>2 DEF Shape

\* A node stops: its caches are gone and the chats it drove are cut.
LEMMA StopShape ==
    ASSUME Shape, NEW n \in Node, StopNode(n)
    PROVE  /\ n \in up /\ up' = up \ {n}
           /\ kv' \in [Slots -> Nat]
           /\ \A k \in Slots : kv'[k] = IF k[1] = n THEN 0 ELSE kv[k]
           /\ \A c \in Client : pc'[c] =
                IF c \in Entry /\ pc[c] \in Running /\ Home[c] = n THEN "cut" ELSE pc[c]
           /\ \A c \in Client : forgot'[c] = (forgot[c] \/ HoldsCaches(c, n))
           /\ UNCHANGED <<planVars, attemptVars, logVars, upsets>>
           /\ Shape'
<1>0. TypeOK /\ \A c \in Client : RequestWellFormed(c)
  BY DEF Shape
<1>1. /\ n \in up /\ up' = up \ {n}
      /\ stops < MaxStops /\ stops' = stops + 1
      /\ UNCHANGED <<planVars, attemptVars, logVars, upsets>>
      /\ kv' = [x \in DOMAIN kv |-> IF x[1] = n THEN 0 ELSE kv[x]]
      /\ pc' = [c \in Client |->
                IF c \in Entry /\ pc[c] \in Running /\ Home[c] = n THEN "cut" ELSE pc[c]]
      /\ forgot' = [c \in Client |-> forgot[c] \/ HoldsCaches(c, n)]
  BY DEF StopNode
<1>2. kv \in [Slots -> Nat]
  BY <1>0 DEF TypeOK, NodeTypeOK, Slots
<1>3. /\ kv' \in [Slots -> Nat]
      /\ \A k \in Slots : kv'[k] = IF k[1] = n THEN 0 ELSE kv[k]
  <2> HIDE DEF Slots
  <2> QED
    BY <1>1, <1>2
<1>4. \A c \in Client : pc'[c] =
        IF c \in Entry /\ pc[c] \in Running /\ Home[c] = n THEN "cut" ELSE pc[c]
  BY <1>1
<1>5. \A c \in Client : forgot'[c] = (forgot[c] \/ HoldsCaches(c, n))
  BY <1>1
<1>6. pc' \in [Client -> PC] /\ forgot' \in [Client -> BOOLEAN]
  <2>1. pc' \in [Client -> PC]
    BY <1>0, <1>1 DEF TypeOK, PC, Over
  <2>2. \A c \in Client : (forgot[c] \/ HoldsCaches(c, n)) \in BOOLEAN
    OBVIOUS
  <2> QED
    BY <1>1, <2>1, <2>2
<1>7. AttemptTypeOK'
  BY <1>0, <1>1 DEF TypeOK, AttemptTypeOK, attemptVars, ChainNodes
<1>8. TypeOK'
  BY <1>0, <1>1, <1>3, <1>6, <1>7, BoundAssumption DEF TypeOK, NodeTypeOK, PlanTypeOK, planVars,
     LogTypeOK, logVars, Slots
<1>9. \A c \in Client : RequestWellFormed(c)'
  BY <1>0, <1>1, <1>4 DEF RequestWellFormed, Running, planVars, attemptVars
<1> QED
  BY <1>1, <1>3, <1>4, <1>5, <1>8, <1>9 DEF Shape

\* A node starts: all that changes is what its log says.
LEMMA StartShape ==
    ASSUME Shape, NEW n \in Node, StartNode(n)
    PROVE  /\ n \notin up /\ up' = up \cup {n}
           /\ UNCHANGED <<kv, pc, planVars, attemptVars, forgot, stops, upsets>>
           /\ Shape'
<1>0. TypeOK /\ \A c \in Client : RequestWellFormed(c)
  BY DEF Shape
<1> DEFINE recovered == [c \in Entry |-> IF Home[c] = n THEN Recover(rows)[c] ELSE rows[c]]
<1>1. /\ n \notin up /\ up' = up \cup {n}
      /\ UNCHANGED <<kv, pc, planVars, attemptVars, forgot, stops, upsets>>
      /\ Write(recovered, receipts)
  BY DEF StartNode
<1>2. recovered \in [Entry -> Row]
  <2>1. rows \in [Entry -> Row]
    BY <1>0 DEF TypeOK, LogTypeOK
  <2>2. \A c \in Entry : Recover(rows)[c] \in Row
    BY <2>1 DEF Recover, Row, Statuses
  <2> QED
    BY <2>1, <2>2
<1> HIDE DEF recovered
<1>3. LogTypeOK'
  BY <1>0, <1>1, <1>2, WriteShape DEF TypeOK, LogTypeOK
<1>4. AttemptTypeOK'
  BY <1>0, <1>1 DEF TypeOK, AttemptTypeOK, attemptVars, ChainNodes
<1>5. TypeOK'
  BY <1>0, <1>1, <1>3, <1>4 DEF TypeOK, NodeTypeOK, PlanTypeOK, planVars
<1>6. \A c \in Client : RequestWellFormed(c)'
  BY <1>0, <1>1 DEF RequestWellFormed, planVars, attemptVars
<1> QED
  BY <1>1, <1>5, <1>6 DEF Shape

LEMMA ShapeStutters == Shape /\ UNCHANGED vars => Shape'
<1> SUFFICES ASSUME Shape, UNCHANGED vars PROVE Shape'
  OBVIOUS
<1>1. AttemptTypeOK'
  BY DEF Shape, TypeOK, AttemptTypeOK, ChainNodes, vars, attemptVars
<1>2. TypeOK'
  BY <1>1 DEF Shape, TypeOK, NodeTypeOK, PlanTypeOK, LogTypeOK, vars, planVars, logVars
<1>3. \A c \in Client : RequestWellFormed(c)'
  BY DEF Shape, RequestWellFormed, vars, planVars, attemptVars
<1> QED
  BY <1>2, <1>3 DEF Shape

\* A step is a step of a request, a node that stops or starts, or a stutter.
LEMMA Steps ==
    [Next]_vars => \/ \E c \in Client : Serve(c)
                   \/ \E n \in Node : StopNode(n) \/ StartNode(n)
                   \/ UNCHANGED vars
BY DEF Next, Serve, Quiescent

LEMMA ShapeNext == Shape /\ [Next]_vars => Shape'
BY Steps, ShapeServe, StopShape, StartShape, ShapeStutters

\* Every variable holds what its comment says; a request that runs has a chain
\* and stands in it.
THEOREM TypeCorrect == Spec => [](TypeOK /\ \A c \in Client : RequestWellFormed(c))
<1>1. Spec => []Shape
  BY ShapeInit, ShapeNext, PTL DEF Spec
<1> QED
  BY <1>1, PTL DEF Shape

-----------------------------------------------------------------------------
(* Every running request has a way through the whole model *)

\* The nodes of a running request serve the stages it runs on them, and these
\* are the whole model, each layer once.
RunningChainsAreWhole ==
    \A c \in Client : pc[c] \in Running => RunsWholeModel(Stages, NumLayers, chain[c])

\* What build_chain makes of the nodes a registry lists.
LEMMA ListedChains ==
    ASSUME NEW nodes \in SUBSET Node
    PROVE  /\ HasChain([n \in nodes |-> Stages[n]], NumLayers) <=> Chains(nodes) # {}
           /\ \A route \in Chains(nodes) : RunsWholeModel(Stages, NumLayers, route)
<1> DEFINE swarm == [n \in nodes |-> Stages[n]]
           rank == [n \in nodes |-> [reputation |-> 0, speed |-> 0, load |-> 0]]
<1>1. Chains(nodes) = BuildChain(swarm, NumLayers, rank)
  BY DEF Chains
<1>2. DOMAIN swarm = nodes /\ \A n \in nodes : swarm[n] = Stages[n]
  OBVIOUS
<1>3. Ranking(rank, nodes)
  BY DEF Ranking
<1> HIDE DEF swarm, rank
<1>4. IsSwarmOf(swarm, rank)
  <2>1. IsFiniteSet(nodes)
    BY NodeAssumption, FS_Subset
  <2>2. \A n \in nodes : FiniteBlocks(swarm[n].decoders)
    BY <1>2, NodeAssumption DEF FiniteBlocks
  <2> QED
    BY <1>2, <1>3, <2>1, <2>2 DEF IsSwarmOf
<1>5. HasChain(swarm, NumLayers) <=> Chains(nodes) # {}
  BY <1>1, <1>4, ChainWhenPossible, NodeAssumption
<1>6. ASSUME NEW route \in Chains(nodes) PROVE RunsWholeModel(Stages, NumLayers, route)
  <2>1. RunsWholeModel(swarm, NumLayers, route)
    BY <1>1, <1>4, ChainsServe, NodeAssumption
  <2>2. \A x \in DOMAIN route : route[x] \in nodes /\ route[x] \in DOMAIN Stages
    BY <1>2, <2>1, NodeAssumption DEF RunsWholeModel
  <2> QED
    BY <1>2, <2>1, <2>2 DEF RunsWholeModel
<1> QED
  BY <1>5, <1>6 DEF swarm

LEMMA WholeNext == Shape /\ RunningChainsAreWhole /\ [Next]_vars => RunningChainsAreWhole'
<1> SUFFICES ASSUME Shape, RunningChainsAreWhole, [Next]_vars, NEW c \in Client, pc'[c] \in Running
             PROVE  RunsWholeModel(Stages, NumLayers, chain'[c])
  BY DEF RunningChainsAreWhole
<1>0. TypeOK /\ AttemptTypeOK /\ \A k \in Client : Candidates(k) \in SUBSET Node
  BY DEF Shape, TypeOK, PlanTypeOK, Candidates
<1>1. ASSUME NEW nodes \in SUBSET Node, NEW route \in Chains(nodes), Begin(c, route)
      PROVE  RunsWholeModel(Stages, NumLayers, chain'[c])
  <2>1. chain'[c] = route
    BY <1>0, <1>1, BeginShape
  <2> QED
    BY <1>1, <2>1, ListedChains
<1>2. CASE UNCHANGED chain /\ pc[c] \in Running
  BY <1>2 DEF RunningChainsAreWhole
<1>3. CASE Serve(c)
  <2>1. CASE Chat(c)
    <3>1. \/ \E nodes \in SUBSET Node : \E route \in Chains(nodes) : Begin(c, route)
          \/ pc' = [pc EXCEPT ![c] = "refused"]
      BY <2>1 DEF Chat
    <3>2. pc' # [pc EXCEPT ![c] = "refused"]
      BY <1>0 DEF TypeOK, Running
    <3> QED
      BY <1>1, <3>1, <3>2
  <2>2. CASE Resolve(c)
    BY <1>0, <1>1, <2>2 DEF Resolve
  <2>3. CASE Infer(c) \/ Refresh(c) \/ GiveUp(c)
    <3>1. pc'[c] \notin Running
      BY <1>0, <2>3 DEF Infer, Refresh, GiveUp, TypeOK, Running
    <3> QED
      BY <3>1
  <2>4. CASE Hop(c) \/ Stop(c) \/ Emit(c) \/ \E n \in Node : EndJob(c, n)
    <3>1. UNCHANGED chain /\ pc[c] \in {"call", "choose", "end"}
      BY <2>4 DEF Hop, Stop, Emit, EndJob
    <3> QED
      BY <1>2, <3>1 DEF Running
  <2>5. CASE HopFails(c) \/ ChatRejected(c) \/ Answer(c) \/ Kill(c)
    <3>1. pc'[c] \in {"refused", "cover", "done", "cut"}
      BY <1>0, <2>5 DEF HopFails, ChatRejected, ChatFails, InferFailsOver, Answer, Kill, TypeOK
    <3> QED
      BY <3>1 DEF Running
  <2> QED
    BY <1>3, <2>1, <2>2, <2>3, <2>4, <2>5 DEF Serve, Drive
<1>4. ASSUME NEW d \in Client, d # c, Serve(d) PROVE UNCHANGED chain[c] /\ pc[c] \in Running
  <2>1. UNCHANGED TaskOf(c)
    BY <1>4, OthersKept DEF Shape
  <2> QED
    BY <2>1 DEF TaskOf
<1>5. ASSUME NEW n \in Node, StopNode(n) \/ StartNode(n) PROVE UNCHANGED chain /\ pc[c] \in Running
  BY <1>0, <1>5 DEF StopNode, StartNode, attemptVars, Running, TypeOK
<1>6. CASE UNCHANGED vars
  BY <1>2, <1>6 DEF vars, attemptVars
<1>7. UNCHANGED chain[c] /\ pc[c] \in Running => RunsWholeModel(Stages, NumLayers, chain'[c])
  BY DEF RunningChainsAreWhole
<1> QED
  BY <1>2, <1>3, <1>4, <1>5, <1>6, <1>7, Steps

\* RunningChainsAreWhole: whatever a registry listed, dead nodes or too few, the
\* chain a chat or `infer --peer` goes through is the whole model, each layer once
\* and in order, on nodes that serve it.
THEOREM RequestsRunWholeModel == Spec => []RunningChainsAreWhole
<1>1. Init => RunningChainsAreWhole
  BY DEF Init, RunningChainsAreWhole, Running
<1> QED
  BY <1>1, ShapeInit, ShapeNext, WholeNext, PTL DEF Spec

-----------------------------------------------------------------------------
(* Requests advance *)

\* What a request has left is counted.
LEMMA LeftCounts ==
    ASSUME TypeOK, NEW c \in Client
    PROVE  Left(c) \in Fourfold
<1>1. MaxFailovers - attempt[c] \in Nat
  BY BoundAssumption DEF TypeOK, PlanTypeOK
<1>2. PhasesLeft(c) \in Nat
  <2>1. pc[c] \in {"idle", "cover", "call", "choose", "end", "done", "refused", "cut"}
    BY DEF TypeOK, PC, Running, Over
  <2> QED
    BY <2>1 DEF PhasesLeft, Over
<1>3. MaxNew[c] - Len(tokens[c]) \in Nat
  BY ClientAssumption DEF TypeOK, AttemptTypeOK
<1>4. CallsLeft(c) \in Nat
  <2>1. HeadAt(NumLayers) + 1 - at[c] \in Nat
    BY NodeAssumption DEF TypeOK, AttemptTypeOK
  <2>2. Cardinality(ending[c]) \in Nat
    <3>1. IsFiniteSet(ending[c])
      BY NodeAssumption, FS_Subset DEF TypeOK, AttemptTypeOK
    <3> QED
      BY <3>1, FS_CardinalityType
  <2>3. CASE pc[c] = "call"
    BY <2>1, <2>3 DEF CallsLeft
  <2>4. CASE pc[c] = "end"
    BY <2>2, <2>4 DEF CallsLeft
  <2>5. CASE pc[c] \notin {"call", "end"}
    BY <2>5 DEF CallsLeft
  <2> QED
    BY <2>3, <2>4, <2>5
<1> QED
  BY <1>1, <1>2, <1>3, <1>4 DEF Left, Fourfold

\* A phase that is over.
LEMMA PhaseOver ==
    ASSUME Shape, NEW c \in Client, attempt'[c] = attempt[c],
           PhasesLeft(c)' \in Nat, PhasesLeft(c)' < PhasesLeft(c)
    PROVE  Less(Left(c)', Left(c))
BY LessAt DEF Left

LEMMA PhaseValues ==
    ASSUME NEW c \in Client
    PROVE  /\ pc[c] = "idle" => PhasesLeft(c) = 4
           /\ pc[c] = "cover" => PhasesLeft(c) = 3
           /\ pc[c] \in {"call", "choose"} => PhasesLeft(c) = 2
           /\ pc[c] = "end" => PhasesLeft(c) = 1
           /\ pc[c] \in Over => PhasesLeft(c) = 0
           /\ pc'[c] = "idle" => PhasesLeft(c)' = 4
           /\ pc'[c] = "cover" => PhasesLeft(c)' = 3
           /\ pc'[c] \in {"call", "choose"} => PhasesLeft(c)' = 2
           /\ pc'[c] = "end" => PhasesLeft(c)' = 1
           /\ pc'[c] \in Over => PhasesLeft(c)' = 0
BY DEF PhasesLeft, Over

\* A step of its own leaves a request less to do, a new look at the registry as much.
LEMMA PhasesPass ==
    ASSUME Shape, NEW c \in Client,
           Chat(c) \/ Infer(c) \/ Resolve(c) \/ GiveUp(c) \/ Kill(c) \/ Stop(c) \/ Answer(c)
    PROVE  Less(Left(c)', Left(c))
<1> USE DEF Shape
<1>0. /\ pc \in [Client -> PC] /\ DOMAIN chain = Client
      /\ \A x : [pc EXCEPT ![c] = x][c] = x
  BY DEF TypeOK, AttemptTypeOK
<1>1. ASSUME NEW nodes \in SUBSET Node, NEW route \in Chains(nodes), Begin(c, route)
      PROVE  pc'[c] \in {"call", "end"}
  BY <1>1, BeginShape
<1>2. CASE Chat(c)
  <2>1. pc[c] = "idle" /\ attempt'[c] = attempt[c]
    BY <1>2 DEF Chat, planVars
  <2>2. pc'[c] \in {"call", "end", "refused"}
    <3>1. CASE \E nodes \in SUBSET Node : \E route \in Chains(nodes) : Begin(c, route)
      BY <1>1, <3>1
    <3>2. CASE pc' = [pc EXCEPT ![c] = "refused"]
      BY <1>0, <3>2
    <3> QED
      BY <1>2, <3>1, <3>2 DEF Chat
  <2> QED
    BY <2>1, <2>2, PhaseOver, PhaseValues DEF Over
<1>3. CASE Infer(c)
  <2>1. pc[c] = "idle" /\ attempt'[c] = attempt[c] /\ pc'[c] = "cover"
    BY <1>0, <1>3 DEF Infer
  <2> QED
    BY <2>1, PhaseOver, PhaseValues
<1>4. CASE Resolve(c)
  <2>1. pc[c] = "cover" /\ attempt'[c] = attempt[c]
    BY <1>4 DEF Resolve, planVars
  <2>2. Candidates(c) \in SUBSET Node
    BY DEF Candidates, TypeOK, PlanTypeOK
  <2>3. pc'[c] \in {"call", "end"}
    BY <1>1, <1>4, <2>2 DEF Resolve
  <2> QED
    BY <2>1, <2>3, PhaseOver, PhaseValues
<1>5. CASE GiveUp(c) \/ Kill(c)
  <2>1. pc[c] \in {"cover"} \cup Running /\ attempt'[c] = attempt[c] /\ pc'[c] \in Over
    BY <1>0, <1>5 DEF GiveUp, Kill, planVars, Over
  <2> QED
    BY <2>1, PhaseOver, PhaseValues DEF Running
<1>6. CASE Stop(c)
  <2>1. pc[c] = "choose" /\ attempt'[c] = attempt[c] /\ pc'[c] = "end"
    BY <1>0, <1>6 DEF Stop, planVars
  <2> QED
    BY <2>1, PhaseOver, PhaseValues
<1>7. CASE Answer(c)
  <2>1. pc[c] = "end" /\ attempt'[c] = attempt[c] /\ pc'[c] = "done"
    BY <1>0, <1>7 DEF Answer, planVars
  <2> QED
    BY <2>1, PhaseOver, PhaseValues DEF Over
<1> QED
  BY <1>2, <1>3, <1>4, <1>5, <1>6, <1>7

LEMMA FailuresPass ==
    ASSUME Shape, NEW c \in Client, HopFails(c) \/ ChatRejected(c)
    PROVE  Less(Left(c)', Left(c))
<1>1. /\ pc[c] = "call"
      /\ \/ pc'[c] = "refused" /\ attempt'[c] = attempt[c]
         \/ attempt[c] < MaxFailovers /\ attempt'[c] = attempt[c] + 1
  BY FailShape
<1>2. CASE pc'[c] = "refused" /\ attempt'[c] = attempt[c]
  BY <1>1, <1>2, PhaseOver, PhaseValues DEF Over
<1>3. CASE attempt[c] < MaxFailovers /\ attempt'[c] = attempt[c] + 1
  <2>1. MaxFailovers - attempt'[c] < MaxFailovers - attempt[c]
    BY <1>3, BoundAssumption DEF Shape, TypeOK, PlanTypeOK
  <2> QED
    BY <2>1, LessAt DEF Left
<1> QED
  BY <1>1, <1>2, <1>3

LEMMA HopsPass ==
    ASSUME Shape, NEW c \in Client, Hop(c)
    PROVE  Less(Left(c)', Left(c))
<1>1. /\ pc[c] = "call" /\ attempt'[c] = attempt[c] /\ tokens'[c] = tokens[c]
      /\ \/ pc'[c] = "choose"
         \/ pc'[c] = "call" /\ at'[c] = NextAt(c) /\ at[c] # HeadAt(NumLayers)
      /\ at' \in [Client -> 0 .. HeadAt(NumLayers)]
  BY HopShape DEF planVars, AttemptTypeOK
<1>2. at[c] \in 0 .. HeadAt(NumLayers)
  BY DEF Shape, TypeOK, AttemptTypeOK
<1>3. CallsLeft(c)' < CallsLeft(c)
  <2>1. CallsLeft(c) = HeadAt(NumLayers) + 1 - at[c]
    BY <1>1 DEF CallsLeft
  <2>2. CASE pc'[c] = "choose"
    <3>1. CallsLeft(c)' = 0
      BY <2>2 DEF CallsLeft
    <3> QED
      BY <1>2, <2>1, <3>1, NodeAssumption
  <2>3. CASE pc'[c] = "call" /\ at'[c] = NextAt(c) /\ at[c] # HeadAt(NumLayers)
    <3>1. CallsLeft(c)' = HeadAt(NumLayers) + 1 - at'[c]
      BY <2>3 DEF CallsLeft
    <3>2. at'[c] > at[c] /\ at'[c] \in 0 .. HeadAt(NumLayers)
      BY <1>1, <2>3, NextShape
    <3> QED
      BY <1>2, <2>1, <3>1, <3>2, NodeAssumption
  <2> QED
    BY <1>1, <2>2, <2>3
<1>4. PhasesLeft(c)' = PhasesLeft(c)
  BY <1>1, PhaseValues
<1> QED
  BY <1>1, <1>3, <1>4, LessAt DEF Left

LEMMA TokensPass ==
    ASSUME Shape, NEW c \in Client, Emit(c)
    PROVE  Less(Left(c)', Left(c))
<1>1. /\ pc[c] = "choose" /\ attempt'[c] = attempt[c]
      /\ tokens' = [tokens EXCEPT ![c] = Append(@, Produced(c))]
      /\ pc' = [pc EXCEPT ![c] = "call"] \/ pc' = [pc EXCEPT ![c] = "end"]
  BY DEF Emit, planVars
<1>2. pc'[c] = "call" \/ pc'[c] = "end"
  BY <1>1 DEF Shape, TypeOK
<1>3. CASE pc'[c] = "end"
  BY <1>1, <1>3, PhaseOver, PhaseValues
<1>4. CASE pc'[c] = "call"
  <2>1. PhasesLeft(c)' = PhasesLeft(c)
    BY <1>1, <1>4, PhaseValues
  <2>2. Len(tokens'[c]) = Len(tokens[c]) + 1 /\ Len(tokens[c]) \in Nat
    <3>1. tokens \in [Client -> Seq(Token)] /\ Produced(c) \in Token
      BY ProducedShape DEF Shape, TypeOK, AttemptTypeOK
    <3>2. tokens'[c] = Append(tokens[c], Produced(c)) /\ tokens[c] \in Seq(Token)
      BY <1>1, <3>1
    <3> QED
      BY <3>1, <3>2
  <2>3. MaxNew[c] - Len(tokens'[c]) < MaxNew[c] - Len(tokens[c])
    BY <2>2, ClientAssumption
  <2> QED
    BY <1>1, <2>1, <2>3, LessAt DEF Left
<1> QED
  BY <1>2, <1>3, <1>4

LEMMA DeletionsPass ==
    ASSUME Shape, NEW c \in Client, NEW n \in Node, EndJob(c, n)
    PROVE  Less(Left(c)', Left(c))
<1>1. /\ pc[c] = "end" /\ pc'[c] = pc[c] /\ attempt'[c] = attempt[c] /\ tokens'[c] = tokens[c]
      /\ n \in ending[c] /\ ending'[c] = ending[c] \ {n}
  BY DEF EndJob, planVars, Shape, TypeOK, AttemptTypeOK
<1>2. IsFiniteSet(ending[c])
  BY NodeAssumption, FS_Subset DEF Shape, TypeOK, AttemptTypeOK
<1>3. Cardinality(ending'[c]) = Cardinality(ending[c]) - 1 /\ Cardinality(ending[c]) \in Nat
  <2>1. /\ Cardinality(ending[c] \ {n}) = Cardinality(ending[c]) - 1
        /\ Cardinality(ending[c]) \in Nat
    <3> DEFINE targets == ending[c]
    <3>1. IsFiniteSet(targets) /\ n \in targets
      BY <1>1, <1>2
    <3> HIDE DEF targets
    <3>2. Cardinality(targets \ {n}) = Cardinality(targets) - 1 /\ Cardinality(targets) \in Nat
      BY <3>1, FS_RemoveElement, FS_CardinalityType
    <3> QED
      BY <3>2 DEF targets
  <2> QED
    BY <1>1, <2>1
<1>4. CallsLeft(c)' < CallsLeft(c)
  BY <1>1, <1>3 DEF CallsLeft
<1>5. PhasesLeft(c)' = PhasesLeft(c)
  BY <1>1 DEF PhasesLeft
<1> QED
  BY <1>1, <1>4, <1>5, LessAt DEF Left

LEMMA DriversAdvance ==
    ASSUME Shape, NEW c \in Client, Serve(c), ~Refresh(c)
    PROVE  Less(Left(c)', Left(c))
BY PhasesPass, FailuresPass, HopsPass, TokensPass, DeletionsPass DEF Serve, Drive

LEMMA LeftKept ==
    ASSUME NEW c \in Client, UNCHANGED TaskOf(c)
    PROVE  Left(c)' = Left(c)
BY DEF TaskOf, Left, PhasesLeft, CallsLeft

LEMMA NobodyGoesBack ==
    ASSUME Shape, [Next]_vars, NEW c \in Client
    PROVE  Left(c)' = Left(c) \/ Less(Left(c)', Left(c))
<1>1. ASSUME NEW d \in Client, Serve(d) PROVE Left(c)' = Left(c) \/ Less(Left(c)', Left(c))
  <2>1. CASE d # c
    BY <1>1, <2>1, OthersKept, LeftKept DEF Shape
  <2>2. CASE d = c /\ ~Refresh(c)
    BY <1>1, <2>2, DriversAdvance
  <2>3. CASE d = c /\ Refresh(c)
    <3>1. UNCHANGED TaskOf(c)
      BY <2>3 DEF Refresh, TaskOf, attemptVars
    <3> QED
      BY <3>1, LeftKept
  <2> QED
    BY <2>1, <2>2, <2>3
<1>2. ASSUME NEW n \in Node, StopNode(n)
      PROVE  Left(c)' = Left(c) \/ Less(Left(c)', Left(c))
  <2>1. /\ pc'[c] = IF c \in Entry /\ pc[c] \in Running /\ Home[c] = n THEN "cut" ELSE pc[c]
        /\ UNCHANGED <<planVars, attemptVars>>
    BY <1>2, StopShape
  <2>2. CASE pc'[c] = pc[c]
    <3>1. UNCHANGED TaskOf(c)
      BY <2>1, <2>2 DEF TaskOf, planVars, attemptVars
    <3> QED
      BY <3>1, LeftKept
  <2>3. CASE pc[c] \in Running /\ pc'[c] = "cut"
    <3>1. attempt'[c] = attempt[c]
      BY <2>1 DEF planVars
    <3> QED
      BY <2>3, <3>1, PhaseOver, PhaseValues DEF Running, Over
  <2> QED
    BY <2>1, <2>2, <2>3
<1>3. ASSUME (\E n \in Node : StartNode(n)) \/ UNCHANGED vars PROVE Left(c)' = Left(c)
  <2>1. UNCHANGED TaskOf(c)
    BY <1>3 DEF StartNode, TaskOf, vars, planVars, attemptVars
  <2> QED
    BY <2>1, LeftKept
<1> QED
  BY <1>1, <1>2, <1>3, Steps

\* Nothing sends a request back: each step of its driver (v1_chat,
\* distributed_generate_resilient) leaves it less to do, and what other requests,
\* nodes and failures do leaves it no more.
THEOREM NoStepIsWasted == Spec => RequestsAdvance
<1>1. Spec => []Shape
  BY ShapeInit, ShapeNext, PTL DEF Spec
<1>2. Shape /\ [Next]_vars =>
        [\A c \in Client :
            /\ Left(c)' = Left(c) \/ Less(Left(c)', Left(c))
            /\ Drive(c) \/ GiveUp(c) => Less(Left(c)', Left(c))]_vars
  <2> SUFFICES ASSUME Shape, [Next]_vars, NEW c \in Client
               PROVE  /\ Left(c)' = Left(c) \/ Less(Left(c)', Left(c))
                      /\ Drive(c) \/ GiveUp(c) => Less(Left(c)', Left(c))
    OBVIOUS
  <2>1. Drive(c) \/ GiveUp(c) => Less(Left(c)', Left(c))
    BY PhasesPass, FailuresPass, HopsPass, TokensPass, DeletionsPass DEF Drive
  <2> QED
    BY <2>1, NobodyGoesBack
<1> QED
  BY <1>1, <1>2, PTL DEF Spec, RequestsAdvance

-----------------------------------------------------------------------------
(* Who failed stays out *)

\* FailedPeersStayOut, of one client.
StayOut(c) ==
    /\ pc[c] \in Running => ChainNodes(c) \cap excluded[c] = {}
    /\ pc[c] \in {"cover", "done"} \cup Running => Cardinality(excluded[c]) = attempt[c]

\* An attempt begins on a chain of candidates, at a node that is not left out.
LEMMA StayOutServe ==
    ASSUME Shape, NEW c \in Client \ Entry, StayOut(c), Serve(c)
    PROVE  StayOut(c)'
<1>0. TypeOK /\ RequestWellFormed(c)
  BY DEF Shape
<1>1. CASE Infer(c)
  <2>1. pc[c] = "idle" /\ pc'[c] = "cover" /\ UNCHANGED <<attempt, excluded>>
    BY <1>0, <1>1 DEF Infer, TypeOK
  <2>2. excluded[c] = {} /\ attempt[c] = 0
    BY <1>0, <2>1 DEF RequestWellFormed
  <2> QED
    BY <2>1, <2>2, FS_EmptySet DEF StayOut, Running
<1>2. CASE Resolve(c)
  <2>1. PICK route \in Chains(Candidates(c)) : Begin(c, route)
    BY <1>2 DEF Resolve
  <2>2. Candidates(c) \in SUBSET Node /\ Candidates(c) \cap excluded[c] = {}
    BY <1>0 DEF Candidates, TypeOK, PlanTypeOK
  <2>3. chain'[c] = route /\ pc'[c] \in {"call", "end"}
    BY <1>0, <2>1, <2>2, BeginShape
  <2>4. \A x \in DOMAIN route : route[x] \in Candidates(c)
    BY <2>1, ChainShape
  <2>5. pc[c] = "cover" /\ UNCHANGED planVars
    BY <1>2 DEF Resolve
  <2> QED
    BY <2>2, <2>3, <2>4, <2>5 DEF StayOut, ChainNodes, planVars, Running
<1>3. CASE HopFails(c) \/ ChatRejected(c)
  <2>1. /\ pc[c] = "call" /\ UNCHANGED <<chain, at>>
        /\ excluded'[c] = excluded[c] \cup {chain[c][at[c]]}
        /\ \/ pc'[c] = "cover" /\ attempt'[c] = attempt[c] + 1
           \/ pc'[c] = "refused" /\ attempt'[c] = attempt[c]
    BY <1>3, FailShape
  <2>2. chain[c][at[c]] \notin excluded[c]
    BY <1>0, <2>1 DEF RequestWellFormed, StayOut, ChainNodes, Running
  <2>3. IsFiniteSet(excluded[c])
    <3>1. excluded[c] \in SUBSET Node
      BY <1>0 DEF TypeOK, PlanTypeOK
    <3> QED
      BY <3>1, NodeAssumption, FS_Subset
  <2>4. Cardinality(excluded'[c]) = Cardinality(excluded[c]) + 1
    <3>1. Cardinality(excluded[c] \cup {chain[c][at[c]]}) = Cardinality(excluded[c]) + 1
      BY <2>2, <2>3, FS_AddElement
    <3> QED
      BY <2>1, <3>1
  <2>5. Cardinality(excluded[c]) = attempt[c]
    BY <2>1 DEF StayOut, Running
  <2>6. pc'[c] \notin Running
    BY <2>1 DEF Running
  <2>7. pc'[c] \in {"cover", "done"} \cup Running => Cardinality(excluded'[c]) = attempt'[c]
    BY <2>1, <2>4, <2>5 DEF Running
  <2> QED
    BY <2>6, <2>7 DEF StayOut
<1>4. CASE Hop(c)
  <2>1. /\ pc[c] = "call" /\ pc'[c] \in {"call", "choose"}
        /\ UNCHANGED <<planVars, chain>>
    BY <1>4, HopShape
  <2> QED
    BY <2>1 DEF StayOut, Running, planVars, ChainNodes
<1>5. CASE Stop(c) \/ Emit(c)
  <2>1. UNCHANGED <<planVars, chain>> /\ pc[c] = "choose" /\ pc'[c] \in {"call", "end"}
    BY <1>0, <1>5 DEF Stop, Emit, TypeOK
  <2> QED
    BY <2>1 DEF StayOut, Running, planVars, ChainNodes
<1>6. CASE Answer(c) \/ \E n \in Node : EndJob(c, n)
  <2>1. UNCHANGED <<planVars, chain>> /\ pc[c] = "end" /\ pc'[c] \in {"done", "end"}
    BY <1>0, <1>6 DEF Answer, EndJob, attemptVars, TypeOK
  <2> QED
    BY <2>1 DEF StayOut, Running, planVars, ChainNodes
<1>7. CASE Refresh(c) \/ GiveUp(c) \/ Kill(c)
  <2>1. /\ UNCHANGED <<attempt, excluded, chain>>
        /\ pc'[c] \in {"refused", "cut"} \/ (pc[c] = "cover" /\ pc'[c] = "cover")
    BY <1>0, <1>7 DEF Refresh, GiveUp, Kill, planVars, attemptVars, TypeOK
  <2> QED
    BY <2>1 DEF StayOut, Running
<1> QED
  BY <1>1, <1>2, <1>3, <1>4, <1>5, <1>6, <1>7 DEF Serve, Drive, Chat

\* A node that failed an `infer --peer` is in no later chain of it, and its
\* failovers are those of different nodes: MaxFailovers bounds the nodes that fail.
THEOREM PeersStayOut == Spec => []FailedPeersStayOut
<1> DEFINE IInv == Shape /\ \A c \in Client \ Entry : StayOut(c)
<1>1. Init => IInv
  <2> SUFFICES ASSUME Init PROVE \A c \in Client \ Entry : StayOut(c)
    BY ShapeInit
  <2> QED
    BY DEF Init, StayOut, Running
<1>2. IInv /\ [Next]_vars => IInv'
  <2> SUFFICES ASSUME IInv, [Next]_vars, NEW c \in Client \ Entry PROVE StayOut(c)'
    BY ShapeNext
  <2>1. ASSUME NEW d \in Client, Serve(d) PROVE StayOut(c)'
    <3>1. CASE d = c
      BY <2>1, <3>1, StayOutServe
    <3>2. CASE d # c
      <4>1. UNCHANGED TaskOf(c)
        BY <2>1, <3>2, OthersKept DEF Shape
      <4> QED
        BY <4>1 DEF TaskOf, StayOut, ChainNodes
    <3> QED
      BY <3>1, <3>2
  <2>2. ASSUME NEW n \in Node, StopNode(n) \/ StartNode(n) PROVE StayOut(c)'
    <3>1. UNCHANGED <<planVars, attemptVars>> /\ pc'[c] = pc[c]
      BY <2>2, StopShape, StartShape
    <3> QED
      BY <3>1 DEF StayOut, ChainNodes, planVars, attemptVars
  <2>3. CASE UNCHANGED vars
    BY <2>3 DEF StayOut, ChainNodes, vars, planVars, attemptVars
  <2> QED
    BY <2>1, <2>2, <2>3, Steps
<1>3. IInv => FailedPeersStayOut
  BY DEF FailedPeersStayOut, StayOut
<1> QED
  BY <1>1, <1>2, <1>3, PTL DEF Spec

-----------------------------------------------------------------------------
(* The caches of a request that shares its job ids with nobody *)

\* A chat, whose job id is its own, or an `infer --peer` without a second one.
Alone(c) == c \in Entry \/ Client \ Entry = {c}

\* A node that is down has no cache.
DeadHoldNothing == \A k \in Slots : k[1] \notin up => kv[k] = 0

\* The job ids that c has not used yet.
JobsToCome(c) ==
    IF c \in Entry THEN IF pc[c] = "idle" THEN {JobOf(c)} ELSE {}
    ELSE {<<"job", a>> : a \in {b \in 0 .. MaxFailovers :
            b > attempt[c] \/ (b = attempt[c] /\ pc[c] \in {"idle", "cover"})}}

FreshIds(c) == \A k \in Slots : k[2] \in JobsToCome(c) => kv[k] = 0

\* Its caches are those of the blocks of its chain.
OwnCaches(c) ==
    pc[c] \in Running \cup {"done"} =>
        \A k \in Slots : k[2] = JobOf(c) /\ kv[k] # 0 =>
            k[3] \in Decoders(c) /\ k = CacheOf(c, k[3])

StartPosition(c) == IF prefill[c] THEN 0 ELSE Len(tokens[c])

\* The blocks that the pass went through hold its input, the others do not.
PassInStep(c) ==
    pc[c] \in {"call", "choose"} /\ ~forgot[c] =>
        /\ \A x \in Decoders(c) : kv[CacheOf(c, x)] =
             IF x < at[c] THEN StartPosition(c) + InputLen(c) ELSE StartPosition(c)
        /\ \A i \in h[c] : i = StartPosition(c) + InputLen(c)
        /\ (\E x \in Decoders(c) : x < at[c]) => h[c] # {}

\* What is not deleted yet is still to be deleted.
EndsPending(c) ==
    /\ pc[c] = "done" => ending[c] = {}
    /\ upsets = 0 /\ pc[c] \in {"end", "done"} =>
         \A x \in Decoders(c) : chain[c][x] \in ending[c] \/ kv[CacheOf(c, x)] = 0

\* The output so far, and why it ended.
OutputRight(c) ==
    ~forgot[c] =>
        /\ \A i \in 1 .. Len(tokens[c]) : tokens[c][i] = [request |-> c, index |-> i - 1]
        /\ Len(tokens[c]) <= StopAt[c]
        /\ pc[c] \in {"end", "done"} => Len(tokens[c]) = MaxNew[c] \/ Len(tokens[c]) = StopAt[c]

CachesRight(c) ==
    FreshIds(c) /\ OwnCaches(c) /\ PassInStep(c) /\ EndsPending(c) /\ OutputRight(c)

\* Another request never has the job id of one that shares its ids with nobody.
LEMMA JobsApart ==
    ASSUME NEW c \in Client, Alone(c), NEW d \in Client, d # c
    PROVE  JobOf(d) # JobOf(c) /\ JobOf(d) \notin JobsToCome(c)
<1>1. CASE c \in Entry
  <2>1. JobOf(d) # JobOf(c)
    BY <1>1 DEF JobOf
  <2> QED
    BY <1>1, <2>1 DEF JobsToCome
<1>2. CASE c \notin Entry
  <2>1. d \in Entry
    BY <1>2 DEF Alone
  <2>2. JobOf(d) = <<"entry", d>> /\ JobOf(c) = <<"job", attempt[c]>>
    BY <1>2, <2>1 DEF JobOf
  <2>3. \A a : <<"entry", d>> # <<"job", a>>
    OBVIOUS
  <2> QED
    BY <1>2, <2>2, <2>3 DEF JobsToCome
<1> QED
  BY <1>1, <1>2

\* A request changes no cache but those of its job, at nodes that run.
LEMMA OwnJobOnly ==
    ASSUME Shape, NEW d \in Client, Serve(d)
    PROVE  /\ kv' \in [Slots -> Nat]
           /\ \A k \in Slots : kv'[k] # kv[k] => k[2] = JobOf(d) /\ k[1] \in up
           /\ upsets' \in Nat /\ upsets' >= upsets
<1>0. TypeOK /\ RequestWellFormed(d) /\ kv \in [Slots -> Nat] /\ upsets \in Nat
  BY DEF Shape, TypeOK, NodeTypeOK, Slots
<1>d. ASSUME kv' = Decoded(d), chain[d][at[d]] \in up
      PROVE  /\ kv' \in [Slots -> Nat]
             /\ \A k \in Slots : kv'[k] # kv[k] => k[2] = JobOf(d) /\ k[1] \in up
  <2>1. \A k \in Slots : kv'[k] # kv[k] => k = CacheOf(d, at[d])
    BY <1>0, <1>d, DecodedShape
  <2> HIDE DEF Slots
  <2> QED
    BY <1>0, <1>d, <2>1, DecodedShape DEF CacheOf
<1> HIDE DEF Slots
<1>1. CASE Hop(d)
  <2>1. kv' = Decoded(d) /\ chain[d][at[d]] \in up /\ UNCHANGED upsets
    BY <1>1, HopShape
  <2> QED
    BY <1>0, <1>d, <2>1
<1>2. CASE HopFails(d) \/ ChatRejected(d)
  <2>1. \/ UNCHANGED <<kv, upsets>>
        \/ UNCHANGED <<kv, up>> /\ Upset
        \/ kv' = Decoded(d) /\ chain[d][at[d]] \in up /\ Upset
    BY <1>2, FailShape
  <2> QED
    BY <1>0, <1>d, <2>1 DEF Upset
<1>3. CASE \E n \in Node : EndJob(d, n)
  <2> PICK n \in Node : EndJob(d, n)
    BY <1>3
  <2>1. \/ /\ n \in up /\ UNCHANGED upsets
           /\ kv' = [x \in DOMAIN kv |-> IF x[1] = n /\ x[2] = JobOf(d) THEN 0 ELSE kv[x]]
        \/ UNCHANGED kv /\ (UNCHANGED upsets \/ Upset)
    BY DEF EndJob
  <2> QED
    BY <1>0, <2>1 DEF Upset
<1>4. CASE Chat(d) \/ Infer(d) \/ Refresh(d) \/ GiveUp(d) \/ Resolve(d) \/ Stop(d) \/ Emit(d)
           \/ Answer(d) \/ Kill(d)
  <2>1. UNCHANGED kv /\ (UNCHANGED upsets \/ Upset)
    BY <1>4 DEF Chat, Infer, Refresh, GiveUp, Resolve, Stop, Emit, Answer, Kill
  <2> QED
    BY <1>0, <2>1 DEF Upset
<1> QED
  BY <1>1, <1>2, <1>3, <1>4 DEF Serve, Drive

LEMMA DeadServe ==
    ASSUME Shape, DeadHoldNothing, NEW d \in Client, Serve(d)
    PROVE  DeadHoldNothing'
<1>1. UNCHANGED up
  BY DEF Serve, Drive, Chat, Infer, Refresh, GiveUp, Resolve, Hop, HopFails, ChatRejected, Stop,
         Emit, Answer, EndJob, Kill
<1>2. \A k \in Slots : kv'[k] # kv[k] => k[1] \in up
  BY OwnJobOnly
<1> HIDE DEF Slots
<1> QED
  BY <1>1, <1>2 DEF DeadHoldNothing

\* What others do leaves the caches of c right.
LEMMA OthersCaches ==
    ASSUME Shape, NEW c \in Client, Alone(c), CachesRight(c), NEW d \in Client, d # c, Serve(d)
    PROVE  CachesRight(c)'
<1>1. UNCHANGED TaskOf(c) /\ UNCHANGED forgot
  BY OthersKept DEF Shape
<1>2. \A k \in Slots : k[2] \in {JobOf(c)} \cup JobsToCome(c) => kv'[k] = kv[k]
  BY OwnJobOnly, JobsApart
<1>3. \A x \in Decoders(c) : CacheOf(c, x) \in Slots /\ CacheOf(c, x)[2] = JobOf(c)
  BY CacheShape DEF Shape, CacheOf
<1>4. \A x \in Decoders(c) : kv'[CacheOf(c, x)] = kv[CacheOf(c, x)]
  BY <1>2, <1>3
<1>5. /\ JobOf(c)' = JobOf(c) /\ Decoders(c)' = Decoders(c)
      /\ StartPosition(c)' = StartPosition(c) /\ InputLen(c)' = InputLen(c)
      /\ \A x : CacheOf(c, x)' = CacheOf(c, x)
  BY <1>1 DEF TaskOf, JobOf, Decoders, CacheOf, StartPosition, InputLen
<1>6. JobsToCome(c)' = JobsToCome(c)
  BY <1>1, <1>5 DEF TaskOf, JobsToCome
<1>7. upsets' = 0 => upsets = 0
  BY OwnJobOnly DEF Shape, TypeOK
<1> HIDE DEF Slots
<1>8. FreshIds(c)' /\ OwnCaches(c)'
  BY <1>1, <1>2, <1>5, <1>6 DEF CachesRight, FreshIds, OwnCaches, TaskOf
<1>9. PassInStep(c)'
  BY <1>1, <1>4, <1>5 DEF CachesRight, PassInStep, TaskOf
<1>10. EndsPending(c)'
  BY <1>1, <1>4, <1>5, <1>7 DEF CachesRight, EndsPending, TaskOf
<1>11. OutputRight(c)'
  BY <1>1 DEF CachesRight, OutputRight, TaskOf
<1> QED
  BY <1>8, <1>9, <1>10, <1>11 DEF CachesRight

\* An attempt begins with a job id that nobody has used.
LEMMA BeginCaches ==
    ASSUME Shape, NEW c \in Client, Alone(c), CachesRight(c),
           NEW nodes \in SUBSET Node, NEW route \in Chains(nodes), Begin(c, route),
           IF c \in Entry THEN pc[c] = "idle" ELSE pc[c] = "cover",
           UNCHANGED <<kv, planVars, forgot>>
    PROVE  CachesRight(c)'
<1>1. /\ chain'[c] = route /\ at'[c] = EmbedAt /\ prefill'[c] = TRUE /\ h'[c] = {}
      /\ UNCHANGED tokens
      /\ \/ pc'[c] = "call"
         \/ /\ ~(Len(tokens[c]) < MaxNew[c]) /\ pc'[c] = "end"
            /\ ending'[c] = EndTargets(route)
  BY BeginShape DEF Shape
<1>2. TypeOK /\ AttemptTypeOK'
  BY BeginShape DEF Shape
<1>3. JobOf(c) \in JobsToCome(c)
  BY <1>2 DEF JobsToCome, JobOf, TypeOK, PlanTypeOK
<1>4. \A k \in Slots : k[2] = JobOf(c) => kv[k] = 0
  BY <1>3 DEF CachesRight, FreshIds
<1>5. JobOf(c)' = JobOf(c) /\ JobsToCome(c)' \subseteq JobsToCome(c)
  BY <1>1 DEF JobOf, JobsToCome, planVars
<1>6. \A x \in Decoders(c)' : CacheOf(c, x)' \in Slots /\ CacheOf(c, x)'[2] = JobOf(c)
  <2> TAKE x \in Decoders(c)'
  <2>1. x \in 1 .. NumLayers /\ x \in DOMAIN chain'[c]
    BY <1>2, NodeAssumption DEF Decoders, AttemptTypeOK
  <2>2. chain'[c][x] \in Node
    BY <1>2, <2>1 DEF ChainNodes, AttemptTypeOK
  <2>3. JobOf(c) \in JobIds
    BY <1>2, JobShape DEF TypeOK
  <2> QED
    BY <1>5, <2>1, <2>2, <2>3 DEF CacheOf, Slots
<1>7. \A x \in Decoders(c)' : kv[CacheOf(c, x)'] = 0 /\ x > 0
  <2>1. \A x \in Decoders(c)' : x > 0
    BY <1>2, NodeAssumption DEF Decoders, AttemptTypeOK
  <2> QED
    BY <1>4, <1>6, <2>1
<1> HIDE DEF Slots
<1>8. FreshIds(c)'
  BY <1>5 DEF CachesRight, FreshIds
<1>9. OwnCaches(c)'
  BY <1>4, <1>5 DEF OwnCaches
<1>10. PassInStep(c)'
  <2>1. StartPosition(c)' = 0
    BY <1>1 DEF StartPosition
  <2>2. \A x \in Decoders(c)' : kv'[CacheOf(c, x)'] = 0 /\ ~(x < at'[c])
    BY <1>1, <1>2, <1>7, NodeAssumption DEF Decoders, AttemptTypeOK
  <2> QED
    BY <1>1, <2>1, <2>2 DEF PassInStep
<1>11. EndsPending(c)'
  BY <1>1, <1>7 DEF EndsPending
<1>12. OutputRight(c)'
  <2>1. Len(tokens[c]) <= MaxNew[c] /\ MaxNew[c] \in Nat /\ Len(tokens[c]) \in Nat
    BY <1>2, ClientAssumption DEF TypeOK, AttemptTypeOK
  <2>2. pc'[c] = "end" => Len(tokens[c]) = MaxNew[c]
    BY <1>1, <2>1
  <2>3. pc'[c] \in {"call", "end"} /\ tokens' = tokens /\ forgot' = forgot
    BY <1>1
  <2>4. OutputRight(c)
    BY DEF CachesRight
  <2> QED
    BY <2>2, <2>3, <2>4 DEF OutputRight
<1> QED
  BY <1>8, <1>9, <1>10, <1>11, <1>12 DEF CachesRight

LEMMA HopCaches ==
    ASSUME Shape, NEW c \in Client, Alone(c), CachesRight(c), Hop(c)
    PROVE  CachesRight(c)'
<1>0. TypeOK /\ RequestWellFormed(c)
  BY DEF Shape
<1>1. /\ pc[c] = "call"
      /\ kv' = Decoded(c)
      /\ h'[c] = IF at[c] \in Decoders(c) THEN h[c] \cup {kv'[CacheOf(c, at[c])]} ELSE h[c]
      /\ \/ /\ at[c] = HeadAt(NumLayers)
            /\ pc'[c] = "choose" /\ at'[c] = at[c]
         \/ /\ at[c] # HeadAt(NumLayers)
            /\ pc'[c] = "call" /\ at'[c] = NextAt(c)
      /\ UNCHANGED <<planVars, chain, prefill, tokens, ending, forgot, upsets>>
  BY HopShape
<1>2. /\ DOMAIN chain[c] \subseteq 0 .. HeadAt(NumLayers) /\ at[c] \in DOMAIN chain[c]
      /\ Decoders(c) \subseteq 1 .. NumLayers
      /\ NumLayers \in Nat \ {0}
  BY <1>0, <1>1, NodeAssumption DEF TypeOK, AttemptTypeOK, RequestWellFormed, Decoders
<1>3. \A k \in Slots : kv'[k] =
        IF at[c] \in Decoders(c) /\ k = CacheOf(c, at[c]) THEN kv[k] + InputLen(c) ELSE kv[k]
  BY <1>0, <1>1, DecodedShape
<1>4. \A x \in Decoders(c) : CacheOf(c, x) \in Slots
  BY <1>0, CacheShape
<1>5. /\ JobOf(c)' = JobOf(c) /\ Decoders(c)' = Decoders(c)
      /\ StartPosition(c)' = StartPosition(c) /\ InputLen(c)' = InputLen(c)
      /\ \A x : CacheOf(c, x)' = CacheOf(c, x)
  BY <1>1 DEF JobOf, Decoders, CacheOf, StartPosition, InputLen, planVars
<1>6. JobsToCome(c)' = JobsToCome(c) /\ JobOf(c) \notin JobsToCome(c)
  <2>1. pc[c] = "call" /\ pc'[c] \in {"call", "choose"} /\ attempt' = attempt
    BY <1>1 DEF planVars
  <2>2. attempt[c] \in 0 .. MaxFailovers
    BY <1>0 DEF TypeOK, PlanTypeOK
  <2>3. JobsToCome(c)' = JobsToCome(c)
    BY <2>1 DEF JobsToCome
  <2>4. JobOf(c) \notin JobsToCome(c)
    BY <2>1, <2>2 DEF JobsToCome, JobOf
  <2> QED
    BY <2>3, <2>4
<1>7. \A x : CacheOf(c, x)[2] = JobOf(c) /\ CacheOf(c, x)[3] = x
  BY DEF CacheOf
\* The blocks behind the next one are those behind this one, and this one.
<1>8. \A x \in Decoders(c) : x < at'[c] <=> (x < at[c] \/ x = at[c])
  <2>1. CASE at[c] = HeadAt(NumLayers)
    BY <1>1, <1>2, <2>1
  <2>2. CASE at[c] # HeadAt(NumLayers)
    <3>1. /\ NextAt(c) \in DOMAIN chain[c] /\ NextAt(c) > at[c]
          /\ \A z \in DOMAIN chain[c] : z > at[c] => NextAt(c) <= z
      BY <1>1, <2>2, NextShape
    <3>2. Decoders(c) \subseteq DOMAIN chain[c]
      BY DEF Decoders
    <3>3. at'[c] = NextAt(c)
      BY <1>1, <2>2
    <3>4. at[c] \in Nat /\ NextAt(c) \in Nat
      BY <1>2, <3>1
    <3> QED
      BY <1>2, <3>1, <3>2, <3>3, <3>4
  <2> QED
    BY <2>1, <2>2
<1>9. at[c] \in Nat
  BY <1>2
<1>n. StartPosition(c) \in Nat /\ InputLen(c) \in Nat
  BY <1>0 DEF StartPosition, InputLen, TypeOK, AttemptTypeOK
<1> HIDE DEF Slots
<1>10. FreshIds(c)'
  BY <1>3, <1>6, <1>7 DEF CachesRight, FreshIds
<1>11. OwnCaches(c)'
  <2>1. \A k \in Slots : k[2] = JobOf(c) /\ kv[k] # 0 => k[3] \in Decoders(c) /\ k = CacheOf(c, k[3])
    BY <1>1 DEF CachesRight, OwnCaches, Running
  <2>2. \A k \in Slots : k[2] = JobOf(c) /\ kv'[k] # 0 => k[3] \in Decoders(c) /\ k = CacheOf(c, k[3])
    BY <1>3, <1>7, <2>1
  <2> QED
    BY <1>5, <2>2 DEF OwnCaches
<1>12. PassInStep(c)'
  <2> SUFFICES ASSUME ~forgot[c] PROVE PassInStep(c)'
    BY <1>1 DEF PassInStep
  <2>1. /\ \A x \in Decoders(c) : kv[CacheOf(c, x)] =
             IF x < at[c] THEN StartPosition(c) + InputLen(c) ELSE StartPosition(c)
        /\ \A i \in h[c] : i = StartPosition(c) + InputLen(c)
        /\ (\E x \in Decoders(c) : x < at[c]) => h[c] # {}
    BY <1>1 DEF CachesRight, PassInStep
  <2>2. \A x \in Decoders(c) : kv'[CacheOf(c, x)] =
             IF x < at[c] \/ x = at[c] THEN StartPosition(c) + InputLen(c) ELSE StartPosition(c)
    <3> TAKE x \in Decoders(c)
    <3>1. CASE x = at[c]
      BY <1>3, <1>4, <1>9, <2>1, <3>1
    <3>2. CASE x # at[c]
      <4>1. CacheOf(c, x) # CacheOf(c, at[c])
        BY <1>7, <3>2
      <4>2. kv'[CacheOf(c, x)] = kv[CacheOf(c, x)]
        BY <1>3, <1>4, <4>1
      <4> QED
        BY <2>1, <3>2, <4>2
    <3> QED
      BY <3>1, <3>2
  <2>3. \A x \in Decoders(c) : kv'[CacheOf(c, x)] =
             IF x < at'[c] THEN StartPosition(c) + InputLen(c) ELSE StartPosition(c)
    BY <1>8, <2>2
  <2>4. \A i \in h'[c] : i = StartPosition(c) + InputLen(c)
    BY <1>1, <2>1, <2>2
  <2>5. (\E x \in Decoders(c) : x < at'[c]) => h'[c] # {}
    BY <1>1, <1>8, <2>1
  <2> QED
    BY <1>5, <2>3, <2>4, <2>5 DEF PassInStep
<1>13. EndsPending(c)' /\ OutputRight(c)'
  BY <1>1 DEF CachesRight, EndsPending, OutputRight
<1> QED
  BY <1>10, <1>11, <1>12, <1>13 DEF CachesRight

\* A failed attempt leaves its id behind.
LEMMA FailCaches ==
    ASSUME Shape, NEW c \in Client, Alone(c), CachesRight(c), HopFails(c) \/ ChatRejected(c)
    PROVE  CachesRight(c)'
<1>0. TypeOK /\ RequestWellFormed(c)
  BY DEF Shape
<1>1. /\ pc[c] = "call" /\ UNCHANGED <<tokens, forgot>>
      /\ \/ c \in Entry /\ pc'[c] = "refused"
         \/ /\ c \notin Entry
            /\ \/ pc'[c] = "cover" /\ attempt'[c] = attempt[c] + 1
               \/ pc'[c] = "refused" /\ attempt'[c] = attempt[c]
  BY FailShape
<1>2. attempt[c] \in 0 .. MaxFailovers
  BY <1>0 DEF TypeOK, PlanTypeOK
<1>3. JobsToCome(c)' \subseteq JobsToCome(c)
  <2>1. CASE c \in Entry
    BY <1>1, <2>1 DEF JobsToCome
  <2>2. CASE c \notin Entry
    <3>1. \A b \in 0 .. MaxFailovers :
            b > attempt'[c] \/ (b = attempt'[c] /\ pc'[c] \in {"idle", "cover"}) => b > attempt[c]
      BY <1>1, <1>2, <2>2
    <3> QED
      BY <2>2, <3>1 DEF JobsToCome
  <2> QED
    BY <2>1, <2>2
<1>4. JobOf(c) \notin JobsToCome(c)
  BY <1>1, <1>2 DEF JobsToCome, JobOf
<1>5. \A k \in Slots : kv'[k] # kv[k] => k[2] = JobOf(c)
  <2>1. Serve(c)
    BY DEF Serve, Drive
  <2> QED
    BY <2>1, OwnJobOnly
<1> HIDE DEF Slots
<1>6. FreshIds(c)'
  BY <1>3, <1>4, <1>5 DEF CachesRight, FreshIds
<1>7. OwnCaches(c)' /\ PassInStep(c)' /\ EndsPending(c)'
  BY <1>1 DEF OwnCaches, PassInStep, EndsPending, Running
<1>8. OutputRight(c)'
  BY <1>1 DEF CachesRight, OutputRight
<1> QED
  BY <1>6, <1>7, <1>8 DEF CachesRight

\* At the end of a pass every block holds the prompt and the output so far, so
\* the head yields the token after it.
LEMMA PassComplete ==
    ASSUME Shape, NEW c \in Client, CachesRight(c), pc[c] = "choose", ~forgot[c]
    PROVE  /\ Produced(c) = [request |-> c, index |-> Len(tokens[c])]
           /\ \A x \in Decoders(c) : kv[CacheOf(c, x)] = PromptLen + Len(tokens[c])
<1>1. /\ at[c] = HeadAt(NumLayers) /\ {BlockAt(0), HeadAt(NumLayers)} \subseteq DOMAIN chain[c]
      /\ DOMAIN chain[c] \subseteq 0 .. HeadAt(NumLayers)
      /\ Len(tokens[c]) \in Nat
  BY DEF Shape, TypeOK, AttemptTypeOK, RequestWellFormed, Running
<1>2. BlockAt(0) \in Decoders(c) /\ \A x \in Decoders(c) : x < at[c]
  BY <1>1, NodeAssumption DEF Decoders
<1>3. StartPosition(c) + InputLen(c) = PromptLen + Len(tokens[c])
  BY <1>1 DEF StartPosition, InputLen
<1>4. /\ \A x \in Decoders(c) : kv[CacheOf(c, x)] = PromptLen + Len(tokens[c])
      /\ \A i \in h[c] : i = PromptLen + Len(tokens[c])
      /\ h[c] # {}
  BY <1>2, <1>3 DEF CachesRight, PassInStep
<1>5. h[c] = {PromptLen + Len(tokens[c])}
  BY <1>4
<1> QED
  BY <1>4, <1>5 DEF Produced

LEMMA ChooseCaches ==
    ASSUME Shape, NEW c \in Client, CachesRight(c), Stop(c) \/ Emit(c)
    PROVE  CachesRight(c)'
<1>0. TypeOK /\ RequestWellFormed(c)
  BY DEF Shape
<1>1. /\ pc[c] = "choose"
      /\ UNCHANGED <<up, kv, planVars, chain, acked, logVars, forgot, stops, upsets>>
  BY DEF Stop, Emit
<1>2. /\ Len(tokens[c]) < MaxNew[c] /\ tokens[c] \in Seq(Token) /\ Len(tokens[c]) \in Nat
      /\ MaxNew[c] \in Nat /\ StopAt[c] \in Nat
  BY <1>0, <1>1, ClientAssumption DEF RequestWellFormed, TypeOK, AttemptTypeOK
<1>3. \/ /\ pc'[c] = "end" /\ ending'[c] = EndTargets(chain[c])
         /\ \/ Stop(c) /\ UNCHANGED tokens
            \/ Emit(c) /\ ~(Len(tokens[c]) + 1 < MaxNew[c])
      \/ /\ Emit(c) /\ pc'[c] = "call" /\ at'[c] = EmbedAt /\ prefill'[c] = FALSE /\ h'[c] = {}
  BY <1>0 DEF Stop, Emit, TypeOK, AttemptTypeOK
<1>4. Emit(c) => tokens'[c] = Append(tokens[c], Produced(c))
  BY <1>0 DEF Emit, TypeOK, AttemptTypeOK
<1>5. Emit(c) => /\ Len(tokens'[c]) = Len(tokens[c]) + 1
                 /\ tokens'[c][Len(tokens[c]) + 1] = Produced(c)
                 /\ \A i \in 1 .. Len(tokens[c]) : tokens'[c][i] = tokens[c][i]
  <2>1. Produced(c) \in Token
    BY <1>0, ProducedShape
  <2> QED
    BY <1>2, <1>4, <2>1
<1>6. /\ JobOf(c)' = JobOf(c) /\ Decoders(c)' = Decoders(c)
      /\ \A x : CacheOf(c, x)' = CacheOf(c, x)
  BY <1>1 DEF JobOf, Decoders, CacheOf, planVars
<1>7. FreshIds(c)' /\ OwnCaches(c)'
  <2>1. JobsToCome(c)' = JobsToCome(c)
    BY <1>1, <1>3 DEF JobsToCome, planVars
  <2> HIDE DEF Slots
  <2> QED
    BY <1>1, <1>3, <1>6, <2>1 DEF CachesRight, FreshIds, OwnCaches, Running
<1>8. PassInStep(c)'
  <2> SUFFICES ASSUME ~forgot[c], pc'[c] = "call" PROVE PassInStep(c)'
    BY <1>1, <1>3 DEF PassInStep
  <2>1. StartPosition(c)' = PromptLen + Len(tokens[c])
    BY <1>2, <1>3, <1>5 DEF StartPosition
  <2>2. \A x \in Decoders(c) : kv'[CacheOf(c, x)] = PromptLen + Len(tokens[c])
    BY <1>1, PassComplete
  <2>3. \A x \in Decoders(c) : ~(x < EmbedAt)
    BY <1>0, NodeAssumption DEF Decoders, TypeOK, AttemptTypeOK
  <2> QED
    BY <1>3, <1>6, <2>1, <2>2, <2>3 DEF PassInStep
<1>9. EndsPending(c)'
  <2>1. \A x \in Decoders(c) : chain'[c][x] \in EndTargets(chain[c])
    BY <1>1 DEF EndTargets, Decoders
  <2>2. pc'[c] = "call" \/ (pc'[c] = "end" /\ ending'[c] = EndTargets(chain[c]))
    BY <1>3
  <2> HIDE DEF EndTargets
  <2> QED
    BY <1>6, <2>1, <2>2 DEF EndsPending
<1>10. OutputRight(c)'
  <2> SUFFICES ASSUME ~forgot[c] PROVE OutputRight(c)'
    BY <1>1 DEF OutputRight
  <2>1. Produced(c) = [request |-> c, index |-> Len(tokens[c])]
    BY <1>1, PassComplete
  <2>2. /\ \A i \in 1 .. Len(tokens[c]) : tokens[c][i] = [request |-> c, index |-> i - 1]
        /\ Len(tokens[c]) <= StopAt[c]
    BY DEF CachesRight, OutputRight
  <2>3. CASE Stop(c)
    <3>1. Len(tokens[c]) = StopAt[c] /\ UNCHANGED tokens
      BY <2>1, <2>3 DEF Stop
    <3> QED
      BY <2>2, <3>1 DEF OutputRight
  <2>4. CASE Emit(c)
    <3>1. Len(tokens[c]) # StopAt[c]
      BY <2>1, <2>4 DEF Emit
    <3>2. \A i \in 1 .. Len(tokens'[c]) : tokens'[c][i] = [request |-> c, index |-> i - 1]
      <4> TAKE i \in 1 .. Len(tokens'[c])
      <4>1. CASE i = Len(tokens[c]) + 1
        BY <1>2, <1>5, <2>1, <2>4, <4>1
      <4>2. CASE i # Len(tokens[c]) + 1
        <5>1. i \in 1 .. Len(tokens[c])
          BY <1>2, <1>5, <2>4, <4>2
        <5> QED
          BY <1>5, <2>2, <2>4, <5>1
      <4> QED
        BY <4>1, <4>2
    <3>3. Len(tokens'[c]) <= StopAt[c]
      BY <1>2, <1>5, <2>2, <2>4, <3>1
    <3>4. pc'[c] \in {"end", "done"} => Len(tokens'[c]) = MaxNew[c] \/ Len(tokens'[c]) = StopAt[c]
      <4>1. Stop(c) => Len(tokens[c]) = StopAt[c]
        BY <2>1 DEF Stop
      <4> QED
        BY <1>2, <1>3, <1>5, <2>4, <3>1, <4>1
    <3> QED
      BY <1>1, <3>2, <3>3, <3>4 DEF OutputRight
  <2> QED
    BY <2>3, <2>4
<1> QED
  BY <1>7, <1>8, <1>9, <1>10 DEF CachesRight

\* Deleting the job.
LEMMA EndCaches ==
    ASSUME Shape, DeadHoldNothing, NEW c \in Client, CachesRight(c), NEW n \in Node, EndJob(c, n)
    PROVE  CachesRight(c)'
<1>0. TypeOK /\ kv \in [Slots -> Nat]
  BY DEF Shape, TypeOK, NodeTypeOK, Slots
<1>1. /\ pc[c] = "end" /\ UNCHANGED <<pc, planVars, chain, tokens, forgot>>
      /\ ending'[c] = ending[c] \ {n}
      /\ \/ /\ n \in up /\ UNCHANGED upsets
            /\ kv' = [x \in DOMAIN kv |-> IF x[1] = n /\ x[2] = JobOf(c) THEN 0 ELSE kv[x]]
         \/ n \notin up /\ UNCHANGED <<kv, upsets>>
         \/ Upset /\ UNCHANGED kv
  BY <1>0 DEF EndJob, TypeOK, AttemptTypeOK
<1>2. \A x \in Decoders(c) : CacheOf(c, x) \in Slots /\ CacheOf(c, x)[1] = chain[c][x]
                             /\ CacheOf(c, x)[2] = JobOf(c)
  BY <1>0, CacheShape DEF CacheOf
<1>3. /\ JobOf(c)' = JobOf(c) /\ Decoders(c)' = Decoders(c)
      /\ \A x : CacheOf(c, x)' = CacheOf(c, x)
      /\ JobsToCome(c)' = JobsToCome(c)
  BY <1>1 DEF JobOf, Decoders, CacheOf, planVars, JobsToCome
<1> HIDE DEF Slots
<1>4. \A k \in Slots : kv'[k] # 0 => kv[k] # 0 /\ kv'[k] = kv[k]
  BY <1>0, <1>1
<1>5. FreshIds(c)' /\ OwnCaches(c)'
  BY <1>1, <1>3, <1>4 DEF CachesRight, FreshIds, OwnCaches
<1>6. PassInStep(c)' /\ OutputRight(c)'
  BY <1>1 DEF CachesRight, PassInStep, OutputRight
<1>7. EndsPending(c)'
  <2> SUFFICES ASSUME upsets' = 0, NEW x \in Decoders(c)
               PROVE  chain[c][x] \in ending'[c] \/ kv'[CacheOf(c, x)] = 0
    BY <1>1, <1>3 DEF EndsPending
  <2>1. upsets = 0 /\ ~Upset
    BY <1>0, <1>1 DEF Upset, TypeOK
  <2>2. chain[c][x] \in ending[c] \/ kv[CacheOf(c, x)] = 0
    BY <1>1, <2>1 DEF CachesRight, EndsPending
  <2>3. chain[c][x] = n => kv'[CacheOf(c, x)] = 0
    BY <1>0, <1>1, <1>2, <2>1 DEF DeadHoldNothing
  <2> QED
    BY <1>1, <1>2, <1>4, <2>2, <2>3
<1> QED
  BY <1>5, <1>6, <1>7 DEF CachesRight

LEMMA OwnServe ==
    ASSUME Shape, DeadHoldNothing, NEW c \in Client, Alone(c), CachesRight(c), Serve(c)
    PROVE  CachesRight(c)'
<1>0. TypeOK /\ RequestWellFormed(c)
  BY DEF Shape
<1>1. CASE Chat(c)
  <2>1. /\ c \in Entry /\ pc[c] = "idle" /\ UNCHANGED <<kv, planVars, forgot, upsets>>
    BY <1>1 DEF Chat
  <2>2. CASE \E nodes \in SUBSET Node : \E route \in Chains(nodes) : Begin(c, route)
    BY <2>1, <2>2, BeginCaches
  <2>3. CASE pc' = [pc EXCEPT ![c] = "refused"] /\ UNCHANGED attemptVars
    <3>1. pc'[c] = "refused" /\ UNCHANGED tokens
      BY <1>0, <2>3 DEF TypeOK, attemptVars
    <3>2. FreshIds(c)'
      BY <2>1, <3>1 DEF FreshIds, JobsToCome
    <3> QED
      BY <2>1, <3>1, <3>2 DEF CachesRight, OwnCaches, PassInStep, EndsPending, OutputRight, Running
  <2> QED
    BY <1>1, <2>2, <2>3 DEF Chat
<1>2. CASE Infer(c) \/ Refresh(c) \/ GiveUp(c) \/ Kill(c)
  <2>1. /\ UNCHANGED <<kv, attempt, tokens, forgot>>
        /\ pc'[c] \in {"cover", "refused", "cut"}
        /\ pc'[c] = "cover" => pc[c] \in {"idle", "cover"} /\ c \notin Entry
    <3>1. CASE Refresh(c)
      BY <1>0, <3>1 DEF Refresh, RequestWellFormed, attemptVars
    <3>2. CASE Infer(c) \/ GiveUp(c) \/ Kill(c)
      BY <1>0, <3>2 DEF Infer, GiveUp, Kill, planVars, attemptVars, TypeOK
    <3> QED
      BY <1>2, <3>1, <3>2
  <2>2. JobsToCome(c)' \subseteq JobsToCome(c)
    BY <2>1 DEF JobsToCome
  <2>3. FreshIds(c)'
    <3> HIDE DEF Slots
    <3> QED
      BY <2>1, <2>2 DEF CachesRight, FreshIds
  <2> QED
    BY <2>1, <2>3 DEF CachesRight, OwnCaches, PassInStep, EndsPending, OutputRight, Running
<1>3. CASE Resolve(c)
  <2>1. PICK route \in Chains(Candidates(c)) : Begin(c, route)
    BY <1>3 DEF Resolve
  <2>2. Candidates(c) \in SUBSET Node
    BY <1>0 DEF Candidates, TypeOK, PlanTypeOK
  <2>3. c \notin Entry /\ pc[c] = "cover" /\ UNCHANGED <<kv, planVars, forgot>>
    BY <1>0, <1>3 DEF Resolve, RequestWellFormed
  <2> QED
    BY <2>1, <2>2, <2>3, BeginCaches
<1>4. CASE Answer(c)
  <2>1. /\ pc[c] = "end" /\ pc'[c] = "done" /\ ending[c] = {}
        /\ UNCHANGED <<kv, planVars, attemptVars, forgot, upsets>>
    BY <1>0, <1>4 DEF Answer, TypeOK
  <2>2. /\ JobOf(c)' = JobOf(c) /\ Decoders(c)' = Decoders(c) /\ JobsToCome(c)' = JobsToCome(c)
        /\ \A x : CacheOf(c, x)' = CacheOf(c, x)
    BY <2>1 DEF JobOf, Decoders, CacheOf, JobsToCome, planVars, attemptVars
  <2>3. FreshIds(c)' /\ OwnCaches(c)'
    <3> HIDE DEF Slots
    <3> QED
      BY <2>1, <2>2 DEF CachesRight, FreshIds, OwnCaches, Running
  <2>4. PassInStep(c)' /\ OutputRight(c)'
    BY <2>1 DEF CachesRight, PassInStep, OutputRight, attemptVars
  <2>5. EndsPending(c)'
    BY <2>1, <2>2 DEF CachesRight, EndsPending, attemptVars
  <2> QED
    BY <2>3, <2>4, <2>5 DEF CachesRight
<1> QED
  BY <1>1, <1>2, <1>3, <1>4, HopCaches, FailCaches, ChooseCaches, EndCaches DEF Serve, Drive

\* A node that stops takes caches of a running attempt with it only if the
\* history says so.
LEMMA StopCaches ==
    ASSUME Shape, NEW c \in Client, CachesRight(c), NEW n \in Node, StopNode(n)
    PROVE  CachesRight(c)'
<1>0. TypeOK
  BY DEF Shape
<1>1. /\ \A k \in Slots : kv'[k] = IF k[1] = n THEN 0 ELSE kv[k]
      /\ pc'[c] = "cut" \/ pc'[c] = pc[c]
      /\ ~forgot'[c] => ~forgot[c] /\ ~HoldsCaches(c, n)
      /\ UNCHANGED <<planVars, attemptVars, upsets>>
  BY StopShape
<1>2. /\ JobOf(c)' = JobOf(c) /\ Decoders(c)' = Decoders(c)
      /\ StartPosition(c)' = StartPosition(c) /\ InputLen(c)' = InputLen(c)
      /\ \A x : CacheOf(c, x)' = CacheOf(c, x)
  BY <1>1 DEF JobOf, Decoders, CacheOf, StartPosition, InputLen, planVars, attemptVars
<1>3. JobsToCome(c)' \subseteq JobsToCome(c)
  BY <1>1, <1>2 DEF JobsToCome, planVars
<1>4. \A x \in Decoders(c) : CacheOf(c, x) \in Slots /\ CacheOf(c, x)[1] = chain[c][x]
                             /\ kv[CacheOf(c, x)] \in Nat
  <2>1. kv \in [Slots -> Nat]
    BY <1>0 DEF TypeOK, NodeTypeOK, Slots
  <2> HIDE DEF Slots
  <2> QED
    BY <1>0, <2>1, CacheShape DEF CacheOf
<1> HIDE DEF Slots
<1>5. FreshIds(c)' /\ OwnCaches(c)'
  BY <1>1, <1>2, <1>3 DEF CachesRight, FreshIds, OwnCaches, Running
<1>6. PassInStep(c)'
  <2> SUFFICES ASSUME ~forgot'[c], pc'[c] \in {"call", "choose"} PROVE PassInStep(c)'
    BY DEF PassInStep
  <2>1. pc'[c] = pc[c] /\ ~forgot[c] /\ ~HoldsCaches(c, n)
    BY <1>1
  <2>2. \A x \in Decoders(c) : kv'[CacheOf(c, x)] = kv[CacheOf(c, x)]
    BY <1>1, <1>4, <2>1 DEF HoldsCaches
  <2> QED
    BY <1>1, <1>2, <2>1, <2>2 DEF CachesRight, PassInStep, attemptVars
<1>7. EndsPending(c)'
  BY <1>1, <1>2, <1>4 DEF CachesRight, EndsPending, attemptVars
<1>8. OutputRight(c)'
  BY <1>1 DEF CachesRight, OutputRight, attemptVars
<1> QED
  BY <1>5, <1>6, <1>7, <1>8 DEF CachesRight

LEMMA CachesStutter ==
    ASSUME NEW c \in Client, CachesRight(c),
           UNCHANGED <<kv, pc, planVars, attemptVars, forgot, upsets>>
    PROVE  CachesRight(c)'
<1>1. /\ JobOf(c)' = JobOf(c) /\ Decoders(c)' = Decoders(c)
      /\ StartPosition(c)' = StartPosition(c) /\ InputLen(c)' = InputLen(c)
      /\ \A x : CacheOf(c, x)' = CacheOf(c, x)
  BY DEF JobOf, Decoders, CacheOf, StartPosition, InputLen, planVars, attemptVars
<1>2. JobsToCome(c)' = JobsToCome(c)
  BY <1>1 DEF JobsToCome, planVars
<1> HIDE DEF Slots
<1>3. FreshIds(c)' /\ OwnCaches(c)'
  BY <1>1, <1>2 DEF CachesRight, FreshIds, OwnCaches
<1>4. PassInStep(c)' /\ EndsPending(c)' /\ OutputRight(c)'
  BY <1>1 DEF CachesRight, PassInStep, EndsPending, OutputRight, attemptVars
<1> QED
  BY <1>3, <1>4 DEF CachesRight

CacheInvariant ==
    /\ Shape
    /\ DeadHoldNothing
    /\ \A c \in Client : Alone(c) => CachesRight(c)

LEMMA CacheInit == Init => CacheInvariant
<1> SUFFICES ASSUME Init PROVE CacheInvariant
  OBVIOUS
<1>1. \A k \in Slots : kv[k] = 0
  BY DEF Init, Slots
<1>2. DeadHoldNothing
  BY <1>1 DEF DeadHoldNothing
<1>3. ASSUME NEW c \in Client PROVE CachesRight(c)
  <2>1. FreshIds(c)
    BY <1>1 DEF FreshIds
  <2>2. OutputRight(c)
    BY ClientAssumption DEF Init, OutputRight
  <2> QED
    BY <2>1, <2>2 DEF Init, CachesRight, OwnCaches, PassInStep, EndsPending, Running
<1> QED
  BY <1>2, <1>3, ShapeInit DEF CacheInvariant

LEMMA CacheNext == CacheInvariant /\ [Next]_vars => CacheInvariant'
<1> SUFFICES ASSUME CacheInvariant, [Next]_vars PROVE CacheInvariant'
  OBVIOUS
<1> USE DEF CacheInvariant
<1>1. Shape'
  BY ShapeNext
<1>2. ASSUME NEW c \in Client, Alone(c) PROVE CachesRight(c)'
  <2>1. ASSUME NEW d \in Client, Serve(d) PROVE CachesRight(c)'
    BY <1>2, <2>1, OwnServe, OthersCaches
  <2>2. ASSUME NEW n \in Node, StopNode(n) PROVE CachesRight(c)'
    BY <1>2, <2>2, StopCaches
  <2>3. ASSUME NEW n \in Node, StartNode(n) PROVE CachesRight(c)'
    BY <1>2, <2>3, StartShape, CachesStutter
  <2>4. CASE UNCHANGED vars
    BY <1>2, <2>4, CachesStutter DEF vars
  <2> QED
    BY <2>1, <2>2, <2>3, <2>4, Steps
<1>3. DeadHoldNothing'
  <2>1. ASSUME NEW d \in Client, Serve(d) PROVE DeadHoldNothing'
    BY <2>1, DeadServe
  <2>2. ASSUME NEW n \in Node, StopNode(n) PROVE DeadHoldNothing'
    BY <2>2, StopShape DEF DeadHoldNothing
  <2>3. ASSUME NEW n \in Node, StartNode(n) PROVE DeadHoldNothing'
    BY <2>3, StartShape DEF DeadHoldNothing
  <2>4. CASE UNCHANGED vars
    BY <2>4 DEF DeadHoldNothing, vars
  <2> QED
    BY <2>1, <2>2, <2>3, <2>4, Steps
<1> QED
  BY <1>1, <1>2, <1>3 DEF Alone

\* The output of an uninterrupted run.
LEMMA OutputReference ==
    ASSUME Shape, NEW c \in Client, OutputRight(c), pc[c] = "done", ~forgot[c]
    PROVE  tokens[c] = Reference(c)
<1>1. /\ tokens[c] \in Seq(Token) /\ Len(tokens[c]) \in Nat /\ Len(tokens[c]) <= MaxNew[c]
      /\ MaxNew[c] \in Nat /\ StopAt[c] \in Nat
  BY ClientAssumption DEF Shape, TypeOK, AttemptTypeOK
<1>2. /\ \A i \in 1 .. Len(tokens[c]) : tokens[c][i] = [request |-> c, index |-> i - 1]
      /\ Len(tokens[c]) <= StopAt[c]
      /\ Len(tokens[c]) = MaxNew[c] \/ Len(tokens[c]) = StopAt[c]
  BY DEF OutputRight
<1>3. Len(tokens[c]) = IF StopAt[c] < MaxNew[c] THEN StopAt[c] ELSE MaxNew[c]
  BY <1>1, <1>2
<1>4. tokens[c] = [i \in 1 .. Len(tokens[c]) |-> tokens[c][i]]
  BY <1>1
<1> QED
  BY <1>2, <1>3, <1>4 DEF Reference

\* What the deletes leave of a request that is answered.
LEMMA NothingLeft ==
    ASSUME NEW c \in Client, CachesRight(c), pc[c] = "done", upsets = 0
    PROVE  \A k \in Slots : k[2] = JobOf(c) => kv[k] = 0
<1>1. \A x \in Decoders(c) : kv[CacheOf(c, x)] = 0
  BY DEF CachesRight, EndsPending
<1> HIDE DEF Slots
<1> QED
  BY <1>1 DEF CachesRight, OwnCaches

\* A request that shares its job ids with nobody is answered with the output of
\* an uninterrupted run unless a node took its caches away, and leaves none
\* behind. Every chat is one (v1_chat draws a uuid), whoever else generates on
\* the same nodes under whatever ids.
THEOREM AloneIsServed ==
    Spec => [](\A c \in Client : Alone(c) /\ pc[c] = "done" =>
                 /\ ~forgot[c] => tokens[c] = Reference(c)
                 /\ upsets = 0 => \A n \in Node, x \in 1 .. NumLayers : kv[<<n, JobOf(c), x>>] = 0)
<1> DEFINE Served == \A c \in Client : Alone(c) /\ pc[c] = "done" =>
             /\ ~forgot[c] => tokens[c] = Reference(c)
             /\ upsets = 0 => \A n \in Node, x \in 1 .. NumLayers : kv[<<n, JobOf(c), x>>] = 0
<1>1. CacheInvariant => Served
  <2> SUFFICES ASSUME CacheInvariant, NEW c \in Client, Alone(c), pc[c] = "done"
               PROVE  /\ ~forgot[c] => tokens[c] = Reference(c)
                      /\ upsets = 0 => \A n \in Node, x \in 1 .. NumLayers :
                                          kv[<<n, JobOf(c), x>>] = 0
    OBVIOUS
  <2>1. Shape /\ CachesRight(c)
    BY DEF CacheInvariant
  <2>2. ~forgot[c] => tokens[c] = Reference(c)
    BY <2>1, OutputReference DEF CachesRight
  <2>3. ASSUME upsets = 0, NEW n \in Node, NEW x \in 1 .. NumLayers
        PROVE  kv[<<n, JobOf(c), x>>] = 0
    <3>1. JobOf(c) \in JobIds
      BY <2>1, JobShape DEF Shape, TypeOK
    <3>2. <<n, JobOf(c), x>> \in Slots
      BY <3>1 DEF Slots
    <3> QED
      BY <2>1, <2>3, <3>2, NothingLeft
  <2> QED
    BY <2>2, <2>3
<1>2. Spec => []Served
  BY <1>1, CacheInit, CacheNext, PTL DEF Spec
<1> QED
  BY <1>2

\* AnswerIsReference with any number of chats and at most one `infer --peer` on
\* the network. Two of them share the ids "job0", "job1", ... and break it, which
\* is what JobIdsAreFresh is about.
THEOREM AnswersAreReference ==
    ASSUME \A c, d \in Client \ Entry : c = d
    PROVE  Spec => []AnswerIsReference
<1> DEFINE Served == \A c \in Client : Alone(c) /\ pc[c] = "done" =>
             /\ ~forgot[c] => tokens[c] = Reference(c)
             /\ upsets = 0 => \A n \in Node, x \in 1 .. NumLayers : kv[<<n, JobOf(c), x>>] = 0
<1>1. \A c \in Client : Alone(c)
  BY DEF Alone
<1>2. Served => AnswerIsReference
  BY <1>1 DEF AnswerIsReference
<1>3. Spec => []Served
  BY AloneIsServed
<1> QED
  BY <1>2, <1>3, PTL

\* AnsweredLeaveNoCache under the same condition: as long as no call was lost or
\* cut, the DELETE calls reach every node that still holds a cache of the job.
THEOREM AnsweredLeaveNothing ==
    ASSUME \A c, d \in Client \ Entry : c = d
    PROVE  Spec => []AnsweredLeaveNoCache
<1> DEFINE Served == \A c \in Client : Alone(c) /\ pc[c] = "done" =>
             /\ ~forgot[c] => tokens[c] = Reference(c)
             /\ upsets = 0 => \A n \in Node, x \in 1 .. NumLayers : kv[<<n, JobOf(c), x>>] = 0
<1>1. \A c \in Client : Alone(c)
  BY DEF Alone
<1>2. Served => AnsweredLeaveNoCache
  BY <1>1 DEF AnsweredLeaveNoCache
<1>3. Spec => []Served
  BY AloneIsServed
<1> QED
  BY <1>2, <1>3, PTL

-----------------------------------------------------------------------------
(* The job log of the chats *)

\* The stages that n holds of the chain of c, and those before one of them.
Held(c, n) == {x \in DOMAIN chain[c] : chain[c][x] = n}
HeldBefore(c, n, i) == {x \in Held(c, n) : x < i}

\* How often the chain was gone through: once for each token, and once for the
\* stop token.
ThroughOnceMore(c) ==
    pc[c] = "choose" \/ (pc[c] \in {"end", "done"} /\ Len(tokens[c]) < MaxNew[c])

Passes(c) == IF ThroughOnceMore(c) THEN Len(tokens[c]) + 1 ELSE Len(tokens[c])

RowTells(c) ==
    /\ pc[c] = "idle" => rows[c].status = "NONE"
    /\ pc[c] \in Running => rows[c].status = "RUNNING" /\ Home[c] \in up
    /\ pc[c] = "done" => rows[c].status = "DONE" /\ rows[c].result = tokens[c]
    /\ pc[c] = "refused" => rows[c].status \in {"NONE", "FAILED"}
    /\ pc[c] = "cut" => \/ rows[c].status = "INTERRUPTED"
                        \/ rows[c].status = "RUNNING" /\ Home[c] \notin up

\* Receipts are counted as the hops are answered and stored at the end.
CountsTell(c) ==
    /\ pc[c] = "idle" => \A n \in Node : acked[c][n] = 0
    /\ pc[c] \in {"idle"} \cup Running => \A n \in Node : receipts[c][n] = 0
    /\ pc[c] \in Running => \A n \in Node : acked[c][n] =
         Cardinality(Held(c, n)) * Passes(c)
             + (IF pc[c] = "call" THEN Cardinality(HeldBefore(c, n, at[c])) ELSE 0)
    /\ pc[c] = "done" => \A n \in Node : receipts[c][n] = Cardinality(Held(c, n)) * Passes(c)

LogTells(c) == RowTells(c) /\ CountsTell(c)

LEMMA HeldFinite ==
    ASSUME Shape, NEW c \in Client, NEW n
    PROVE  /\ IsFiniteSet(Held(c, n)) /\ Cardinality(Held(c, n)) \in Nat
           /\ \A i : IsFiniteSet(HeldBefore(c, n, i)) /\ Cardinality(HeldBefore(c, n, i)) \in Nat
<1>1. DOMAIN chain[c] \subseteq 0 .. HeadAt(NumLayers)
  BY DEF Shape, TypeOK, AttemptTypeOK
<1>2. IsFiniteSet(0 .. HeadAt(NumLayers))
  BY NodeAssumption, FS_Interval
<1>3. IsFiniteSet(Held(c, n))
  BY <1>1, <1>2, FS_Subset DEF Held
<1>4. \A i : IsFiniteSet(HeldBefore(c, n, i))
  BY <1>3, FS_Subset DEF HeldBefore
<1> QED
  BY <1>3, <1>4, FS_CardinalityType

\* The block that was called is one more, at the node that has it.
LEMMA HeldAdvances ==
    ASSUME Shape, NEW c \in Client, pc[c] = "call", NEW n, NEW next,
           \A x \in DOMAIN chain[c] : x < next <=> (x < at[c] \/ x = at[c])
    PROVE  Cardinality(HeldBefore(c, n, next)) =
               Cardinality(HeldBefore(c, n, at[c])) + (IF chain[c][at[c]] = n THEN 1 ELSE 0)
<1>1. at[c] \in DOMAIN chain[c] /\ at[c] \in Nat
  BY DEF Shape, TypeOK, AttemptTypeOK, RequestWellFormed
<1>2. CASE chain[c][at[c]] = n
  <2>1. HeldBefore(c, n, next) = HeldBefore(c, n, at[c]) \cup {at[c]}
    BY <1>1, <1>2 DEF HeldBefore, Held
  <2>2. at[c] \notin HeldBefore(c, n, at[c])
    BY <1>1 DEF HeldBefore
  <2>3. IsFiniteSet(HeldBefore(c, n, at[c]))
    BY HeldFinite
  <2>4. Cardinality(HeldBefore(c, n, at[c]) \cup {at[c]}) = Cardinality(HeldBefore(c, n, at[c])) + 1
    BY <2>2, <2>3, FS_AddElement
  <2> QED
    BY <1>2, <2>1, <2>4
<1>3. CASE chain[c][at[c]] # n
  <2>1. HeldBefore(c, n, next) = HeldBefore(c, n, at[c])
    BY <1>1, <1>3 DEF HeldBefore, Held
  <2> QED
    BY <1>3, <2>1, HeldFinite
<1> QED
  BY <1>2, <1>3

LEMMA WriteStored ==
    ASSUME TypeOK, NEW newRows, NEW newReceipts, Write(newRows, newReceipts), losses' = 0
    PROVE  losses = 0 /\ rows' = newRows /\ receipts' = newReceipts
BY DEF Write, TypeOK, LogTypeOK

\* The log of c is written by c alone.
LEMMA OthersLog ==
    ASSUME Shape, NEW c \in Entry, NEW d \in Client, d # c, Serve(d), losses' = 0
    PROVE  losses = 0 /\ UNCHANGED <<rows[c], receipts[c], acked[c]>>
<1>0. /\ TypeOK /\ rows \in [Entry -> Row] /\ receipts \in [Entry -> [Node -> Nat]]
      /\ acked \in [Entry -> [Node -> Nat]]
  BY DEF Shape, TypeOK, LogTypeOK, AttemptTypeOK
<1>1. \/ UNCHANGED logVars
      \/ /\ d \in Entry
         /\ \/ Write(CreateJob(rows, d), receipts)
            \/ Write(Fail(rows, d), AddReceipts(receipts, d, acked'[d]))
            \/ Write(Finish(rows, d, tokens[d]), AddReceipts(receipts, d, acked[d]))
  <2>1. CASE Chat(d)
    BY <2>1 DEF Chat
  <2>2. CASE HopFails(d) \/ ChatRejected(d)
    BY <2>2, FailShape
  <2>3. CASE Answer(d)
    BY <2>3 DEF Answer
  <2>4. CASE Infer(d) \/ Refresh(d) \/ GiveUp(d) \/ Resolve(d) \/ Hop(d) \/ Stop(d) \/ Emit(d)
             \/ Kill(d) \/ \E n \in Node : EndJob(d, n)
    BY <2>4 DEF Infer, Refresh, GiveUp, Resolve, Hop, Stop, Emit, Kill, EndJob
  <2> QED
    BY <2>1, <2>2, <2>3, <2>4 DEF Serve, Drive
<1>2. losses = 0 /\ UNCHANGED <<rows[c], receipts[c]>>
  <2>1. CASE UNCHANGED logVars
    BY <2>1 DEF logVars
  <2>2. CASE d \in Entry /\ Write(CreateJob(rows, d), receipts)
    <3>1. losses = 0 /\ rows' = CreateJob(rows, d) /\ receipts' = receipts
      BY <1>0, <2>2, WriteStored
    <3> QED
      BY <1>0, <2>2, <3>1 DEF CreateJob
  <2>3. CASE d \in Entry /\ Write(Fail(rows, d), AddReceipts(receipts, d, acked'[d]))
    <3>1. losses = 0 /\ rows' = Fail(rows, d) /\ receipts' = AddReceipts(receipts, d, acked'[d])
      BY <1>0, <2>3, WriteStored
    <3> QED
      BY <1>0, <2>3, <3>1 DEF Fail, SetStatus, UpdateRow, AddReceipts
  <2>4. CASE d \in Entry /\ Write(Finish(rows, d, tokens[d]), AddReceipts(receipts, d, acked[d]))
    <3>1. losses = 0 /\ rows' = Finish(rows, d, tokens[d]) /\ receipts' = AddReceipts(receipts, d, acked[d])
      BY <1>0, <2>4, WriteStored
    <3> QED
      BY <1>0, <2>4, <3>1 DEF Finish, UpdateRow, AddReceipts
  <2> QED
    BY <1>1, <2>1, <2>2, <2>3, <2>4
<1>3. UNCHANGED acked[c]
  <2>1. acked' = acked \/ acked' = Acked(d)
    <3>1. CASE Chat(d)
      BY <3>1 DEF Chat, Begin, attemptVars
    <3>2. CASE HopFails(d) \/ ChatRejected(d)
      BY <3>2, FailShape
    <3>3. CASE Resolve(d)
      BY <3>3 DEF Resolve, Begin
    <3>4. CASE Infer(d) \/ Refresh(d) \/ GiveUp(d) \/ Hop(d) \/ Stop(d) \/ Emit(d) \/ Answer(d)
               \/ Kill(d) \/ \E n \in Node : EndJob(d, n)
      BY <3>4 DEF Infer, Refresh, GiveUp, Hop, Stop, Emit, Answer, Kill, EndJob, attemptVars
    <3> QED
      BY <3>1, <3>2, <3>3, <3>4 DEF Serve, Drive
  <2> QED
    BY <1>0, <2>1 DEF Acked
<1> QED
  BY <1>2, <1>3

LEMMA LogChat ==
    ASSUME Shape, NEW c \in Entry, LogTells(c), Chat(c), losses' = 0
    PROVE  losses = 0 /\ LogTells(c)'
<1>0. /\ TypeOK /\ RequestWellFormed(c) /\ c \in Client /\ rows \in [Entry -> Row]
      /\ tokens[c] = <<>> /\ pc[c] = "idle" /\ Home[c] \in up /\ UNCHANGED up
  BY ClientAssumption DEF Shape, TypeOK, LogTypeOK, Chat, RequestWellFormed
<1>1. CASE \E nodes \in SUBSET Node : \E route \in Chains(nodes) :
             Begin(c, route) /\ Write(CreateJob(rows, c), receipts)
  <2> PICK nodes \in SUBSET Node : \E route \in Chains(nodes) :
             Begin(c, route) /\ Write(CreateJob(rows, c), receipts)
    BY <1>1
  <2> PICK route \in Chains(nodes) : Begin(c, route) /\ Write(CreateJob(rows, c), receipts)
    OBVIOUS
  <2>1. losses = 0 /\ rows' = CreateJob(rows, c) /\ receipts' = receipts
    BY <1>0, WriteStored
  <2>2. /\ at'[c] = EmbedAt /\ UNCHANGED <<tokens, acked>>
        /\ \/ pc'[c] = "call"
           \/ ~(Len(tokens[c]) < MaxNew[c]) /\ pc'[c] = "end"
    BY <1>0, BeginShape
  <2>3. RowTells(c)'
    BY <1>0, <2>1, <2>2 DEF RowTells, CreateJob, NewRow, Running
  <2>4. CountsTell(c)'
    <3>1. Passes(c)' = 0
      <4>1. tokens'[c] = <<>> /\ Len(tokens'[c]) = 0
        BY <1>0, <2>2
      <4>2. ~ThroughOnceMore(c)'
        BY <2>2, <4>1 DEF ThroughOnceMore
      <4> QED
        BY <4>1, <4>2 DEF Passes
    <3>2. ASSUME NEW n \in Node
          PROVE  Cardinality(Held(c, n)') \in Nat /\ Cardinality(HeldBefore(c, n, at[c])') = 0
      <4>1. Shape'
        <5>1. Serve(c)
          BY DEF Serve
        <5> QED
          BY <1>0, <5>1, ShapeServe
      <4>2. IsFiniteSet(Held(c, n)') /\ Cardinality(Held(c, n)') \in Nat
        <5>1. /\ DOMAIN chain'[c] \subseteq 0 .. HeadAt(NumLayers)
              /\ IsFiniteSet(0 .. HeadAt(NumLayers))
          <6>1. DOMAIN chain'[c] \subseteq 0 .. HeadAt(NumLayers)
            BY <1>0, <4>1 DEF Shape, TypeOK, AttemptTypeOK
          <6> QED
            BY <6>1, NodeAssumption, FS_Interval
        <5>2. IsFiniteSet(Held(c, n)')
          BY <5>1, FS_Subset DEF Held
        <5> QED
          BY <5>2, FS_CardinalityType
      <4>3. HeldBefore(c, n, at[c])' = {}
        <5>1. DOMAIN chain'[c] \subseteq 0 .. HeadAt(NumLayers)
          BY <1>0, <4>1 DEF Shape, TypeOK, AttemptTypeOK
        <5> QED
          BY <2>2, <5>1, NodeAssumption DEF HeldBefore, Held
      <4> QED
        BY <4>2, <4>3, FS_EmptySet
    <3>3. \A n \in Node : acked'[c][n] = 0 /\ receipts'[c][n] = 0
      BY <1>0, <2>1, <2>2 DEF LogTells, CountsTell
    <3> QED
      BY <2>2, <3>1, <3>2, <3>3 DEF CountsTell, Running
  <2> QED
    BY <2>1, <2>3, <2>4 DEF LogTells
<1>2. CASE pc' = [pc EXCEPT ![c] = "refused"] /\ UNCHANGED <<attemptVars, logVars>>
  <2>1. pc'[c] = "refused" /\ UNCHANGED <<rows, losses>>
    BY <1>0, <1>2 DEF TypeOK, logVars
  <2> QED
    BY <1>0, <2>1 DEF LogTells, RowTells, CountsTell, Running
<1> QED
  BY <1>1, <1>2 DEF Chat

LEMMA LogHop ==
    ASSUME Shape, NEW c \in Entry, LogTells(c), Hop(c), losses' = 0
    PROVE  losses = 0 /\ LogTells(c)'
<1>0. TypeOK /\ RequestWellFormed(c) /\ c \in Client
  BY ClientAssumption DEF Shape
<1>1. /\ pc[c] = "call" /\ at[c] \in DOMAIN chain[c]
      /\ \/ /\ at[c] = HeadAt(NumLayers)
            /\ pc'[c] = "choose" /\ at'[c] = at[c]
         \/ /\ at[c] # HeadAt(NumLayers)
            /\ pc'[c] = "call" /\ at'[c] = NextAt(c)
      /\ UNCHANGED <<up, chain, tokens, logVars>>
  BY <1>0, HopShape DEF RequestWellFormed
<1>2. /\ chain[c][at[c]] \in Node
      /\ acked'[c] = [acked[c] EXCEPT ![chain[c][at[c]]] = @ + 1]
      /\ acked[c] \in [Node -> Nat]
  BY <1>0, <1>1 DEF Hop, Acked, TypeOK, AttemptTypeOK, ChainNodes
<1>3. RowTells(c)'
  BY <1>1 DEF LogTells, RowTells, logVars, Running
<1>4. CountsTell(c)'
  <2>1. \A n \in Node : receipts'[c][n] = 0
    BY <1>1 DEF LogTells, CountsTell, logVars, Running
  <2>2. ASSUME NEW n \in Node
        PROVE  acked'[c][n] = Cardinality(Held(c, n)) * Passes(c)'
                 + (IF pc'[c] = "call" THEN Cardinality(HeldBefore(c, n, at'[c])) ELSE 0)
    <3>1. acked[c][n] =
            Cardinality(Held(c, n)) * Len(tokens[c]) + Cardinality(HeldBefore(c, n, at[c]))
      <4>1. Passes(c) = Len(tokens[c])
        BY <1>1 DEF Passes, ThroughOnceMore
      <4> QED
        BY <1>1, <4>1 DEF LogTells, CountsTell, Running
    <3>2. acked'[c][n] = acked[c][n] + (IF chain[c][at[c]] = n THEN 1 ELSE 0)
      BY <1>2
    <3>3. /\ Cardinality(Held(c, n)) \in Nat /\ Len(tokens[c]) \in Nat
          /\ Cardinality(HeldBefore(c, n, at[c])) \in Nat
      <4>1. Len(tokens[c]) \in Nat
        BY <1>0 DEF TypeOK, AttemptTypeOK
      <4> QED
        BY <1>0, <4>1, HeldFinite
    <3>4. /\ DOMAIN chain[c] \subseteq 0 .. HeadAt(NumLayers) /\ at[c] \in Nat
          /\ HeadAt(NumLayers) \in Nat
      BY <1>0, <1>1, NodeAssumption DEF TypeOK, AttemptTypeOK
    <3>5. CASE at[c] # HeadAt(NumLayers)
      <4>1. /\ NextAt(c) \in DOMAIN chain[c] /\ NextAt(c) > at[c]
            /\ \A z \in DOMAIN chain[c] : z > at[c] => NextAt(c) <= z
        BY <1>0, <1>1, <3>5, NextShape
      <4>2. \A x \in DOMAIN chain[c] : x < NextAt(c) <=> (x < at[c] \/ x = at[c])
        <5>1. NextAt(c) \in Nat
          BY <3>4, <4>1
        <5> QED
          BY <3>4, <4>1, <5>1
      <4>3. Cardinality(HeldBefore(c, n, NextAt(c))) =
              Cardinality(HeldBefore(c, n, at[c])) + (IF chain[c][at[c]] = n THEN 1 ELSE 0)
        BY <1>0, <1>1, <4>2, HeldAdvances
      <4>4. Passes(c)' = Len(tokens[c]) /\ pc'[c] = "call" /\ at'[c] = NextAt(c)
        BY <1>1, <3>5 DEF Passes, ThroughOnceMore
      <4> DEFINE total == Cardinality(Held(c, n)) * Len(tokens[c])
      <4>5. total \in Nat
        BY <3>3
      <4> HIDE DEF total
      <4> QED
        BY <3>1, <3>2, <3>3, <4>3, <4>4, <4>5 DEF total
    <3>6. CASE at[c] = HeadAt(NumLayers)
      <4>1. \A x \in DOMAIN chain[c] : x < HeadAt(NumLayers) + 1 <=> (x < at[c] \/ x = at[c])
        BY <3>4, <3>6
      <4>2. Cardinality(HeldBefore(c, n, HeadAt(NumLayers) + 1)) =
              Cardinality(HeldBefore(c, n, at[c])) + (IF chain[c][at[c]] = n THEN 1 ELSE 0)
        BY <1>0, <1>1, <4>1, HeldAdvances
      <4>3. HeldBefore(c, n, HeadAt(NumLayers) + 1) = Held(c, n)
        BY <3>4 DEF HeldBefore, Held
      <4>4. Passes(c)' = Len(tokens[c]) + 1 /\ pc'[c] = "choose"
        BY <1>1, <3>6 DEF Passes, ThroughOnceMore
      <4>5. \A s, l \in Nat : s * (l + 1) = s * l + s /\ s * l \in Nat
        OBVIOUS
      <4> DEFINE total == Cardinality(Held(c, n)) * Len(tokens[c])
      <4>6. /\ total \in Nat
            /\ Cardinality(Held(c, n)) * (Len(tokens[c]) + 1) = total + Cardinality(Held(c, n))
        BY <3>3, <4>5
      <4>7. acked[c][n] = total + Cardinality(HeldBefore(c, n, at[c]))
        BY <3>1
      <4> HIDE DEF total
      <4>8. acked'[c][n] = total + Cardinality(Held(c, n))
        BY <3>2, <3>3, <4>2, <4>3, <4>6, <4>7
      <4> QED
        BY <3>3, <4>4, <4>6, <4>8
    <3> QED
      BY <3>5, <3>6
  <2>3. \A n, i : Held(c, n)' = Held(c, n) /\ HeldBefore(c, n, at[c])' = HeldBefore(c, n, at'[c])
    BY <1>1 DEF Held, HeldBefore
  <2> QED
    BY <1>1, <2>1, <2>2, <2>3 DEF CountsTell, Running
<1> QED
  BY <1>1, <1>3, <1>4 DEF LogTells, logVars

LEMMA LogFails ==
    ASSUME Shape, NEW c \in Entry, LogTells(c), HopFails(c) \/ ChatRejected(c), losses' = 0
    PROVE  losses = 0 /\ LogTells(c)'
<1>0. TypeOK /\ c \in Client /\ rows \in [Entry -> Row]
  BY ClientAssumption DEF Shape, TypeOK, LogTypeOK
<1>1. /\ pc[c] = "call" /\ pc'[c] = "refused"
      /\ Write(Fail(rows, c), AddReceipts(receipts, c, acked'[c]))
  BY <1>0, FailShape
<1>2. losses = 0 /\ rows' = Fail(rows, c)
  BY <1>0, <1>1, WriteStored
<1>3. rows[c].status = "RUNNING"
  BY <1>1 DEF LogTells, RowTells, Running
<1>4. rows'[c].status = "FAILED"
  BY <1>0, <1>2, <1>3 DEF Fail, SetStatus, UpdateRow, Row
<1> QED
  BY <1>1, <1>2, <1>4 DEF LogTells, RowTells, CountsTell, Running

LEMMA LogChoose ==
    ASSUME Shape, NEW c \in Entry, LogTells(c), Stop(c) \/ Emit(c), losses' = 0
    PROVE  losses = 0 /\ LogTells(c)'
<1>0. TypeOK /\ RequestWellFormed(c) /\ c \in Client
  BY ClientAssumption DEF Shape
<1>1. pc[c] = "choose" /\ UNCHANGED <<up, chain, acked, logVars>>
  BY DEF Stop, Emit
<1>2. /\ Len(tokens[c]) < MaxNew[c] /\ tokens[c] \in Seq(Token) /\ Len(tokens[c]) \in Nat
      /\ MaxNew[c] \in Nat
  BY <1>0, <1>1, ClientAssumption DEF RequestWellFormed, TypeOK, AttemptTypeOK
<1>3. \/ Stop(c) /\ pc'[c] = "end" /\ UNCHANGED tokens
      \/ Emit(c) /\ pc'[c] = "end" /\ ~(Len(tokens[c]) + 1 < MaxNew[c])
      \/ Emit(c) /\ pc'[c] = "call" /\ at'[c] = EmbedAt
  BY <1>0 DEF Stop, Emit, TypeOK, AttemptTypeOK
<1>4. Emit(c) => Len(tokens'[c]) = Len(tokens[c]) + 1
  <2>1. Produced(c) \in Token
    BY <1>0, ProducedShape
  <2>2. Emit(c) => tokens'[c] = Append(tokens[c], Produced(c))
    BY <1>0 DEF Emit, TypeOK, AttemptTypeOK
  <2> QED
    BY <1>2, <2>1, <2>2
<1>5. Passes(c)' = Passes(c)
  <2>1. Passes(c) = Len(tokens[c]) + 1
    BY <1>1 DEF Passes, ThroughOnceMore
  <2>2. CASE Stop(c) /\ pc'[c] = "end" /\ UNCHANGED tokens
    BY <1>2, <2>1, <2>2 DEF Passes, ThroughOnceMore
  <2>3. CASE Emit(c) /\ ~(Len(tokens[c]) + 1 < MaxNew[c]) /\ pc'[c] = "end"
    BY <1>4, <2>1, <2>3 DEF Passes, ThroughOnceMore
  <2>4. CASE Emit(c) /\ pc'[c] = "call"
    BY <1>4, <2>1, <2>4 DEF Passes, ThroughOnceMore
  <2> QED
    BY <1>3, <2>2, <2>3, <2>4
<1>6. RowTells(c)'
  BY <1>1, <1>3 DEF LogTells, RowTells, logVars, Running
<1>7. CountsTell(c)'
  <2>1. \A n : Held(c, n)' = Held(c, n)
    BY <1>1 DEF Held
  <2>2. \A n \in Node : acked[c][n] = Cardinality(Held(c, n)) * Passes(c) + 0
    BY <1>1 DEF LogTells, CountsTell, Running
  <2>3. ASSUME pc'[c] = "call", NEW n PROVE Cardinality(HeldBefore(c, n, at[c])') = 0
    <3>1. at'[c] = EmbedAt /\ DOMAIN chain'[c] \subseteq 0 .. HeadAt(NumLayers)
      BY <1>0, <1>1, <1>3, <2>3 DEF TypeOK, AttemptTypeOK
    <3>2. HeldBefore(c, n, at[c])' = {}
      BY <3>1, NodeAssumption DEF HeldBefore, Held
    <3> QED
      BY <3>2, FS_EmptySet
  <2>4. \A n \in Node : receipts'[c][n] = 0
    BY <1>1 DEF LogTells, CountsTell, logVars, Running
  <2> QED
    BY <1>1, <1>3, <1>5, <2>1, <2>2, <2>3, <2>4 DEF CountsTell, Running
<1> QED
  BY <1>1, <1>6, <1>7 DEF LogTells, logVars

LEMMA LogEnd ==
    ASSUME Shape, NEW c \in Entry, LogTells(c), Answer(c) \/ \E n \in Node : EndJob(c, n),
           losses' = 0
    PROVE  losses = 0 /\ LogTells(c)'
<1>0. /\ TypeOK /\ c \in Client /\ rows \in [Entry -> Row] /\ receipts \in [Entry -> [Node -> Nat]]
      /\ acked \in [Entry -> [Node -> Nat]] /\ Len(tokens[c]) \in Nat
  BY ClientAssumption DEF Shape, TypeOK, LogTypeOK, AttemptTypeOK
<1>1. CASE \E n \in Node : EndJob(c, n)
  <2>1. UNCHANGED <<up, pc, chain, at, tokens, acked, logVars>> /\ pc[c] = "end"
    BY <1>1 DEF EndJob
  <2>2. \A n : Held(c, n)' = Held(c, n)
    BY <2>1 DEF Held
  <2>3. Passes(c)' = Passes(c)
    BY <2>1 DEF Passes, ThroughOnceMore
  <2> QED
    BY <2>1, <2>2, <2>3 DEF LogTells, RowTells, CountsTell, logVars, Running
<1>2. CASE Answer(c)
  <2>1. /\ pc[c] = "end" /\ pc'[c] = "done" /\ UNCHANGED attemptVars
        /\ Write(Finish(rows, c, tokens[c]), AddReceipts(receipts, c, acked[c]))
    BY <1>0, <1>2 DEF Answer, TypeOK
  <2>2. /\ losses = 0 /\ rows' = Finish(rows, c, tokens[c])
        /\ receipts' = AddReceipts(receipts, c, acked[c])
    BY <1>0, <2>1, WriteStored
  <2>3. rows[c].status = "RUNNING"
    BY <2>1 DEF LogTells, RowTells, Running
  <2>4. rows'[c].status = "DONE" /\ rows'[c].result = tokens'[c]
    BY <1>0, <2>1, <2>2, <2>3 DEF Finish, UpdateRow, Row, attemptVars
  <2>5. ASSUME NEW n \in Node
        PROVE  receipts'[c][n] = Cardinality(Held(c, n)) * Passes(c)
    <3>1. receipts'[c][n] = receipts[c][n] + acked[c][n]
      BY <1>0, <2>2 DEF AddReceipts
    <3>2. receipts[c][n] = 0 /\ acked[c][n] = Cardinality(Held(c, n)) * Passes(c) + 0
      BY <2>1 DEF LogTells, CountsTell, Running
    <3>3. Cardinality(Held(c, n)) * Passes(c) \in Nat
      <4>1. Cardinality(Held(c, n)) \in Nat /\ Passes(c) \in Nat
        <5>1. Passes(c) \in Nat
          BY <1>0 DEF Passes
        <5> QED
          BY <1>0, <5>1, HeldFinite
      <4>2. \A s, l \in Nat : s * l \in Nat
        OBVIOUS
      <4> QED
        BY <4>1, <4>2
    <3> DEFINE total == Cardinality(Held(c, n)) * Passes(c)
    <3>4. total \in Nat /\ acked[c][n] = total + 0
      BY <3>2, <3>3
    <3> HIDE DEF total
    <3>5. receipts'[c][n] = total
      BY <3>1, <3>2, <3>4
    <3> QED
      BY <3>5 DEF total
  <2>6. Passes(c)' = Passes(c) /\ \A n : Held(c, n)' = Held(c, n)
    BY <2>1 DEF Passes, ThroughOnceMore, Held, attemptVars
  <2> QED
    BY <2>1, <2>2, <2>4, <2>5, <2>6 DEF LogTells, RowTells, CountsTell, Running
<1> QED
  BY <1>1, <1>2

LEMMA LogServe ==
    ASSUME Shape, NEW c \in Entry, LogTells(c), NEW d \in Client, Serve(d), losses' = 0
    PROVE  losses = 0 /\ LogTells(c)'
<1>0. TypeOK /\ RequestWellFormed(c) /\ c \in Client
  BY ClientAssumption DEF Shape
<1>1. CASE d = c
  <2>1. ~(Infer(c) \/ Refresh(c) \/ GiveUp(c) \/ Resolve(c) \/ Kill(c))
    BY <1>0 DEF Infer, Refresh, GiveUp, Resolve, Kill, RequestWellFormed
  <2> QED
    BY <1>1, <2>1, LogChat, LogHop, LogFails, LogChoose, LogEnd DEF Serve, Drive
<1>2. CASE d # c
  <2>1. /\ losses = 0 /\ UNCHANGED <<rows[c], receipts[c], acked[c]>>
        /\ UNCHANGED TaskOf(c) /\ UNCHANGED up
    BY <1>0, <1>2, OthersLog, OthersKept
  <2>2. Passes(c)' = Passes(c) /\ \A n, i : Held(c, n)' = Held(c, n)
    BY <2>1 DEF TaskOf, Passes, ThroughOnceMore, Held
  <2>3. \A n : HeldBefore(c, n, at[c])' = HeldBefore(c, n, at[c])
    BY <2>1, <2>2 DEF TaskOf, HeldBefore
  <2>4. RowTells(c)'
    BY <2>1 DEF TaskOf, LogTells, RowTells
  <2>5. CountsTell(c)'
    BY <2>1, <2>2, <2>3 DEF TaskOf, LogTells, CountsTell
  <2> QED
    BY <2>1, <2>4, <2>5 DEF LogTells
<1> QED
  BY <1>1, <1>2

\* A node that stops cuts its chats; when it starts again its log says so.
LEMMA LogNode ==
    ASSUME Shape, NEW c \in Entry, LogTells(c), NEW n \in Node, StopNode(n) \/ StartNode(n),
           losses' = 0
    PROVE  losses = 0 /\ LogTells(c)'
<1>0. /\ TypeOK /\ c \in Client /\ rows \in [Entry -> Row] /\ Home[c] \in Node
  BY ClientAssumption DEF Shape, TypeOK, LogTypeOK
<1>1. CASE StopNode(n)
  <2>1. /\ up' = up \ {n} /\ UNCHANGED <<planVars, attemptVars, logVars>>
        /\ pc'[c] = IF pc[c] \in Running /\ Home[c] = n THEN "cut" ELSE pc[c]
    BY <1>0, <1>1, StopShape
  <2>2. \A k : Held(c, k)' = Held(c, k) /\ HeldBefore(c, k, at[c])' = HeldBefore(c, k, at[c])
    BY <2>1 DEF Held, HeldBefore, attemptVars
  <2>3. pc'[c] = pc[c] => Passes(c)' = Passes(c)
    BY <2>1 DEF Passes, ThroughOnceMore, attemptVars
  <2>4. RowTells(c)'
    BY <2>1 DEF LogTells, RowTells, Running, logVars, attemptVars
  <2>5. CountsTell(c)'
    BY <2>1, <2>2, <2>3 DEF LogTells, CountsTell, Running, logVars, attemptVars
  <2> QED
    BY <2>1, <2>4, <2>5 DEF LogTells, logVars
<1>2. CASE StartNode(n)
  <2> DEFINE recovered == [k \in Entry |-> IF Home[k] = n THEN Recover(rows)[k] ELSE rows[k]]
  <2>1. /\ n \notin up /\ up' = up \cup {n} /\ UNCHANGED <<pc, planVars, attemptVars>>
        /\ Write(recovered, receipts)
    BY <1>2 DEF StartNode
  <2>2. losses = 0 /\ rows' = recovered /\ receipts' = receipts
    <3> HIDE DEF recovered
    <3> QED
      BY <1>0, <2>1, WriteStored
  <2>3. rows'[c] = IF Home[c] = n /\ rows[c].status \in {"RUNNING", "WAITING_COVERAGE"}
                   THEN [rows[c] EXCEPT !.status = "INTERRUPTED"] ELSE rows[c]
    BY <1>0, <2>2 DEF Recover
  <2>4. rows[c] \in Row
    BY <1>0
  <2>5. RowTells(c)'
    BY <2>1, <2>3, <2>4 DEF LogTells, RowTells, Running, Row, attemptVars
  <2>6. CountsTell(c)'
    BY <2>1, <2>2 DEF LogTells, CountsTell, attemptVars, Held, HeldBefore, Passes, ThroughOnceMore
  <2> QED
    BY <2>2, <2>5, <2>6 DEF LogTells
<1> QED
  BY <1>1, <1>2

LEMMA LossesGrow ==
    ASSUME Shape, [Next]_vars
    PROVE  losses' = losses \/ losses' = losses + 1
<1> DEFINE Logged == UNCHANGED logVars \/ \E newRows, newReceipts : Write(newRows, newReceipts)
<1>1. ASSUME NEW d \in Client, Serve(d) PROVE Logged
  <2>1. CASE HopFails(d) \/ ChatRejected(d)
    BY <2>1, FailShape
  <2>2. CASE Chat(d) \/ Answer(d)
    BY <2>2 DEF Chat, Answer
  <2>3. CASE Infer(d) \/ Refresh(d) \/ GiveUp(d) \/ Resolve(d) \/ Hop(d) \/ Stop(d)
             \/ Emit(d) \/ Kill(d) \/ \E n \in Node : EndJob(d, n)
    BY <2>3 DEF Infer, Refresh, GiveUp, Resolve, Hop, Stop, Emit, Kill, EndJob
  <2> QED
    BY <1>1, <2>1, <2>2, <2>3 DEF Serve, Drive
<1>2. ASSUME NEW n \in Node, StopNode(n) \/ StartNode(n) PROVE Logged
  BY <1>2 DEF StopNode, StartNode
<1>3. UNCHANGED vars => Logged
  BY DEF vars, logVars
<1>4. Logged
  BY <1>1, <1>2, <1>3, Steps
<1> QED
  BY <1>4 DEF logVars, Write

\* LogTellsOutcome: as long as no write of a job log raised, the row of a chat
\* says what became of it and the receipts of an answered one are the stages of
\* the passes it made, whatever failed, stopped and came back.
THEOREM LogTellsTruth == Spec => []LogTellsOutcome
<1> DEFINE Telling == losses = 0 => \A c \in Entry : LogTells(c)
           IInv == Shape /\ Telling
<1>1. Init => IInv
  <2> SUFFICES ASSUME Init, NEW c \in Entry PROVE LogTells(c)
    BY ShapeInit
  <2>1. c \in Client
    BY ClientAssumption
  <2> QED
    BY <2>1 DEF Init, NoRow, LogTells, RowTells, CountsTell, Running
<1>2. IInv /\ [Next]_vars => IInv'
  <2> SUFFICES ASSUME IInv, [Next]_vars, losses' = 0, NEW c \in Entry PROVE LogTells(c)'
    BY ShapeNext
  <2>3. losses = 0
    BY LossesGrow DEF Shape, TypeOK, LogTypeOK
  <2>4. LogTells(c)
    BY <2>3
  <2>5. CASE UNCHANGED vars
    BY <2>4, <2>5 DEF vars, logVars, attemptVars, LogTells, RowTells, CountsTell, Held, HeldBefore,
       Passes, ThroughOnceMore
  <2> QED
    BY <2>4, <2>5, Steps, LogServe, LogNode
<1>3. IInv => LogTellsOutcome
  <2> SUFFICES ASSUME IInv, losses = 0, NEW c \in Entry
               PROVE  /\ pc[c] \in Running => rows[c].status = "RUNNING"
                      /\ pc[c] = "done" => rows[c].status = "DONE" /\ rows[c].result = tokens[c]
                      /\ pc[c] = "refused" => rows[c].status \in {"NONE", "FAILED"}
                      /\ pc[c] = "cut" /\ Home[c] \in up => rows[c].status = "INTERRUPTED"
                      /\ pc[c] = "done" => \A n \in Node : receipts[c][n] =
                           Cardinality({x \in DOMAIN chain[c] : chain[c][x] = n})
                             * (Len(tokens[c]) + (IF Len(tokens[c]) < MaxNew[c] THEN 1 ELSE 0))
    BY DEF LogTellsOutcome, RowsTellOutcome, ReceiptsCountHops
  <2>1. LogTells(c)
    OBVIOUS
  <2>2. c \in Client /\ Len(tokens[c]) \in Nat
    BY ClientAssumption DEF Shape, TypeOK, AttemptTypeOK
  <2>3. ASSUME pc[c] = "done", NEW n \in Node
        PROVE  receipts[c][n] =
                 Cardinality({x \in DOMAIN chain[c] : chain[c][x] = n})
                   * (Len(tokens[c]) + (IF Len(tokens[c]) < MaxNew[c] THEN 1 ELSE 0))
    <3>1. Passes(c) = Len(tokens[c]) + (IF Len(tokens[c]) < MaxNew[c] THEN 1 ELSE 0)
      <4>1. ThroughOnceMore(c) <=> Len(tokens[c]) < MaxNew[c]
        BY <2>3 DEF ThroughOnceMore
      <4>2. CASE Len(tokens[c]) < MaxNew[c]
        BY <4>1, <4>2 DEF Passes
      <4>3. CASE ~(Len(tokens[c]) < MaxNew[c])
        BY <2>2, <4>1, <4>3 DEF Passes
      <4> QED
        BY <4>2, <4>3
    <3>2. receipts[c][n] = Cardinality(Held(c, n)) * Passes(c)
      BY <2>1, <2>3 DEF LogTells, CountsTell
    <3> QED
      BY <3>1, <3>2 DEF Held
  <2> QED
    BY <2>1, <2>3 DEF LogTells, RowTells
<1> QED
  BY <1>1, <1>2, <1>3, PTL DEF Spec

=============================================================================
