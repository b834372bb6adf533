-------------------------- MODULE CoordinatorProofs --------------------------
(***************************************************************************)
(* Proofs about Coordinator, for every swarm, every set of requests and    *)
(* every bound.                                                            *)
(***************************************************************************)
EXTENDS Coordinator, DiscoveryProofs

USE DEF EmbedAt, HeadAt, BlockAt, PastHead, PromptLen

-----------------------------------------------------------------------------
(* What the operators return *)

\* A chain is made of candidates, has an embedding and a head, and places its
\* blocks between them.
LEMMA ChainShape ==
    ASSUME NEW r \in Request, NEW route \in Chains(r)
    PROVE  /\ DOMAIN route \subseteq 0 .. HeadAt(NumLayers)
           /\ EmbedAt \in DOMAIN route
           /\ HeadAt(NumLayers) \in DOMAIN route
           /\ \A x \in DOMAIN route : route[x] \in Conns \ excluded[r]
<1>1. DOMAIN Candidates(r) = Conns \ excluded[r]
  BY DEF Candidates
<1>2. route \in [Positions(Candidates(r), NumLayers) -> Conns \ excluded[r]]
  BY <1>1 DEF Chains, BuildChain
<1>3. /\ Positions(Candidates(r), NumLayers) \subseteq 0 .. NumLayers + 1
      /\ {0, NumLayers + 1} \subseteq Positions(Candidates(r), NumLayers)
  BY LayersAssumption DEF Positions, Starts
<1> QED
  BY <1>2, <1>3

\* The writes of the job log keep its shape.
LEMMA RowsShape ==
    ASSUME NEW table \in [JobId -> Row], NEW j \in JobId, NEW t \in Token,
           NEW p \in Nat, NEW status \in Statuses, NEW returned \in Seq(Token)
    PROVE  /\ CreateJob(table, j) \in [JobId -> Row]
           /\ SetStatus(table, j, status) \in [JobId -> Row]
           /\ AppendToken(table, j, t, p) \in [JobId -> Row]
           /\ Finish(table, j, returned) \in [JobId -> Row]
           /\ Fail(table, j) \in [JobId -> Row]
           /\ Recover(table) \in [JobId -> Row]
<1>1. table[j] \in Row /\ NewRow \in Row
  BY DEF NewRow, Row, Statuses
<1>2. ASSUME NEW row \in Row PROVE UpdateRow(table, j, row) \in [JobId -> Row]
  BY DEF UpdateRow
<1>3. WithToken(table[j].tokens, t, p) \in Seq(Token)
  <2>1. table[j].tokens \in Seq(Token)
    BY <1>1 DEF Row
  <2> QED
    BY <2>1 DEF WithToken
<1>4. CreateJob(table, j) \in [JobId -> Row]
  BY <1>1 DEF CreateJob
<1>5. ASSUME NEW new \in Statuses PROVE SetStatus(table, j, new) \in [JobId -> Row]
  <2>1. [table[j] EXCEPT !.status = new] \in Row
    BY <1>1 DEF Row
  <2> QED
    BY <2>1, <1>2 DEF SetStatus
<1>6. AppendToken(table, j, t, p) \in [JobId -> Row]
  <2>1. [table[j] EXCEPT !.tokens = WithToken(@, t, p)] \in Row
    BY <1>1, <1>3 DEF Row
  <2> QED
    BY <2>1, <1>2 DEF AppendToken
<1>7. Finish(table, j, returned) \in [JobId -> Row]
  <2>1. [table[j] EXCEPT !.status = "DONE", !.result = returned] \in Row
    BY <1>1 DEF Row, Statuses
  <2> QED
    BY <2>1, <1>2 DEF Finish
<1>8. Fail(table, j) \in [JobId -> Row]
  BY <1>5 DEF Fail, Statuses
<1>9. Recover(table) \in [JobId -> Row]
  <2>1. \A k \in JobId : [table[k] EXCEPT !.status = "INTERRUPTED"] \in Row
    BY DEF Row, Statuses
  <2> QED
    BY <2>1 DEF Recover
<1> QED
  BY <1>4, <1>5, <1>6, <1>7, <1>8, <1>9

\* A best-effort write keeps the log well formed.
LEMMA WriteShape ==
    ASSUME LogTypeOK, NEW newRows \in [JobId -> Row], Write(newRows)
    PROVE  LogTypeOK'
BY BoundAssumption DEF LogTypeOK, Write

\* The token an activation leads to.
LEMMA ProducedShape ==
    ASSUME TypeOK, NEW r \in Request
    PROVE  Produced(r) \in Token
BY DEF TypeOK, TaskTypeOK, Produced, Token

-----------------------------------------------------------------------------
(* Type correctness *)

LEMMA TypeInit == Init => TypeOK
<1> SUFFICES ASSUME Init PROVE TypeOK
  OBVIOUS
<1>1. ConnTypeOK
  BY DEF Init, ConnTypeOK, RepInitial, RepMax
<1>2. TaskTypeOK
  BY BoundAssumption, LayersAssumption DEF Init, TaskTypeOK, ChainConns
<1>3. LogTypeOK
  BY BoundAssumption DEF Init, LogTypeOK, NoRow, Row, Statuses
<1> QED
  BY <1>1, <1>2, <1>3, BoundAssumption DEF Init, TypeOK, PC

\* The workers and node_ws.
LEMMA TypeNode ==
    ASSUME TypeOK, NEW c \in Conn, Node(c)
    PROVE  TypeOK'
<1>1. TaskTypeOK' /\ LogTypeOK'
  BY DEF TypeOK, Node, Connect, Lose, Disconnect, taskVars, logVars, TaskTypeOK, LogTypeOK,
         ChainConns
<1>2. ConnTypeOK'
  BY DEF TypeOK, Node, Connect, Lose, Disconnect, ConnTypeOK, RepInitial, RepMax
<1>3. (pc \in [Request -> PC])'
  BY DEF TypeOK, Node, Connect, Lose, Disconnect, PcAfterDisconnect, PC, Running
<1>4. (kv \in [Conn \X Request \X (0 .. MaxFailovers) \X (1 .. NumLayers) -> Nat])'
  BY DEF TypeOK, Node, Connect, Lose, Disconnect
<1> QED
  BY <1>1, <1>2, <1>3, <1>4 DEF TypeOK, Node, Connect, Lose, Disconnect

\* Accepting a request and waiting for coverage.
LEMMA TypeSubmit ==
    ASSUME TypeOK, NEW r \in Request, Submit(r)
    PROVE  TypeOK'
<1>1. PICK j \in FreshIds :
        /\ job' = [job EXCEPT ![r] = j]
        /\ issued' = issued \cup {j}
        /\ Write(CreateJob(rows, j))
  BY DEF Submit
<1>2. j \in JobId
  BY DEF FreshIds
<1>3. CreateJob(rows, j) \in [JobId -> Row]
  BY <1>2 DEF CreateJob, TypeOK, LogTypeOK, NewRow, Row, Statuses
<1>4. LogTypeOK'
  BY <1>1, <1>3, WriteShape DEF TypeOK
<1>5. TaskTypeOK'
  BY <1>1, <1>2 DEF TypeOK, TaskTypeOK, Submit, ChainConns
<1> QED
  BY <1>1, <1>2, <1>4, <1>5 DEF TypeOK, Submit, connVars, ConnTypeOK, PC, Waiting

LEMMA TypePoll ==
    ASSUME TypeOK, TasksWellFormed, NEW r \in Request, Poll(r)
    PROVE  TypeOK'
<1>1. job[r] \in JobId /\ rows \in [JobId -> Row]
  BY DEF Poll, Route, RouteInvalid, Park, GiveUp, TasksWellFormed, Waiting, TypeOK, LogTypeOK
<1>2. \A status \in Statuses : SetStatus(rows, job[r], status) \in [JobId -> Row]
  <2> TAKE status \in Statuses
  <2>1. [rows[job[r]] EXCEPT !.status = status] \in Row
    BY <1>1 DEF Row
  <2> QED
    BY <1>1, <2>1 DEF SetStatus, UpdateRow
<1>3. LogTypeOK'
  BY <1>2, WriteShape
  DEF Poll, Route, RouteInvalid, Park, GiveUp, Fail, Statuses, TypeOK, LogTypeOK, logVars
<1>4. CASE Route(r)
  <2>1. PICK route \in Chains(r) :
          /\ chain' = [chain EXCEPT ![r] = route]
          /\ load' = [c \in Conn |-> IF \E x \in DOMAIN route : route[x] = c
                                     THEN load[c] + 1 ELSE load[c]]
          /\ IF Len(tokens[r]) < MaxNew[r]
             THEN /\ pc' = [pc EXCEPT ![r] = "call"]
                  /\ UNCHANGED ending
             ELSE /\ pc' = [pc EXCEPT ![r] = "end"]
                  /\ ending' = [ending EXCEPT ![r] = EndTargets(route)]
    BY <1>4 DEF Route
  <2>a. /\ at' = [at EXCEPT ![r] = EmbedAt]
        /\ prefill' = [prefill EXCEPT ![r] = TRUE]
        /\ h' = [h EXCEPT ![r] = {}]
        /\ acked' = [acked EXCEPT ![r] = NoReceipts(r)]
        /\ UNCHANGED <<conn, reputation, job, attempt, excluded, tokens>>
    BY <1>4 DEF Route
  <2>2. /\ DOMAIN route \subseteq 0 .. HeadAt(NumLayers)
        /\ \A x \in DOMAIN route : route[x] \in Conn
    BY <2>1, ChainShape DEF Conns
  <2>3. TaskTypeOK'
    <3>1. \A s \in Request : /\ (DOMAIN chain[s] \subseteq 0 .. HeadAt(NumLayers))'
                             /\ (ChainConns(s) \subseteq Conn)'
      BY <2>1, <2>2 DEF TypeOK, TaskTypeOK, ChainConns
    <3>2. ending' \in [Request -> SUBSET Conn]
      <4>1. EndTargets(route) \in SUBSET Conn
        BY <2>2 DEF EndTargets
      <4>2. ending \in [Request -> SUBSET Conn]
        BY DEF TypeOK, TaskTypeOK
      <4>3. ending' = ending \/ ending' = [ending EXCEPT ![r] = EndTargets(route)]
        BY <2>1
      <4> HIDE DEF EndTargets
      <4> QED
        BY <4>1, <4>2, <4>3
    <3>3. acked' \in [Request -> [Conn -> Nat]]
      <4>1. NoReceipts(r) \in [Conn -> Nat]
        BY DEF NoReceipts
      <4> QED
        BY <2>a, <4>1 DEF TypeOK, TaskTypeOK
    <3>4. /\ at' \in [Request -> 0 .. PastHead]
          /\ prefill' \in [Request -> BOOLEAN]
          /\ h' \in [Request -> SUBSET Nat]
      BY <2>a, LayersAssumption DEF TypeOK, TaskTypeOK
    <3>5. /\ job' \in [Request -> JobId \cup {NoJob}]
          /\ attempt' \in [Request -> 0 .. MaxFailovers]
          /\ excluded' \in [Request -> SUBSET Conn]
          /\ tokens' \in [Request -> Seq(Token)]
      BY <2>a DEF TypeOK, TaskTypeOK
    <3>6. DOMAIN chain' = Request
      BY <2>1 DEF TypeOK, TaskTypeOK
    <3> QED
      BY <3>1, <3>2, <3>3, <3>4, <3>5, <3>6 DEF TaskTypeOK
  <2>4. ConnTypeOK'
    <3> DEFINE onRoute(c) == \E x \in DOMAIN route : route[x] = c
    <3>1. load' = [c \in Conn |-> IF onRoute(c) THEN load[c] + 1 ELSE load[c]]
      BY <2>1
    <3> HIDE DEF onRoute
    <3> QED
      BY <2>a, <3>1 DEF TypeOK, ConnTypeOK
  <2> QED
    BY <1>3, <1>4, <2>1, <2>3, <2>4 DEF Route, TypeOK, PC, Running
<1>5. CASE RouteInvalid(r) \/ Park(r) \/ GiveUp(r)
  <2>1. TaskTypeOK' /\ ConnTypeOK'
    BY <1>5 DEF RouteInvalid, Park, GiveUp, taskVars, connVars, TypeOK, TaskTypeOK, ConnTypeOK,
                ChainConns
  <2> QED
    BY <1>3, <1>5, <2>1 DEF RouteInvalid, Park, GiveUp, TypeOK, PC, Over, Waiting
<1> QED
  BY <1>4, <1>5 DEF Poll

\* The caches a request has at the nodes of its chain.
LEMMA CacheShape ==
    ASSUME TypeOK, NEW r \in Request, NEW x \in Decoders(r)
    PROVE  CacheOf(r, x) \in Conn \X Request \X (0 .. MaxFailovers) \X (1 .. NumLayers)
<1>1. x \in 1 .. NumLayers
  BY LayersAssumption DEF Decoders, TypeOK, TaskTypeOK
<1>2. chain[r][x] \in Conn
  BY DEF Decoders, ChainConns, TypeOK, TaskTypeOK
<1>3. attempt[r] \in 0 .. MaxFailovers
  BY DEF TypeOK, TaskTypeOK
<1> QED
  BY <1>1, <1>2, <1>3 DEF CacheOf, NodeJob

LEMMA DecodedShape ==
    ASSUME TypeOK, NEW r \in Request, NEW span
    PROVE  Decoded(r, span) \in [Conn \X Request \X (0 .. MaxFailovers) \X (1 .. NumLayers) -> Nat]
<1>1. InputLen(r) \in Nat
  BY DEF InputLen, TypeOK, TaskTypeOK
<1> HIDE DEF PromptLen
<1> QED
  BY <1>1 DEF Decoded, TypeOK

\* One pass over the chain.
LEMMA TypeReply ==
    ASSUME TypeOK, NEW r \in Request, Reply(r)
    PROVE  TypeOK'
<1>1. PICK next \in CallStarts(chain[r], at[r]) :
        /\ kv' = Decoded(r, CallSpan(chain[r], at[r], next))
        /\ h' = [h EXCEPT ![r] =
                    @ \cup {Decoded(r, CallSpan(chain[r], at[r], next))[CacheOf(r, x)] :
                            x \in CallSpan(chain[r], at[r], next) \cap Decoders(r)}]
        /\ at' = [at EXCEPT ![r] = next]
        /\ pc' = [pc EXCEPT ![r] = IF next = PastHead THEN "choose"
                                   ELSE Awaiting(chain[r][next])]
  BY DEF Reply
<1>2. next \in 0 .. PastHead
  BY LayersAssumption DEF CallStarts, TypeOK, TaskTypeOK
<1> DEFINE after == Decoded(r, CallSpan(chain[r], at[r], next))
           lengths == {after[CacheOf(r, x)] : x \in CallSpan(chain[r], at[r], next) \cap Decoders(r)}
<1>3. after \in [Conn \X Request \X (0 .. MaxFailovers) \X (1 .. NumLayers) -> Nat]
  BY DecodedShape
<1>4. lengths \subseteq Nat
  <2>1. ASSUME NEW x \in Decoders(r) PROVE after[CacheOf(r, x)] \in Nat
    <3> HIDE DEF after
    <3> QED
      BY <1>3, <2>1, CacheShape
  <2> QED
    BY <2>1
<1>5. h' = [h EXCEPT ![r] = @ \cup lengths] /\ kv' = after
  BY <1>1
<1> HIDE DEF after, lengths
<1>6. UNCHANGED <<connVars, job, attempt, excluded, chain, prefill, tokens, ending,
                  issued, logVars, crashes>>
  BY DEF Reply
<1>7. h' \in [Request -> SUBSET Nat] /\ at' \in [Request -> 0 .. PastHead]
  <2>1. h \in [Request -> SUBSET Nat] /\ at \in [Request -> 0 .. PastHead]
    BY DEF TypeOK, TaskTypeOK
  <2>2. at' = [at EXCEPT ![r] = next]
    BY <1>1
  <2> HIDE DEF PastHead
  <2>3. h[r] \cup lengths \in SUBSET Nat
    BY <1>4, <2>1
  <2> QED
    BY <1>2, <1>5, <2>1, <2>2, <2>3
<1>8. acked' \in [Request -> [Conn -> Nat]]
  <2> DEFINE c == chain[r][at[r]]
  <2>1. acked \in [Request -> [Conn -> Nat]]
    BY DEF TypeOK, TaskTypeOK
  <2>2. acked' = [acked EXCEPT ![r][c] = @ + 1]
    BY DEF Reply
  <2> HIDE DEF c
  <2>3. [acked[r] EXCEPT ![c] = @ + 1] \in [Conn -> Nat]
    <3> DEFINE f == acked[r]
    <3>1. f \in [Conn -> Nat]
      BY <2>1
    <3> HIDE DEF f
    <3>2. \A d \in Conn : f[d] + 1 \in Nat
      BY <3>1
    <3>3. [f EXCEPT ![c] = @ + 1] \in [Conn -> Nat]
      BY <3>1, <3>2
    <3> QED
      BY <3>3 DEF f
  <2> QED
    BY <2>1, <2>2, <2>3, Zenon
<1>9. pc' \in [Request -> PC]
  BY <1>1 DEF TypeOK, PC, Running, Awaiting
<1>10. TaskTypeOK'
  BY <1>6, <1>7, <1>8 DEF TypeOK, TaskTypeOK, ChainConns
<1> QED
  BY <1>3, <1>5, <1>6, <1>9, <1>10 DEF TypeOK, ConnTypeOK, LogTypeOK, connVars, logVars

\* The head's reply, and the sends that fail.
LEMMA TypeChoose ==
    ASSUME TypeOK, TasksWellFormed, NEW r \in Request, SendFails(r) \/ Stop(r) \/ Emit(r)
    PROVE  TypeOK'
<1>1. EndTargets(chain[r]) \in SUBSET Conn
  BY DEF EndTargets, ChainConns, TypeOK, TaskTypeOK
<1>2. Produced(r) \in Token
  BY ProducedShape
<1>3. pc' \in [Request -> PC]
  BY DEF SendFails, Stop, Emit, Awaiting, TypeOK, PC, Running
<1>4. UNCHANGED <<connVars, job, attempt, excluded, chain, acked, issued, kv, crashes>>
  BY DEF SendFails, Stop, Emit, taskVars
<1>5. ending' \in [Request -> SUBSET Conn]
  <2>1. ending' = ending \/ ending' = [ending EXCEPT ![r] = EndTargets(chain[r])]
    BY DEF SendFails, Stop, Emit, taskVars
  <2> HIDE DEF EndTargets
  <2> QED
    BY <1>1, <2>1 DEF TypeOK, TaskTypeOK
<1>6. /\ at' \in [Request -> 0 .. PastHead]
      /\ prefill' \in [Request -> BOOLEAN]
      /\ h' \in [Request -> SUBSET Nat]
  <2>1. /\ at' = at \/ at' = [at EXCEPT ![r] = EmbedAt]
        /\ prefill' = prefill \/ prefill' = [prefill EXCEPT ![r] = FALSE]
        /\ h' = h \/ h' = [h EXCEPT ![r] = {}]
    BY DEF SendFails, Stop, Emit, taskVars
  <2>2. EmbedAt \in 0 .. PastHead
    BY LayersAssumption
  <2>3. at' \in [Request -> 0 .. PastHead]
    <3>1. at \in [Request -> 0 .. PastHead]
      BY DEF TypeOK, TaskTypeOK
    <3> HIDE DEF PastHead
    <3> QED
      BY <2>1, <2>2, <3>1
  <2>4. prefill' \in [Request -> BOOLEAN]
    BY <2>1 DEF TypeOK, TaskTypeOK
  <2>5. h' \in [Request -> SUBSET Nat]
    BY <2>1 DEF TypeOK, TaskTypeOK
  <2> QED
    BY <2>3, <2>4, <2>5
<1>7. tokens' \in [Request -> Seq(Token)]
  <2>1. tokens' = tokens \/ tokens' = [tokens EXCEPT ![r] = Append(@, Produced(r))]
    BY DEF SendFails, Stop, Emit, taskVars
  <2>2. tokens \in [Request -> Seq(Token)]
    BY DEF TypeOK, TaskTypeOK
  <2>3. Append(tokens[r], Produced(r)) \in Seq(Token)
    BY <1>2, <2>2
  <2> QED
    BY <2>1, <2>2, <2>3
<1>8. TaskTypeOK'
  BY <1>4, <1>5, <1>6, <1>7 DEF TypeOK, TaskTypeOK, ChainConns
<1>9. LogTypeOK'
  <2>1. CASE Emit(r)
    <3>1. job[r] \in JobId
      BY <2>1 DEF Emit, TasksWellFormed
    <3>2. Len(tokens[r]) \in Nat
      BY DEF TypeOK, TaskTypeOK
    <3>3. "DONE" \in Statuses /\ <<>> \in Seq(Token) /\ rows \in [JobId -> Row]
      BY DEF Statuses, TypeOK, LogTypeOK
    <3>4. AppendToken(rows, job[r], Produced(r), Len(tokens[r])) \in [JobId -> Row]
      BY <1>2, <3>1, <3>2, <3>3, RowsShape
    <3> QED
      BY <2>1, <3>4, WriteShape DEF Emit, TypeOK
  <2>2. CASE SendFails(r) \/ Stop(r)
    BY <2>2 DEF SendFails, Stop, logVars, TypeOK, LogTypeOK
  <2> QED
    BY <2>1, <2>2
<1> QED
  BY <1>3, <1>4, <1>8, <1>9 DEF TypeOK, ConnTypeOK, connVars

\* Giving the load back, rewards and penalties.
LEMMA AccountShape ==
    ASSUME ConnTypeOK, NEW r \in Request
    PROVE  /\ Released(r) \in [Conn -> Nat]
           /\ Rewarded(r) \in [Conn -> 0 .. RepMax]
           /\ \A c \in Conn : Penalised(c) \in [Conn -> 0 .. RepMax]
<1>1. Released(r) \in [Conn -> Nat]
  BY DEF ConnTypeOK, Released
<1>2. Rewarded(r) \in [Conn -> 0 .. RepMax]
  BY DEF ConnTypeOK, Rewarded, RepMax, RepReward
<1>3. \A c \in Conn : Penalised(c) \in [Conn -> 0 .. RepMax]
  BY DEF ConnTypeOK, Penalised, RepMax, RepPenalty
<1> QED
  BY <1>1, <1>2, <1>3

\* The end ops of a complete generation.
LEMMA TypeEnd ==
    ASSUME TypeOK, NEW r \in Request, End(r)
    PROVE  TypeOK'
<1>1. PICK c \in Conn : EndServed(r, c) \/ EndSkipped(r, c)
  BY DEF End
<1>2. ending' \in [Request -> SUBSET Conn]
  <2>1. ending' = [ending EXCEPT ![r] = @ \ {c}]
    BY <1>1 DEF EndServed, EndSkipped
  <2> QED
    BY <2>1 DEF TypeOK, TaskTypeOK
<1>3. kv' \in [Conn \X Request \X (0 .. MaxFailovers) \X (1 .. NumLayers) -> Nat]
  BY <1>1 DEF EndServed, EndSkipped, TypeOK
<1>4. UNCHANGED <<connVars, pc, job, attempt, excluded, chain, at, prefill, h, tokens,
                  acked, issued, logVars, crashes>>
  BY <1>1 DEF EndServed, EndSkipped
<1>5. TaskTypeOK'
  BY <1>2, <1>4 DEF TypeOK, TaskTypeOK, ChainConns
<1> QED
  BY <1>3, <1>4, <1>5 DEF TypeOK, ConnTypeOK, LogTypeOK, connVars, logVars

LEMMA TypeAnswer ==
    ASSUME TypeOK, TasksWellFormed, NEW r \in Request, Answer(r)
    PROVE  TypeOK'
<1>1. job[r] \in JobId /\ tokens[r] \in Seq(Token) /\ acked[r] \in [Conn -> Nat]
  BY DEF Answer, TasksWellFormed, TypeOK, TaskTypeOK
<1>2. Finish(rows, job[r], tokens[r]) \in [JobId -> Row]
  <2>1. rows \in [JobId -> Row] /\ rows[job[r]] \in Row
    BY <1>1 DEF TypeOK, LogTypeOK
  <2>2. [rows[job[r]] EXCEPT !.status = "DONE", !.result = tokens[r]] \in Row
    BY <1>1, <2>1 DEF Row, Statuses
  <2> QED
    BY <1>1, <2>1, <2>2 DEF Finish, UpdateRow
<1>3. AddReceipts(receipts, job[r], acked[r]) \in [JobId -> [Conn -> Nat]]
  <2>1. receipts \in [JobId -> [Conn -> Nat]]
    BY DEF TypeOK, LogTypeOK
  <2>2. [peer \in DOMAIN receipts[job[r]] |-> receipts[job[r]][peer] + acked[r][peer]]
            \in [Conn -> Nat]
    BY <1>1, <2>1
  <2> QED
    BY <2>1, <2>2 DEF AddReceipts
<1>4. LogTypeOK'
  <2>1. PICK kept \in SUBSET {"rows", "receipts"} :
          /\ losses + (2 - Cardinality(kept)) <= MaxLosses
          /\ losses' = losses + (2 - Cardinality(kept))
          /\ rows' = IF "rows" \in kept THEN Finish(rows, job[r], tokens[r]) ELSE rows
          /\ receipts' = IF "receipts" \in kept THEN AddReceipts(receipts, job[r], acked[r])
                         ELSE receipts
    BY DEF Answer, WriteOutcome
  <2>2. Cardinality(kept) \in 0 .. 2
    <3>1. IsFiniteSet({"rows", "receipts"}) /\ Cardinality({"rows", "receipts"}) = 2
      <4>1. IsFiniteSet({"rows"}) /\ Cardinality({"rows"}) = 1
        BY FS_Singleton
      <4>2. /\ IsFiniteSet({"rows"} \cup {"receipts"})
            /\ Cardinality({"rows"} \cup {"receipts"}) = 2
        BY <4>1, FS_AddElement
      <4>3. {"rows", "receipts"} = {"rows"} \cup {"receipts"}
        OBVIOUS
      <4> QED
        BY <4>2, <4>3
    <3>2. IsFiniteSet(kept) /\ Cardinality(kept) <= 2
      BY <3>1, FS_Subset
    <3> QED
      BY <3>2, FS_CardinalityType
  <2>3. losses' \in 0 .. MaxLosses
    BY <2>1, <2>2, BoundAssumption DEF TypeOK, LogTypeOK
  <2>4. rows' \in [JobId -> Row] /\ receipts' \in [JobId -> [Conn -> Nat]]
    BY <1>2, <1>3, <2>1 DEF TypeOK, LogTypeOK
  <2> QED
    BY <2>3, <2>4 DEF LogTypeOK
<1>5. ConnTypeOK'
  BY AccountShape DEF Answer, TypeOK, ConnTypeOK
<1>6. TaskTypeOK'
  BY DEF Answer, taskVars, TypeOK, TaskTypeOK, ChainConns
<1> QED
  BY <1>4, <1>5, <1>6 DEF Answer, TypeOK, PC, Over

LEMMA TypeFailOver ==
    ASSUME TypeOK, TasksWellFormed, NEW r \in Request, FailOver(r)
    PROVE  TypeOK'
<1> DEFINE c == chain[r][at[r]]
<1>1. c \in Conn /\ job[r] \in JobId
  BY DEF FailOver, TasksWellFormed, Running, TypeOK, TaskTypeOK, ChainConns
<1>2. rows \in [JobId -> Row] /\ Resumed(r) \in Seq(Token)
  BY <1>1 DEF Resumed, TypeOK, LogTypeOK, Row
<1>3. /\ excluded' = [excluded EXCEPT ![r] = @ \cup {c}]
      /\ reputation' = Penalised(c)
      /\ load' = Released(r)
      /\ UNCHANGED <<conn, job, chain, at, prefill, h, acked, ending, issued, kv, crashes>>
  BY DEF FailOver
<1>4. \/ tokens' = tokens
      \/ tokens' = [tokens EXCEPT ![r] = Resumed(r)]
      \/ tokens' = [tokens EXCEPT ![r] = <<>>]
  BY DEF FailOver
<1>5. \/ attempt' = attempt
      \/ attempt[r] < MaxFailovers /\ attempt' = [attempt EXCEPT ![r] = @ + 1]
  BY DEF FailOver
<1>6. \/ /\ UNCHANGED <<rows, receipts>>
         /\ losses' \in {losses, losses + 1} /\ losses' <= MaxLosses
      \/ Write(Fail(rows, job[r]))
  <2>1. CASE attempt[r] < MaxFailovers
    <3>1. /\ UNCHANGED <<rows, receipts>>
          /\ losses' \in {losses, losses + 1} /\ losses' <= MaxLosses
      BY <2>1, BoundAssumption DEF FailOver, TypeOK, LogTypeOK
    <3> QED
      BY <3>1
  <2>2. CASE ~(attempt[r] < MaxFailovers)
    <3>1. Write(Fail(rows, job[r]))
      BY <2>2, Zenon DEF FailOver
    <3> QED
      BY <3>1
  <2> QED
    BY <2>1, <2>2
<1>7. pc' \in [Request -> PC]
  <2>1. pc' = [pc EXCEPT ![r] = "cover"] \/ pc' = [pc EXCEPT ![r] = "refused"]
    BY DEF FailOver
  <2> QED
    BY <2>1 DEF TypeOK, PC, Waiting, Over
<1> HIDE DEF c
<1>8. LogTypeOK'
  <2>1. Fail(rows, job[r]) \in [JobId -> Row]
    <3>1. [rows[job[r]] EXCEPT !.status = "FAILED"] \in Row
      BY <1>1, <1>2 DEF Row, Statuses
    <3> QED
      BY <1>1, <1>2, <3>1 DEF Fail, SetStatus, UpdateRow
  <2>2. CASE Write(Fail(rows, job[r]))
    BY <2>1, <2>2, WriteShape DEF TypeOK
  <2> QED
    BY <1>6, <2>2, BoundAssumption DEF TypeOK, LogTypeOK
<1>9. tokens' \in [Request -> Seq(Token)]
  <2>1. tokens \in [Request -> Seq(Token)] /\ <<>> \in Seq(Token)
    BY DEF TypeOK, TaskTypeOK
  <2> QED
    BY <1>2, <1>4, <2>1
<1>10. attempt' \in [Request -> 0 .. MaxFailovers]
  <2>1. attempt \in [Request -> 0 .. MaxFailovers]
    BY DEF TypeOK, TaskTypeOK
  <2>2. attempt[r] < MaxFailovers => attempt[r] + 1 \in 0 .. MaxFailovers
    BY <2>1, BoundAssumption
  <2> QED
    BY <1>5, <2>1, <2>2
<1>11. excluded' \in [Request -> SUBSET Conn]
  BY <1>1, <1>3 DEF TypeOK, TaskTypeOK
<1>12. TaskTypeOK'
  BY <1>3, <1>9, <1>10, <1>11 DEF TypeOK, TaskTypeOK, ChainConns
<1>13. ConnTypeOK'
  BY <1>1, <1>3, AccountShape DEF TypeOK, ConnTypeOK
<1> QED
  BY <1>3, <1>7, <1>8, <1>12, <1>13 DEF TypeOK

LEMMA TypeCrash ==
    ASSUME TypeOK, Crash
    PROVE  TypeOK'
<1>1. LogTypeOK'
  <2>1. Recover(rows) \in [JobId -> Row]
    <3>1. \A j \in JobId : rows[j] \in Row /\ [rows[j] EXCEPT !.status = "INTERRUPTED"] \in Row
      BY DEF TypeOK, LogTypeOK, Row, Statuses
    <3> QED
      BY <3>1 DEF Recover, TypeOK, LogTypeOK
  <2> QED
    BY <2>1, WriteShape DEF Crash, TypeOK
<1>2. TaskTypeOK'
  BY DEF Crash, taskVars, TypeOK, TaskTypeOK, ChainConns
<1>3. ConnTypeOK'
  BY DEF Crash, ConnTypeOK, RepInitial, RepMax
<1> QED
  BY <1>1, <1>2, <1>3, BoundAssumption DEF Crash, TypeOK, PC, Over

-----------------------------------------------------------------------------
(* The shape of the tasks *)

\* The tasks of the other requests see nothing of a task's step but the pool.
LEMMA TaskWellFormed ==
    ASSUME TypeOK, TasksWellFormed, NEW r \in Request, Task(r)
    PROVE  TasksWellFormed'
<1> SUFFICES ASSUME NEW q \in Request PROVE
        /\ IF pc'[q] = "idle" THEN excluded'[q] = {} /\ attempt'[q] = 0 ELSE job'[q] \in JobId
        /\ pc'[q] \in Running =>
            /\ {EmbedAt, HeadAt(NumLayers)} \subseteq DOMAIN chain'[q]
            /\ \A c \in ChainConns(q)' : conn'[c] # "off"
        /\ pc'[q] \in {"call", "down"} => at'[q] \in DOMAIN chain'[q]
  BY DEF TasksWellFormed
<1>1. conn' = conn
  BY DEF Task, Submit, Poll, Route, RouteInvalid, Park, GiveUp, Reply, SendFails, Stop, Emit,
         End, EndServed, EndSkipped, Answer, FailOver, connVars
<1>2. CASE Submit(r)
  <2>1. PICK j \in JobId : job' = [job EXCEPT ![r] = j]
    BY <1>2 DEF Submit, FreshIds
  <2>2. /\ pc' = [pc EXCEPT ![r] = "cover"]
        /\ UNCHANGED <<attempt, excluded, chain, at>>
    BY <1>2 DEF Submit
  <2> QED
    BY <1>1, <2>1, <2>2 DEF TasksWellFormed, TypeOK, TaskTypeOK, ChainConns, Running
<1>3. CASE Route(r)
  <2>1. PICK route \in Chains(r) :
          /\ chain' = [chain EXCEPT ![r] = route]
          /\ \/ pc' = [pc EXCEPT ![r] = "call"]
             \/ pc' = [pc EXCEPT ![r] = "end"]
    BY <1>3 DEF Route
  <2>2. /\ at' = [at EXCEPT ![r] = EmbedAt]
        /\ UNCHANGED <<job, attempt, excluded>>
        /\ pc[r] # "idle"
    BY <1>3 DEF Route, Waiting
  <2>3. /\ {EmbedAt, HeadAt(NumLayers)} \subseteq DOMAIN route
        /\ \A x \in DOMAIN route : conn[route[x]] # "off"
    BY ChainShape DEF Conns
  <2>4. CASE q # r
    <3>1. pc'[q] = pc[q] /\ chain'[q] = chain[q] /\ at'[q] = at[q]
      BY <2>1, <2>2, <2>4 DEF TypeOK
    <3> QED
      BY <1>1, <2>2, <3>1 DEF TasksWellFormed, ChainConns
  <2>5. CASE q = r
    <3>1. /\ pc'[r] \in Running /\ pc'[r] # "idle"
          /\ pc'[r] \in {"call", "down"} => at'[r] = EmbedAt
      BY <2>1, <2>2 DEF TypeOK, TaskTypeOK, Running
    <3>2. chain'[r] = route
      BY <2>1 DEF TypeOK, TaskTypeOK
    <3>3. job[r] \in JobId
      BY <2>2 DEF TasksWellFormed
    <3> QED
      BY <1>1, <2>2, <2>3, <2>5, <3>1, <3>2, <3>3 DEF ChainConns
  <2> QED
    BY <2>4, <2>5
<1>4. CASE Reply(r)
  <2>1. PICK next \in CallStarts(chain[r], at[r]) :
          /\ at' = [at EXCEPT ![r] = next]
          /\ pc' = [pc EXCEPT ![r] = IF next = PastHead THEN "choose"
                                     ELSE Awaiting(chain[r][next])]
    BY <1>4 DEF Reply
  <2>2. UNCHANGED <<job, attempt, excluded, chain>> /\ pc[r] \in Running /\ pc[r] # "idle"
    BY <1>4 DEF Reply, Running
  <2>3. next \in DOMAIN chain[r] \/ next = PastHead
    BY DEF CallStarts
  <2> HIDE DEF PastHead
  <2>4. CASE q # r
    <3>1. pc'[q] = pc[q] /\ at'[q] = at[q]
      BY <2>1, <2>4 DEF TypeOK
    <3> QED
      BY <1>1, <2>2, <3>1 DEF TasksWellFormed, ChainConns
  <2>5. CASE q = r
    <3>1. /\ pc'[r] \in Running /\ pc'[r] # "idle"
          /\ pc'[r] \in {"call", "down"} => next # PastHead
          /\ at'[r] = next
      BY <2>1, <2>2 DEF TypeOK, TaskTypeOK, Running, Awaiting
    <3> QED
      BY <1>1, <2>2, <2>3, <2>5, <3>1 DEF TasksWellFormed, ChainConns
  <2> QED
    BY <2>4, <2>5
<1>5. CASE Emit(r)
  <2>1. /\ at'[r] = EmbedAt \/ pc'[r] = "end"
        /\ at'[q] = at[q] \/ q = r
        /\ pc'[q] = pc[q] \/ q = r
        /\ pc'[r] \in Running
        /\ pc[r] = "choose"
    BY <1>5 DEF Emit, Awaiting, TypeOK, TaskTypeOK, Running
  <2>2. UNCHANGED <<job, attempt, excluded, chain>>
    BY <1>5 DEF Emit
  <2> QED
    BY <1>1, <2>1, <2>2 DEF TasksWellFormed, ChainConns, Running
<1>6. CASE SendFails(r) \/ Stop(r) \/ End(r)
  <2>1. UNCHANGED <<job, attempt, excluded, chain, at>>
    BY <1>6 DEF SendFails, Stop, End, EndServed, EndSkipped, taskVars
  <2>2. \/ pc' = pc
        \/ pc[r] = "call" /\ pc' = [pc EXCEPT ![r] = "down"]
        \/ pc[r] = "choose" /\ pc' = [pc EXCEPT ![r] = "end"]
    BY <1>6 DEF SendFails, Stop, End, EndServed, EndSkipped
  <2> QED
    BY <1>1, <2>1, <2>2 DEF TasksWellFormed, TypeOK, ChainConns, Running
<1>7. CASE RouteInvalid(r) \/ Park(r) \/ GiveUp(r) \/ Answer(r)
  <2>1. UNCHANGED <<job, attempt, excluded, chain, at>>
    BY <1>7 DEF RouteInvalid, Park, GiveUp, Answer, taskVars
  <2>2. \E new \in Waiting \cup Over : pc' = [pc EXCEPT ![r] = new]
    BY <1>7 DEF RouteInvalid, Park, GiveUp, Answer, Waiting, Over
  <2>3. pc[r] # "idle"
    BY <1>7 DEF RouteInvalid, Park, GiveUp, Answer, Waiting
  <2> QED
    BY <1>1, <2>1, <2>2, <2>3 DEF TasksWellFormed, TypeOK, ChainConns, Running, Waiting, Over
<1>8. CASE FailOver(r)
  <2>1. UNCHANGED <<job, chain, at>>
    BY <1>8 DEF FailOver
  <2>2. pc' = [pc EXCEPT ![r] = "cover"] \/ pc' = [pc EXCEPT ![r] = "refused"]
    BY <1>8 DEF FailOver
  <2>3. pc[r] = "down"
    BY <1>8 DEF FailOver
  <2>4. q # r => excluded'[q] = excluded[q] /\ attempt'[q] = attempt[q]
    BY <1>8 DEF FailOver, TypeOK, TaskTypeOK
  <2> QED
    BY <1>1, <2>1, <2>2, <2>3, <2>4 DEF TasksWellFormed, TypeOK, ChainConns, Running
<1> QED
  BY <1>2, <1>3, <1>4, <1>5, <1>6, <1>7, <1>8 DEF Task, Poll

LEMMA NodeWellFormed ==
    ASSUME TypeOK, TasksWellFormed, NEW c \in Conn, Node(c)
    PROVE  TasksWellFormed'
<1>1. UNCHANGED taskVars
  BY DEF Node, Connect, Lose, Disconnect
<1>2. \A r \in Request : \/ pc'[r] = pc[r]
                         \/ pc[r] = "call" /\ pc'[r] = "down"
  BY DEF Node, Connect, Lose, Disconnect, PcAfterDisconnect
<1>3. \A d \in Conn : conn'[d] = "off" => conn[d] = "off"
  BY DEF Node, Connect, Lose, Disconnect, TypeOK, ConnTypeOK
<1>4. \A r \in Request : ChainConns(r) \subseteq Conn
  BY DEF TypeOK, TaskTypeOK
<1> QED
  BY <1>1, <1>2, <1>3, <1>4 DEF TasksWellFormed, taskVars, ChainConns, Running

LEMMA CrashWellFormed ==
    ASSUME TypeOK, TasksWellFormed, Crash
    PROVE  TasksWellFormed'
<1>1. UNCHANGED taskVars
  BY DEF Crash
<1>2. \A r \in Request : /\ pc'[r] \notin Running
                         /\ pc'[r] = "idle" <=> pc[r] = "idle"
  BY DEF Crash, TypeOK, Running, Waiting
<1> QED
  BY <1>1, <1>2 DEF TasksWellFormed, taskVars, Running

-----------------------------------------------------------------------------
(* The first theorems *)

Shape == TypeOK /\ TasksWellFormed

LEMMA ShapeInit == Init => Shape
BY TypeInit DEF Init, Shape, TasksWellFormed, Running

LEMMA ShapeNext == Shape /\ [Next]_vars => Shape'
<1> SUFFICES ASSUME Shape, [Next]_vars PROVE Shape'
  OBVIOUS
<1> USE DEF Shape
<1>1. CASE \E r \in Request : Task(r)
  <2> PICK r \in Request : Task(r)
    BY <1>1
  <2>1. TypeOK'
    BY TypeSubmit, TypePoll, TypeReply, TypeChoose, TypeEnd, TypeAnswer, TypeFailOver DEF Task
  <2> QED
    BY <2>1, TaskWellFormed
<1>2. CASE \E c \in Conn : Node(c)
  BY <1>2, TypeNode, NodeWellFormed
<1>3. CASE Crash
  BY <1>3, TypeCrash, CrashWellFormed
<1>4. CASE UNCHANGED vars
  <2>1. TypeOK'
    BY <1>4 DEF vars, connVars, taskVars, logVars, TypeOK, ConnTypeOK, TaskTypeOK, LogTypeOK,
                ChainConns
  <2>2. TasksWellFormed'
    BY <1>4 DEF vars, connVars, taskVars, TasksWellFormed, ChainConns
  <2> QED
    BY <2>1, <2>2
<1> QED
  BY <1>1, <1>2, <1>3, <1>4 DEF Next, Quiescent

\* Every variable holds what its comment says, whatever the workers, the
\* requests and the crashes: no conn, task or row of coordinator.py and
\* jobstore.py is ever malformed.
THEOREM TypeCorrect == Spec => []TypeOK
<1>1. Shape => TypeOK
  BY DEF Shape
<1> QED
  BY <1>1, ShapeInit, ShapeNext, PTL DEF Spec

-----------------------------------------------------------------------------
(* Every running request has a way through the whole model *)

\* The nodes of a running request announce the stages it runs on them, and these
\* are the whole model, each layer once.
RunningChainsAreWhole ==
    \A r \in Request : pc[r] \in Running => RunsWholeModel(Stages, NumLayers, chain[r])

LEMMA CandidatesAreRanked ==
    ASSUME TypeOK, NEW r \in Request
    PROVE  IsSwarmOf(Candidates(r), Rank)
<1>1. /\ DOMAIN Candidates(r) = Conns \ excluded[r] /\ Conns \subseteq Conn
      /\ \A c \in DOMAIN Candidates(r) : Candidates(r)[c] = Stages[c]
  BY DEF Candidates, Conns
<1>2. IsFiniteSet(DOMAIN Candidates(r))
  BY <1>1, ConnAssumption, FS_Subset
<1>3. \A c \in DOMAIN Candidates(r) : FiniteBlocks(Candidates(r)[c].decoders)
  BY <1>1, StagesAssumption DEF FiniteBlocks
<1>4. \A c \in Conns : load[c] \in Int /\ reputation[c] \in Int
  BY <1>1 DEF TypeOK, ConnTypeOK, RepMax
<1>5. Ranking(Rank, DOMAIN Candidates(r))
  BY <1>1, <1>4 DEF Ranking, Rank
<1> QED
  BY <1>2, <1>3, <1>5 DEF IsSwarmOf

\* A poll finds a chain exactly when the nodes that are not excluded tile the
\* model: a request is parked, and refused, only by a swarm that cannot serve it.
LEMMA PollFindsChain ==
    ASSUME TypeOK, NEW r \in Request
    PROVE  HasChain(Candidates(r), NumLayers) <=> Chains(r) # {}
BY CandidatesAreRanked, ChainWhenPossible, LayersAssumption DEF Chains

LEMMA ChainIsWhole ==
    ASSUME TypeOK, NEW r \in Request, NEW route \in Chains(r)
    PROVE  RunsWholeModel(Stages, NumLayers, route)
<1>1. RunsWholeModel(Candidates(r), NumLayers, route)
  BY CandidatesAreRanked, ChainsServe, LayersAssumption DEF Chains
<1>2. /\ DOMAIN Candidates(r) \subseteq Conn /\ DOMAIN Stages = Conn
      /\ \A c \in DOMAIN Candidates(r) : Candidates(r)[c] = Stages[c]
  BY StagesAssumption DEF Candidates, Conns
<1>3. \A x \in DOMAIN route : route[x] \in DOMAIN Candidates(r)
  BY <1>1 DEF RunsWholeModel
<1> QED
  BY <1>1, <1>2, <1>3 DEF RunsWholeModel

LEMMA WholeNext == Shape /\ RunningChainsAreWhole /\ [Next]_vars => RunningChainsAreWhole'
<1> SUFFICES ASSUME Shape, RunningChainsAreWhole, [Next]_vars, NEW r \in Request, pc'[r] \in Running
             PROVE  RunsWholeModel(Stages, NumLayers, chain'[r])
  BY DEF RunningChainsAreWhole
<1>0. TypeOK /\ DOMAIN chain = Request /\ pc \in [Request -> PC]
  BY DEF Shape, TypeOK, TaskTypeOK
<1>1. ASSUME NEW q \in Request, Route(q) PROVE RunsWholeModel(Stages, NumLayers, chain'[r])
  <2>1. PICK route \in Chains(q) : chain' = [chain EXCEPT ![q] = route]
    BY <1>1 DEF Route
  <2>2. q # r => pc'[r] = pc[r] /\ chain'[r] = chain[r]
    BY <1>0, <1>1, <2>1 DEF Route
  <2>3. q = r => chain'[r] = route
    BY <1>0, <2>1
  <2> QED
    BY <1>0, <2>1, <2>2, <2>3, ChainIsWhole DEF RunningChainsAreWhole
<1>2. CASE UNCHANGED chain /\ pc[r] \in Running
  BY <1>2 DEF RunningChainsAreWhole
<1>3. ASSUME NEW q \in Request, Task(q), ~Route(q) PROVE UNCHANGED chain /\ pc[r] \in Running
  <2>1. UNCHANGED chain
    BY <1>3 DEF Task, Poll, Submit, RouteInvalid, Park, GiveUp, Reply, SendFails, Stop, Emit, End,
                EndServed, EndSkipped, Answer, FailOver, taskVars
  <2>2. pc'[q] \in Running => pc[q] \in Running
    <3>1. CASE Submit(q) \/ RouteInvalid(q) \/ Park(q) \/ GiveUp(q) \/ Answer(q) \/ FailOver(q)
      <4>1. pc'[q] \in {"cover", "broken", "parked", "refused", "done"}
        BY <1>0, <3>1 DEF Submit, RouteInvalid, Park, GiveUp, Answer, FailOver
      <4> QED
        BY <4>1 DEF Running
    <3>2. CASE Reply(q) \/ SendFails(q) \/ Stop(q) \/ Emit(q) \/ End(q)
      BY <3>2 DEF Reply, SendFails, Stop, Emit, End, EndServed, EndSkipped, Running
    <3> QED
      BY <1>3, <3>1, <3>2 DEF Task, Poll
  <2>3. q # r => pc'[r] = pc[r]
    BY <1>0, <1>3 DEF Task, Poll, Submit, RouteInvalid, Park, GiveUp, Reply, SendFails, Stop, Emit, End,
                EndServed, EndSkipped, Answer, FailOver
  <2> QED
    BY <2>1, <2>2, <2>3
<1>4. ASSUME NEW c \in Conn, Node(c) PROVE UNCHANGED chain /\ pc[r] \in Running
  <2>1. UNCHANGED chain
    BY <1>4 DEF Node, Connect, Lose, Disconnect, taskVars
  <2>2. pc' = pc \/ pc' = PcAfterDisconnect(c)
    BY <1>4 DEF Node, Connect, Lose, Disconnect
  <2>3. PcAfterDisconnect(c)[r] \in Running => pc[r] \in Running
    BY DEF PcAfterDisconnect, Running
  <2> QED
    BY <2>1, <2>2, <2>3
<1>5. ~Crash
  BY <1>0 DEF Crash, Running, Waiting, PC
<1> QED
  BY <1>1, <1>2, <1>3, <1>4, <1>5 DEF Next, Quiescent, vars, taskVars

\* RunningChainsAreWhole: through disconnects, failovers and new routes, the chain
\* a running request goes through is the whole model, each layer once and in
\* order, on nodes that announced it (_await_coverage and _run_generation).
THEOREM RequestsRunWholeModel == Spec => []RunningChainsAreWhole
<1>1. Init => RunningChainsAreWhole
  BY DEF Init, RunningChainsAreWhole, Running
<1> QED
  BY <1>1, ShapeInit, ShapeNext, WholeNext, PTL DEF Spec

-----------------------------------------------------------------------------
(* No task awaits a node that is gone *)

LEMMA AwaitedInit == Init => AwaitedNodesPresent
BY DEF Init, AwaitedNodesPresent

LEMMA AwaitedNext ==
    ASSUME Shape, AwaitedNodesPresent, [Next]_vars
    PROVE  AwaitedNodesPresent'
<1> USE DEF Shape
<1> SUFFICES ASSUME NEW q \in Request, pc'[q] = "call"
             PROVE  conn'[chain'[q][at'[q]]] \in {"up", "lost"} /\ chain'[q][at'[q]] \in Conn
  BY DEF AwaitedNodesPresent, Conns
\* A step that starts no call of q takes no node away from it.
<1>1. ASSUME UNCHANGED <<conn, chain[q], at[q], pc[q]>>
      PROVE  conn'[chain'[q][at'[q]]] \in {"up", "lost"} /\ chain'[q][at'[q]] \in Conn
  BY <1>1 DEF AwaitedNodesPresent, Conns
<1>2. CASE \E r \in Request : Task(r)
  <2> PICK r \in Request : Task(r)
    BY <1>2
  <2>1. CASE Route(r)
    <3>1. PICK route \in Chains(r) :
            /\ chain' = [chain EXCEPT ![r] = route]
            /\ \/ pc' = [pc EXCEPT ![r] = "call"]
               \/ pc' = [pc EXCEPT ![r] = "end"]
      BY <2>1 DEF Route
    <3>2. at' = [at EXCEPT ![r] = EmbedAt] /\ conn' = conn
      BY <2>1 DEF Route
    <3>3. route[EmbedAt] \in Conns
      BY ChainShape
    <3>4. CASE q = r
      <4>1. chain'[r][at'[r]] = route[EmbedAt]
        BY <3>1, <3>2 DEF TypeOK, TaskTypeOK
      <4> QED
        BY <3>2, <3>3, <3>4, <4>1 DEF Conns
    <3>5. CASE q # r
      <4>1. chain'[q] = chain[q] /\ at'[q] = at[q] /\ pc'[q] = pc[q]
        BY <3>1, <3>2, <3>5 DEF TypeOK, TaskTypeOK
      <4> QED
        BY <1>1, <3>2, <4>1
    <3> QED
      BY <3>4, <3>5
  <2>2. CASE Reply(r)
    <3>1. PICK next \in CallStarts(chain[r], at[r]) :
            /\ at' = [at EXCEPT ![r] = next]
            /\ pc' = [pc EXCEPT ![r] = IF next = PastHead THEN "choose"
                                       ELSE Awaiting(chain[r][next])]
      BY <2>2 DEF Reply
    <3>2. conn' = conn /\ chain' = chain
      BY <2>2 DEF Reply, connVars
    <3>3. CASE q = r
      <4>1. chain[r][next] \in Conns /\ at'[r] = next
        BY <3>1, <3>3 DEF TypeOK, TaskTypeOK, Awaiting
      <4> QED
        BY <3>2, <3>3, <4>1 DEF Conns
    <3>4. CASE q # r
      <4>1. at'[q] = at[q] /\ pc'[q] = pc[q]
        BY <3>1, <3>4 DEF TypeOK, TaskTypeOK
      <4> QED
        BY <1>1, <3>2, <4>1
    <3> QED
      BY <3>3, <3>4
  <2>3. CASE Emit(r)
    <3>1. conn' = conn /\ chain' = chain
      BY <2>3 DEF Emit, connVars
    <3>2. \/ /\ pc' = [pc EXCEPT ![r] = Awaiting(chain[r][EmbedAt])]
             /\ at' = [at EXCEPT ![r] = EmbedAt]
          \/ pc' = [pc EXCEPT ![r] = "end"] /\ UNCHANGED at
      BY <2>3 DEF Emit
    <3>3. CASE q = r
      <4>1. chain[r][EmbedAt] \in Conns /\ at'[r] = EmbedAt
        BY <3>2, <3>3 DEF TypeOK, TaskTypeOK, Awaiting
      <4> QED
        BY <3>1, <3>3, <4>1 DEF Conns
    <3>4. CASE q # r
      <4>1. at'[q] = at[q] /\ pc'[q] = pc[q]
        BY <3>2, <3>4 DEF TypeOK, TaskTypeOK
      <4> QED
        BY <1>1, <3>1, <4>1
    <3> QED
      BY <3>3, <3>4
  <2>4. CASE Submit(r) \/ RouteInvalid(r) \/ Park(r) \/ GiveUp(r) \/ SendFails(r) \/ Stop(r)
              \/ End(r) \/ Answer(r) \/ FailOver(r)
    <3>1. UNCHANGED <<conn, chain, at>>
      BY <2>4 DEF Submit, RouteInvalid, Park, GiveUp, SendFails, Stop, End, EndServed,
                  EndSkipped, Answer, FailOver, connVars, taskVars
    <3>2. \/ pc' = pc
          \/ \E new \in Waiting \cup Over \cup {"down", "end"} : pc' = [pc EXCEPT ![r] = new]
      BY <2>4 DEF Submit, RouteInvalid, Park, GiveUp, SendFails, Stop, End, EndServed,
                  EndSkipped, Answer, FailOver, Waiting, Over
    <3>3. pc'[q] = pc[q]
      BY <3>2 DEF TypeOK, Waiting, Over
    <3> QED
      BY <1>1, <3>1, <3>3
  <2> QED
    BY <2>1, <2>2, <2>3, <2>4 DEF Task, Poll
<1>3. CASE \E c \in Conn : Node(c)
  <2> PICK c \in Conn : Node(c)
    BY <1>3
  <2>1. UNCHANGED <<chain, at>>
    BY DEF Node, Connect, Lose, Disconnect, taskVars
  <2>2. pc[q] = "call"
    BY DEF Node, Connect, Lose, Disconnect, PcAfterDisconnect
  <2>3. conn[chain[q][at[q]]] \in {"up", "lost"} /\ chain[q][at[q]] \in Conn
    BY <2>2 DEF AwaitedNodesPresent, Conns
  <2>4. CASE Connect(c) \/ Lose(c)
    BY <2>1, <2>3, <2>4 DEF Connect, Lose, TypeOK, ConnTypeOK
  <2>5. CASE Disconnect(c)
    <3>1. chain[q][at[q]] # c
      BY <2>2, <2>5 DEF Disconnect, PcAfterDisconnect
    <3> QED
      BY <2>1, <2>3, <2>5, <3>1 DEF Disconnect, TypeOK, ConnTypeOK
  <2> QED
    BY <2>4, <2>5 DEF Node
<1>4. CASE Crash
  BY <1>4 DEF Crash, TypeOK, Running, Waiting
<1>5. CASE UNCHANGED vars
  BY <1>1, <1>5 DEF vars, connVars, taskVars
<1> QED
  BY <1>2, <1>3, <1>4, <1>5 DEF Next, Quiescent

\* The finally clause of node_ws and the check at the start of _call
\* (coordinator.py:97-104 and 71-75) are enough: in every swarm, a task that
\* awaits a node awaits one that is in conns.
THEOREM NoAbandonedCall == Spec => []AwaitedNodesPresent
<1>1. Init => Shape /\ AwaitedNodesPresent
  BY ShapeInit, AwaitedInit
<1>2. (Shape /\ AwaitedNodesPresent) /\ [Next]_vars => (Shape /\ AwaitedNodesPresent)'
  BY ShapeNext, AwaitedNext
<1> QED
  BY <1>1, <1>2, PTL DEF Spec

-----------------------------------------------------------------------------
(* A failed node stays out, and every failover is a node's first failure *)

LEMMA FailedInit == Init => FailedNodesStayOut
<1>1. Cardinality({}) = 0
  BY FS_EmptySet
<1> QED
  BY <1>1 DEF Init, FailedNodesStayOut, Running, Waiting

LEMMA FailedNext ==
    ASSUME Shape, FailedNodesStayOut, [Next]_vars
    PROVE  FailedNodesStayOut'
<1> USE DEF Shape
<1> SUFFICES ASSUME NEW q \in Request PROVE
        /\ pc'[q] \in Running => ChainConns(q)' \cap excluded'[q] = {}
        /\ pc'[q] \in Waiting \cup Running \cup {"done"} =>
            Cardinality(excluded'[q]) = attempt'[q]
  BY DEF FailedNodesStayOut
\* A step that keeps the chain and the excluded nodes of q, and does not start
\* an attempt of it, is harmless.
<1>1. ASSUME UNCHANGED <<chain[q], excluded[q], attempt[q]>>,
             pc'[q] \in Running => pc[q] \in Running,
             pc'[q] \in Waiting \cup Running \cup {"done"} =>
                pc[q] \in Waiting \cup Running \cup {"done"}
      PROVE  /\ pc'[q] \in Running => ChainConns(q)' \cap excluded'[q] = {}
             /\ pc'[q] \in Waiting \cup Running \cup {"done"} =>
                 Cardinality(excluded'[q]) = attempt'[q]
  BY <1>1 DEF FailedNodesStayOut, ChainConns
<1>2. CASE \E r \in Request : Task(r)
  <2> PICK r \in Request : Task(r)
    BY <1>2
  <2>1. CASE Route(r)
    <3>1. PICK route \in Chains(r) :
            /\ chain' = [chain EXCEPT ![r] = route]
            /\ \/ pc' = [pc EXCEPT ![r] = "call"]
               \/ pc' = [pc EXCEPT ![r] = "end"]
      BY <2>1 DEF Route
    <3>2. UNCHANGED <<excluded, attempt>> /\ pc[r] \in Waiting
      BY <2>1 DEF Route
    <3>3. CASE q = r
      <4>1. chain'[r] = route
        BY <3>1 DEF TypeOK, TaskTypeOK
      <4>2. \A x \in DOMAIN route : route[x] \notin excluded[r]
        BY ChainShape
      <4>3. ChainConns(r)' \cap excluded'[r] = {}
        BY <3>2, <4>1, <4>2 DEF ChainConns
      <4>4. Cardinality(excluded'[r]) = attempt'[r]
        BY <3>2 DEF FailedNodesStayOut
      <4> QED
        BY <3>3, <4>3, <4>4
    <3>4. CASE q # r
      <4>1. chain'[q] = chain[q] /\ pc'[q] = pc[q]
        BY <3>1, <3>4 DEF TypeOK, TaskTypeOK
      <4> QED
        BY <1>1, <3>2, <4>1
    <3> QED
      BY <3>3, <3>4
  <2>2. CASE Submit(r)
    <3>1. UNCHANGED <<chain, excluded, attempt>> /\ pc[r] = "idle"
          /\ pc' = [pc EXCEPT ![r] = "cover"]
      BY <2>2 DEF Submit
    <3>2. Cardinality(excluded[r]) = attempt[r]
      BY <3>1, FS_EmptySet DEF TasksWellFormed
    <3>3. CASE q = r
      BY <3>1, <3>2, <3>3 DEF TypeOK, Running
    <3>4. CASE q # r
      <4>1. pc'[q] = pc[q]
        BY <3>1, <3>4 DEF TypeOK
      <4> QED
        BY <1>1, <3>1, <4>1
    <3> QED
      BY <3>3, <3>4
  <2>3. CASE FailOver(r)
    <3> DEFINE c == chain[r][at[r]]
    <3>1. /\ chain' = chain
          /\ excluded' = [excluded EXCEPT ![r] = @ \cup {c}]
          /\ pc[r] = "down"
      BY <2>3 DEF FailOver
    <3>2. \/ /\ pc' = [pc EXCEPT ![r] = "cover"]
             /\ attempt' = [attempt EXCEPT ![r] = @ + 1]
          \/ pc' = [pc EXCEPT ![r] = "refused"] /\ UNCHANGED attempt
      BY <2>3 DEF FailOver
    <3>3. c \in ChainConns(r)
      BY <3>1 DEF TasksWellFormed, ChainConns
    <3>4. c \notin excluded[r] /\ Cardinality(excluded[r]) = attempt[r]
      BY <3>1, <3>3 DEF FailedNodesStayOut, Running
    <3> HIDE DEF c
    <3>5. Cardinality(excluded[r] \cup {c}) = attempt[r] + 1
      <4>1. IsFiniteSet(excluded[r])
        BY ConnAssumption, FS_Subset DEF TypeOK, TaskTypeOK
      <4> QED
        BY <3>4, <4>1, FS_AddElement
    <3>6. CASE q = r
      <4>1. excluded'[r] = excluded[r] \cup {c}
        BY <3>1 DEF TypeOK, TaskTypeOK
      <4>2. \/ pc'[r] = "cover" /\ attempt'[r] = attempt[r] + 1
            \/ pc'[r] = "refused"
        BY <3>2 DEF TypeOK, TaskTypeOK
      <4> QED
        BY <3>5, <3>6, <4>1, <4>2 DEF Running, Waiting
    <3>7. CASE q # r
      <4>1. /\ UNCHANGED <<chain[q], excluded[q], attempt[q]>>
            /\ pc'[q] = pc[q]
        BY <3>1, <3>2, <3>7 DEF TypeOK, TaskTypeOK
      <4> QED
        BY <1>1, <4>1
    <3> QED
      BY <3>6, <3>7
  <2>4. CASE Reply(r) \/ RouteInvalid(r) \/ Park(r) \/ GiveUp(r) \/ SendFails(r) \/ Stop(r)
              \/ Emit(r) \/ End(r) \/ Answer(r)
    <3>1. UNCHANGED <<chain, excluded, attempt>>
      BY <2>4 DEF Reply, RouteInvalid, Park, GiveUp, SendFails, Stop, Emit, End, EndServed,
                  EndSkipped, Answer, taskVars
    <3>2. CASE q = r
      <4>1. /\ pc'[r] \in Running => pc[r] \in Running
            /\ pc[r] \in Waiting \cup Running
        BY <2>4 DEF Reply, RouteInvalid, Park, GiveUp, SendFails, Stop, Emit, End, EndServed,
                    EndSkipped, Answer, Awaiting, TypeOK, Running, Waiting
      <4> QED
        BY <1>1, <3>1, <3>2, <4>1
    <3>3. CASE q # r
      <4>1. pc'[q] = pc[q]
        BY <2>4, <3>3 DEF Reply, RouteInvalid, Park, GiveUp, SendFails, Stop, Emit, End,
                          EndServed, EndSkipped, Answer, TypeOK
      <4> QED
        BY <1>1, <3>1, <4>1
    <3> QED
      BY <3>2, <3>3
  <2> QED
    BY <2>1, <2>2, <2>3, <2>4 DEF Task, Poll
<1>3. CASE \E c \in Conn : Node(c)
  <2>1. UNCHANGED taskVars
    BY <1>3 DEF Node, Connect, Lose, Disconnect
  <2>2. pc'[q] = pc[q] \/ (pc[q] = "call" /\ pc'[q] = "down")
    BY <1>3 DEF Node, Connect, Lose, Disconnect, PcAfterDisconnect
  <2> QED
    BY <1>1, <2>1, <2>2 DEF taskVars, Running
<1>4. CASE Crash
  <2>1. UNCHANGED taskVars
    BY <1>4 DEF Crash
  <2>2. pc'[q] = pc[q] \/ pc'[q] = "cut"
    BY <1>4 DEF Crash
  <2> QED
    BY <1>1, <2>1, <2>2 DEF taskVars, Running, Waiting
<1>5. CASE UNCHANGED vars
  BY <1>1, <1>5 DEF vars, taskVars
<1> QED
  BY <1>2, <1>3, <1>4, <1>5 DEF Next, Quiescent

\* _generate_with_failover (coordinator.py:237-275) never sends a request to a
\* node that failed it, and its failover count is the number of nodes that did,
\* whatever the swarm, the interleaving of requests and MAX_FAILOVERS.
THEOREM FailedNodesNeverReused == Spec => []FailedNodesStayOut
<1>1. Init => Shape /\ FailedNodesStayOut
  BY ShapeInit, FailedInit
<1>2. (Shape /\ FailedNodesStayOut) /\ [Next]_vars => (Shape /\ FailedNodesStayOut)'
  BY ShapeNext, FailedNext
<1> QED
  BY <1>1, <1>2, PTL DEF Spec

-----------------------------------------------------------------------------
(* The loads *)

Users(c) == {r \in Request : pc[r] \in Running /\ c \in ChainConns(r)}

\* A worker that has not connected yet carries no load.
OffUnloaded == \A c \in Conn : conn[c] = "off" => load[c] = 0

Loads == OffUnloaded /\ LoadAccounting

LEMMA UsersFinite ==
    ASSUME NEW c \in Conn
    PROVE  IsFiniteSet(Users(c)) /\ Cardinality(Users(c)) \in Nat
<1>1. Users(c) \in SUBSET Request
  BY DEF Users
<1> QED
  BY <1>1, RequestAssumption, FS_Subset, FS_CardinalityType

\* A step that begins and ends no attempt leaves the accounts as they are.
LEMMA LoadsKept ==
    ASSUME Loads, UNCHANGED <<conn, load, chain>>,
           \A q \in Request : pc'[q] \in Running <=> pc[q] \in Running
    PROVE  Loads'
<1>1. \A c \in Conn : Users(c)' = Users(c)
  BY DEF Users, ChainConns
<1>2. LoadAccounting'
  BY <1>1 DEF Loads, LoadAccounting, Users, Conns
<1> QED
  BY <1>2 DEF Loads, OffUnloaded

LEMMA LoadsInit == Init => Loads
BY DEF Init, Loads, OffUnloaded, LoadAccounting, Conns

LEMMA LoadsRoute ==
    ASSUME Shape, Loads, NEW r \in Request, Route(r)
    PROVE  Loads'
<1> USE DEF Shape
<1>1. PICK route \in Chains(r) :
        /\ chain' = [chain EXCEPT ![r] = route]
        /\ load' = [c \in Conn |-> IF \E x \in DOMAIN route : route[x] = c
                                   THEN load[c] + 1 ELSE load[c]]
        /\ \/ pc' = [pc EXCEPT ![r] = "call"]
           \/ pc' = [pc EXCEPT ![r] = "end"]
  BY DEF Route
<1>2. pc[r] \notin Running /\ conn' = conn
  BY DEF Route, Waiting, Running
<1>3. pc'[r] \in Running /\ chain'[r] = route
  BY <1>1 DEF TypeOK, TaskTypeOK, Running
<1>4. \A q \in Request : q # r => pc'[q] = pc[q] /\ chain'[q] = chain[q]
  BY <1>1 DEF TypeOK, TaskTypeOK
<1>5. ASSUME NEW c \in Conn, NEW x \in DOMAIN route, route[x] = c
      PROVE  Users(c)' = Users(c) \cup {r} /\ load'[c] = load[c] + 1
  <2>1. c \in ChainConns(r)'
    BY <1>3, <1>5 DEF ChainConns
  <2>2. Users(c)' = Users(c) \cup {r}
    BY <1>3, <1>4, <2>1 DEF Users, ChainConns
  <2>3. load'[c] = load[c] + 1
    BY <1>1, <1>5
  <2> QED
    BY <2>2, <2>3
<1>6. ASSUME NEW c \in Conn, \A x \in DOMAIN route : route[x] # c
      PROVE  Users(c)' = Users(c) /\ load'[c] = load[c]
  <2>1. c \notin ChainConns(r)'
    BY <1>3, <1>6 DEF ChainConns
  <2>2. Users(c)' = Users(c)
    BY <1>2, <1>4, <2>1 DEF Users, ChainConns
  <2>3. load'[c] = load[c]
    BY <1>1, <1>6
  <2> QED
    BY <2>2, <2>3
<1>7. ASSUME NEW c \in Conns PROVE load'[c] = Cardinality(Users(c)')
  <2>1. c \in Conn /\ load[c] = Cardinality(Users(c))
    BY <1>7 DEF Conns, Loads, LoadAccounting, Users
  <2>2. CASE \E x \in DOMAIN route : route[x] = c
    <3>1. Users(c)' = Users(c) \cup {r} /\ load'[c] = load[c] + 1
      BY <1>5, <2>1, <2>2
    <3>2. r \notin Users(c)
      BY <1>2 DEF Users
    <3>3. Cardinality(Users(c) \cup {r}) = Cardinality(Users(c)) + 1
      BY <2>1, <3>2, UsersFinite, FS_AddElement
    <3> QED
      BY <2>1, <3>1, <3>3
  <2>3. CASE \A x \in DOMAIN route : route[x] # c
    BY <1>6, <2>1, <2>3
  <2> QED
    BY <2>2, <2>3
<1>8. LoadAccounting'
  BY <1>2, <1>7 DEF LoadAccounting, Users, Conns
<1>9. OffUnloaded'
  <2> SUFFICES ASSUME NEW c \in Conn, conn[c] = "off" PROVE load'[c] = 0
    BY <1>2 DEF OffUnloaded
  <2>1. \A x \in DOMAIN route : route[x] # c
    BY ChainShape DEF Conns
  <2> QED
    BY <1>6, <2>1 DEF Loads, OffUnloaded
<1> QED
  BY <1>8, <1>9 DEF Loads

\* The finally clause runs once for every attempt.
LEMMA LoadsReleased ==
    ASSUME Shape, Loads, NEW r \in Request, Answer(r) \/ FailOver(r)
    PROVE  Loads'
<1> USE DEF Shape
<1>1. UNCHANGED <<conn, chain>> /\ load' = Released(r)
  BY DEF Answer, FailOver, taskVars
<1>2. pc[r] \in Running /\ pc'[r] \notin Running
  BY DEF Answer, FailOver, TypeOK, Running
<1>3. \A q \in Request : q # r => pc'[q] = pc[q]
  BY DEF Answer, FailOver, TypeOK
<1>4. \A c \in Conn : Users(c)' = Users(c) \ {r}
  BY <1>1, <1>2, <1>3 DEF Users, ChainConns
<1>5. ASSUME NEW c \in Conns PROVE load'[c] = Cardinality(Users(c)')
  <2>1. c \in Conn /\ load[c] = Cardinality(Users(c))
    BY <1>5 DEF Conns, Loads, LoadAccounting, Users
  <2>2. IsFiniteSet(Users(c)) /\ Cardinality(Users(c)) \in Nat
    BY <2>1, UsersFinite
  <2>3. Cardinality(Users(c) \ {r}) = IF r \in Users(c) THEN Cardinality(Users(c)) - 1
                                     ELSE Cardinality(Users(c))
    BY <2>2, FS_RemoveElement
  <2>4. r \in Users(c) <=> c \in ChainConns(r)
    BY <1>2 DEF Users
  <2>5. r \in Users(c) => load[c] > 0
    <3>1. r \in Users(c) => Users(c) # {}
      OBVIOUS
    <3>2. Cardinality(Users(c)) = 0 => Users(c) = {}
      BY <2>2, FS_EmptySet
    <3> QED
      BY <2>1, <2>2, <3>1, <3>2
  <2>6. load'[c] = IF r \in Users(c) THEN load[c] - 1 ELSE load[c]
    BY <1>1, <1>5, <2>1, <2>4, <2>5 DEF Released
  <2> QED
    BY <1>4, <2>1, <2>3, <2>6
<1>6. LoadAccounting'
  BY <1>1, <1>5 DEF LoadAccounting, Users, Conns
<1>7. OffUnloaded'
  BY <1>1 DEF Loads, OffUnloaded, Released, Conns
<1> QED
  BY <1>6, <1>7 DEF Loads

LEMMA LoadsNode ==
    ASSUME Shape, Loads, NEW c \in Conn, Node(c)
    PROVE  Loads'
<1> USE DEF Shape
<1>1. UNCHANGED chain
  BY DEF Node, Connect, Lose, Disconnect, taskVars
<1>2. \A r \in Request : pc'[r] \in Running <=> pc[r] \in Running
  BY DEF Node, Connect, Lose, Disconnect, PcAfterDisconnect, Running
<1>3. \A d \in Conn : Users(d)' = Users(d)
  BY <1>1, <1>2 DEF Users, ChainConns
<1>4. \A d \in Conn : load'[d] = load[d] \/ (d = c /\ conn'[d] = "gone")
  BY DEF Node, Connect, Lose, Disconnect, TypeOK, ConnTypeOK
<1>5. \A d \in Conn : \/ conn'[d] = conn[d]
                      \/ d = c /\ conn[d] = "off" /\ conn'[d] = "up"
                      \/ d = c /\ conn[d] = "up" /\ conn'[d] = "lost"
                      \/ d = c /\ conn'[d] = "gone"
  BY DEF Node, Connect, Lose, Disconnect, TypeOK, ConnTypeOK
<1>6. ASSUME NEW d \in Conn, conn'[d] \in {"up", "lost"}
      PROVE  load'[d] = Cardinality(Users(d)')
  <2>1. load'[d] = load[d]
    BY <1>4, <1>6
  <2>2. CASE d \in Conns
    BY <1>3, <2>1, <2>2 DEF Loads, LoadAccounting, Users
  <2>3. CASE conn[d] = "off"
    <3>1. Users(d) = {}
      BY <2>3 DEF Users, TasksWellFormed
    <3> QED
      BY <1>3, <2>1, <2>3, <3>1, FS_EmptySet DEF Loads, OffUnloaded
  <2> QED
    BY <1>5, <1>6, <2>2, <2>3 DEF Conns
<1>7. LoadAccounting'
  BY <1>6 DEF LoadAccounting, Users, Conns
<1>8. OffUnloaded'
  BY <1>4, <1>5 DEF Loads, OffUnloaded
<1> QED
  BY <1>7, <1>8 DEF Loads

LEMMA LoadsNext ==
    ASSUME Shape, Loads, [Next]_vars
    PROVE  Loads'
<1> USE DEF Shape
<1>1. CASE \E r \in Request : Task(r)
  <2> PICK r \in Request : Task(r)
    BY <1>1
  <2>1. CASE Submit(r) \/ RouteInvalid(r) \/ Park(r) \/ GiveUp(r) \/ Reply(r) \/ SendFails(r)
              \/ Stop(r) \/ Emit(r) \/ End(r)
    <3>1. UNCHANGED <<conn, load, chain>>
      BY <2>1 DEF Submit, RouteInvalid, Park, GiveUp, Reply, SendFails, Stop, Emit, End,
                  EndServed, EndSkipped, connVars, taskVars
    <3>2. \A q \in Request : q # r => pc'[q] = pc[q]
      BY <2>1 DEF Submit, RouteInvalid, Park, GiveUp, Reply, SendFails, Stop, Emit, End,
                  EndServed, EndSkipped, TypeOK
    <3>3. pc'[r] \in Running <=> pc[r] \in Running
      BY <2>1 DEF Submit, RouteInvalid, Park, GiveUp, Reply, SendFails, Stop, Emit, End,
                  EndServed, EndSkipped, Awaiting, TypeOK, Running, Waiting
    <3> QED
      BY <3>1, <3>2, <3>3, LoadsKept
  <2> QED
    BY <2>1, LoadsRoute, LoadsReleased DEF Task, Poll
<1>2. CASE \E c \in Conn : Node(c)
  BY <1>2, LoadsNode
<1>3. CASE Crash
  <2>1. load' = [c \in Conn |-> 0] /\ conn' = [c \in Conn |-> "off"]
    BY <1>3 DEF Crash
  <2> QED
    BY <2>1 DEF Loads, OffUnloaded, LoadAccounting, Conns
<1>4. CASE UNCHANGED vars
  BY <1>4, LoadsKept DEF vars, connVars, taskVars
<1> QED
  BY <1>1, <1>2, <1>3, <1>4 DEF Next, Quiescent

\* The load a node is ranked by is never leaked and never lost: it is the
\* number of attempts that run on it (coordinator.py:248-250 and 271-274), for
\* every swarm, every number of concurrent requests and every failure.
THEOREM LoadIsAccounted == Spec => []LoadAccounting
<1>1. Init => Shape /\ Loads
  BY ShapeInit, LoadsInit
<1>2. (Shape /\ Loads) /\ [Next]_vars => (Shape /\ Loads)'
  BY ShapeNext, LoadsNext
<1>3. Loads => LoadAccounting
  BY DEF Loads
<1> QED
  BY <1>1, <1>2, <1>3, PTL DEF Spec

=============================================================================
