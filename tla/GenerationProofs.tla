-------------------------- MODULE GenerationProofs --------------------------
(***************************************************************************)
(* Proofs about what a generation of Coordinator feeds, returns, logs and  *)
(* leaves behind: the KV caches of the blocks, the answer, the job log,    *)
(* and the service a client sees.                                          *)
(***************************************************************************)
EXTENDS CoordinatorProofs

USE DEF EmbedAt, HeadAt, BlockAt, PastHead, PromptLen

\* Names for the requests and the caches the invariants are about.
Active == Running \cup Waiting

Slots == Conn \X Request \X (0 .. MaxFailovers) \X (1 .. NumLayers)

-----------------------------------------------------------------------------
(* What a step of one task leaves alone *)

\* The variables of the task of q.
TaskOf(q) ==
    <<pc[q], job[q], attempt[q], excluded[q], chain[q], at[q], prefill[q], h[q],
      tokens[q], acked[q], ending[q]>>

\* The event loop switches tasks only at an await: a step of one task writes no
\* variable of another.
LEMMA OthersKept ==
    ASSUME TypeOK, NEW r \in Request, Task(r), NEW q \in Request, q # r
    PROVE  UNCHANGED TaskOf(q) /\ conn' = conn
<1> USE DEF TaskOf
<1>1. CASE Submit(r)
  BY <1>1 DEF Submit, connVars, TypeOK, TaskTypeOK
<1>2. CASE Route(r)
  <2>1. /\ UNCHANGED <<conn, job, attempt, excluded, tokens>>
        /\ at' = [at EXCEPT ![r] = EmbedAt]
        /\ prefill' = [prefill EXCEPT ![r] = TRUE]
        /\ h' = [h EXCEPT ![r] = {}]
        /\ acked' = [acked EXCEPT ![r] = NoReceipts(r)]
    BY <1>2 DEF Route
  <2>2. PICK route \in Chains(r) :
          /\ chain' = [chain EXCEPT ![r] = route]
          /\ \/ pc' = [pc EXCEPT ![r] = "call"] /\ UNCHANGED ending
             \/ /\ pc' = [pc EXCEPT ![r] = "end"]
                /\ ending' = [ending EXCEPT ![r] = EndTargets(route)]
    BY <1>2 DEF Route
  <2> QED
    BY <2>1, <2>2 DEF TypeOK, TaskTypeOK
<1>3. CASE RouteInvalid(r) \/ Park(r) \/ GiveUp(r) \/ SendFails(r)
  BY <1>3 DEF RouteInvalid, Park, GiveUp, SendFails, connVars, taskVars, TypeOK, TaskTypeOK
<1>4. CASE Reply(r)
  <2>1. PICK lengths, next :
          /\ h' = [h EXCEPT ![r] = @ \cup lengths]
          /\ at' = [at EXCEPT ![r] = next]
          /\ pc' = [pc EXCEPT ![r] = IF next = PastHead THEN "choose"
                                     ELSE Awaiting(chain[r][next])]
    BY <1>4 DEF Reply
  <2>2. UNCHANGED <<conn, job, attempt, excluded, chain, prefill, tokens, ending>>
    BY <1>4 DEF Reply, connVars
  <2>3. acked' = [acked EXCEPT ![r][chain[r][at[r]]] = @ + 1]
    BY <1>4 DEF Reply
  <2> QED
    BY <2>1, <2>2, <2>3 DEF TypeOK, TaskTypeOK
<1>5. CASE Stop(r)
  BY <1>5 DEF Stop, connVars, TypeOK, TaskTypeOK
<1>6. CASE Emit(r)
  BY <1>6 DEF Emit, connVars, TypeOK, TaskTypeOK
<1>7. CASE End(r)
  BY <1>7 DEF End, EndServed, EndSkipped, connVars, TypeOK, TaskTypeOK
<1>8. CASE Answer(r)
  BY <1>8 DEF Answer, taskVars, TypeOK, TaskTypeOK
<1>9. CASE FailOver(r)
  BY <1>9 DEF FailOver, TypeOK, TaskTypeOK
<1> QED
  BY <1>1, <1>2, <1>3, <1>4, <1>5, <1>6, <1>7, <1>8, <1>9 DEF Task, Poll

\* A request's calls reach no cache of another request.
LEMMA OtherCachesKept ==
    ASSUME TypeOK, NEW r \in Request, Task(r)
    PROVE  \A k \in Slots : k[2] # r => kv'[k] = kv[k]
<1>1. CASE Reply(r)
  <2>1. PICK span : kv' = Decoded(r, span)
    BY <1>1 DEF Reply
  <2> QED
    BY <2>1 DEF Decoded, CacheOf, TypeOK, Slots
<1>2. CASE End(r)
  BY <1>2 DEF End, EndServed, EndSkipped, TypeOK, Slots
<1>3. CASE ~Reply(r) /\ ~End(r)
  <2>1. UNCHANGED kv
    BY <1>3 DEF Task, Submit, Poll, Route, RouteInvalid, Park, GiveUp, SendFails, Stop, Emit,
                Answer, FailOver
  <2> QED
    BY <2>1
<1> QED
  BY <1>1, <1>2, <1>3

\* A request writes no row and no receipt but its own.
LEMMA OtherRowsKept ==
    ASSUME TypeOK, TasksWellFormed, NEW r \in Request, Task(r)
    PROVE  \A j \in JobId : j # job'[r] => rows'[j] = rows[j] /\ receipts'[j] = receipts[j]
<1> SUFFICES ASSUME NEW j \in JobId, j # job'[r]
             PROVE  rows'[j] = rows[j] /\ receipts'[j] = receipts[j]
  OBVIOUS
<1> USE DEF Write, UpdateRow, SetStatus, Fail
<1>1. CASE Submit(r)
  <2>1. PICK i \in JobId : job' = [job EXCEPT ![r] = i] /\ Write(CreateJob(rows, i))
    BY <1>1 DEF Submit, FreshIds
  <2>2. job'[r] = i
    BY <2>1 DEF TypeOK, TaskTypeOK
  <2> QED
    BY <2>1, <2>2 DEF CreateJob, TypeOK, LogTypeOK
<1>2. CASE Poll(r)
  <2>1. job' = job
    BY <1>2 DEF Poll, Route, RouteInvalid, Park, GiveUp, taskVars
  <2>2. \/ UNCHANGED logVars
        \/ \E status \in Statuses : Write(SetStatus(rows, job[r], status))
    BY <1>2 DEF Poll, Route, RouteInvalid, Park, GiveUp, Statuses
  <2> QED
    BY <2>1, <2>2 DEF logVars, TypeOK, LogTypeOK
<1>3. CASE Emit(r)
  BY <1>3 DEF Emit, AppendToken, TypeOK, LogTypeOK
<1>4. CASE Answer(r)
  BY <1>4 DEF Answer, taskVars, WriteOutcome, Finish, AddReceipts, TypeOK, LogTypeOK
<1>5. CASE FailOver(r)
  BY <1>5 DEF FailOver, TypeOK, LogTypeOK
<1>6. CASE Reply(r) \/ SendFails(r) \/ Stop(r) \/ End(r)
  BY <1>6 DEF Reply, SendFails, Stop, End, EndServed, EndSkipped, logVars
<1> QED
  BY <1>1, <1>2, <1>3, <1>4, <1>5, <1>6 DEF Task

-----------------------------------------------------------------------------
(* What the operators of a pass return *)

\* The tiling of a model starts at its first layer, so every chain has a block
\* there.
LEMMA ChainHasFirstBlock ==
    ASSUME NEW r \in Request, NEW route \in Chains(r)
    PROVE  BlockAt(0) \in DOMAIN route
<1>1. BlockAt(0) \in Positions(Candidates(r), NumLayers)
  BY DEF Positions, Starts
<1> QED
  BY <1>1 DEF Chains, BuildChain

\* The stages of one call are all stages of the node that is called.
LEMMA SpanIsOneNode ==
    ASSUME NEW route, NEW x \in Nat, DOMAIN route \subseteq Nat,
           NEW next \in CallStarts(route, x), \A y \in CallStarts(route, x) : next <= y
    PROVE  \A y \in CallSpan(route, x, next) : route[y] = route[x]
<1> SUFFICES ASSUME NEW y \in DOMAIN route, x < y, y < next, route[y] # route[x]
             PROVE  FALSE
  BY DEF CallSpan
<1>1. next \in Nat
  BY LayersAssumption DEF CallStarts
<1>2. y \in CallStarts(route, x)
  BY DEF CallStarts
<1> QED
  BY <1>1, <1>2

\* What a reply does to the task of r and to its caches: the stages from at[r]
\* up to next have run, all on one living node.
CallAnswered(r, next) ==
    /\ at[r] \in DOMAIN chain[r]
    /\ conn[chain[r][at[r]]] = "up"
    /\ at[r] < next
    /\ at'[r] = next
    /\ pc'[r] = IF next = PastHead THEN "choose" ELSE Awaiting(chain[r][next])
    /\ acked'[r] = [acked[r] EXCEPT ![chain[r][at[r]]] = @ + 1]
    /\ \A x \in DOMAIN chain[r] : at[r] <= x /\ x < next => chain[r][x] = chain[r][at[r]]
    /\ \A x \in Decoders(r) :
        kv'[CacheOf(r, x)] = IF at[r] <= x /\ x < next THEN kv[CacheOf(r, x)] + InputLen(r)
                             ELSE kv[CacheOf(r, x)]
    /\ \A k \in Slots :
        kv'[k] = kv[k] \/ \E x \in Decoders(r) : at[r] <= x /\ x < next /\ k = CacheOf(r, x)
    /\ \A n : n \in h'[r] <=>
        \/ n \in h[r]
        \/ \E x \in Decoders(r) : at[r] <= x /\ x < next /\ n = kv'[CacheOf(r, x)]

LEMMA ReplyStep ==
    ASSUME Shape, NEW r \in Request, Reply(r)
    PROVE  \E next \in DOMAIN chain[r] \cup {PastHead} : CallAnswered(r, next)
<1> USE DEF Shape
<1>1. /\ at[r] \in DOMAIN chain[r]
      /\ conn[chain[r][at[r]]] = "up"
      /\ acked' = [acked EXCEPT ![r][chain[r][at[r]]] = @ + 1]
  BY DEF Reply, TasksWellFormed
<1>2. DOMAIN chain[r] \subseteq 0 .. HeadAt(NumLayers)
  BY DEF TypeOK, TaskTypeOK
<1>3. PICK next \in CallStarts(chain[r], at[r]) :
        /\ \A y \in CallStarts(chain[r], at[r]) : next <= y
        /\ kv' = Decoded(r, CallSpan(chain[r], at[r], next))
        /\ h' = [h EXCEPT ![r] =
                    @ \cup {Decoded(r, CallSpan(chain[r], at[r], next))[CacheOf(r, x)] :
                            x \in CallSpan(chain[r], at[r], next) \cap Decoders(r)}]
        /\ at' = [at EXCEPT ![r] = next]
        /\ pc' = [pc EXCEPT ![r] = IF next = PastHead THEN "choose"
                                   ELSE Awaiting(chain[r][next])]
  BY DEF Reply
<1>4. next \in DOMAIN chain[r] \cup {PastHead} /\ at[r] < next /\ next \in Nat
  BY <1>1, <1>2, LayersAssumption DEF CallStarts
<1> DEFINE span == CallSpan(chain[r], at[r], next)
<1>5. \A x \in DOMAIN chain[r] : x \in span <=> at[r] <= x /\ x < next
  BY DEF CallSpan
<1>6. \A x \in DOMAIN chain[r] :
        at[r] <= x /\ x < next => chain[r][x] = chain[r][at[r]]
  BY <1>1, <1>2, <1>3, <1>5, SpanIsOneNode
<1>7. \A k \in Slots : kv'[k] = IF \E x \in span \cap Decoders(r) : k = CacheOf(r, x)
                                THEN kv[k] + InputLen(r) ELSE kv[k]
  BY <1>3 DEF Decoded, TypeOK, Slots
<1>8. \A x \in Decoders(r) : CacheOf(r, x) \in Slots /\ x \in DOMAIN chain[r]
  BY CacheShape DEF Slots, Decoders
<1>9. ASSUME NEW x \in Decoders(r)
      PROVE  kv'[CacheOf(r, x)] = IF at[r] <= x /\ x < next
                                  THEN kv[CacheOf(r, x)] + InputLen(r)
                                  ELSE kv[CacheOf(r, x)]
  <2>1. (\E y \in span \cap Decoders(r) : CacheOf(r, x) = CacheOf(r, y)) <=> x \in span
    BY DEF CacheOf
  <2> QED
    BY <1>5, <1>7, <1>8, <2>1
<1>10. \A k \in Slots :
        kv'[k] = kv[k] \/ \E x \in Decoders(r) : at[r] <= x /\ x < next /\ k = CacheOf(r, x)
  BY <1>5, <1>7, <1>8
<1>11. h'[r] = h[r] \cup {kv'[CacheOf(r, x)] : x \in span \cap Decoders(r)}
  <2> DEFINE new == {kv'[CacheOf(r, x)] : x \in span \cap Decoders(r)}
  <2>1. h' = [h EXCEPT ![r] = @ \cup new]
    BY <1>3
  <2> HIDE DEF new
  <2>2. h'[r] = h[r] \cup new
    BY <2>1 DEF TypeOK, TaskTypeOK
  <2> QED
    BY <2>2 DEF new
<1>12. \A n : n \in h'[r] <=>
        \/ n \in h[r]
        \/ \E x \in Decoders(r) : at[r] <= x /\ x < next /\ n = kv'[CacheOf(r, x)]
  <2>1. \A x : x \in span \cap Decoders(r) <=> x \in Decoders(r) /\ at[r] <= x /\ x < next
    BY <1>5, <1>8
  <2> HIDE DEF span
  <2> QED
    BY <1>11, <2>1
<1>13. acked'[r] = [acked[r] EXCEPT ![chain[r][at[r]]] = @ + 1]
  BY <1>1 DEF TypeOK, TaskTypeOK
<1>14. /\ at'[r] = next
       /\ pc'[r] = IF next = PastHead THEN "choose" ELSE Awaiting(chain[r][next])
  BY <1>3 DEF TypeOK, TaskTypeOK
<1>15. CallAnswered(r, next)
  BY <1>1, <1>4, <1>6, <1>9, <1>10, <1>12, <1>13, <1>14 DEF CallAnswered
<1> QED
  BY <1>4, <1>15

-----------------------------------------------------------------------------
(* The KV caches *)

\* A worker that is not connected holds nothing: its caches went with it.
CachesOfTheDead == \A k \in Slots : conn[k[1]] # "up" => kv[k] = 0

\* No node has seen the job ids of the attempts to come.
NextAttemptsEmpty(r) ==
    \A k \in Slots : k[2] = r =>
        /\ k[3] > attempt[r] => kv[k] = 0
        /\ k[3] = attempt[r] /\ pc[r] \in Waiting \cup {"idle"} => kv[k] = 0

\* A running chain has a block at layer 0, and its request is a valid one.
ChainWhole(r) ==
    pc[r] \in Running => BlockAt(0) \in DOMAIN chain[r] /\ r \notin Invalid

\* Every block the pass went through holds the whole context, the others what
\* the pass before left; the activation saw nothing but that context.
PassInStep(r) ==
    pc[r] \in {"call", "choose"} =>
        /\ pc[r] = "choose" => at[r] = PastHead
        /\ \A x \in Decoders(r) : conn[chain[r][x]] = "up" =>
            kv[CacheOf(r, x)] = IF x < at[r] THEN StartPosition(r) + InputLen(r)
                                ELSE StartPosition(r)
        /\ \A n \in h[r] : n = StartPosition(r) + InputLen(r)
        /\ (\E x \in Decoders(r) : x < at[r]) => h[r] # {}

\* What a complete generation has not released yet, an end op will.
EndsPending(r) ==
    /\ pc[r] \in {"end", "done"} =>
        \A x \in Decoders(r) : chain[r][x] \in ending[r] \/ kv[CacheOf(r, x)] = 0
    /\ pc[r] = "done" => ending[r] = {}

CachesOfTask(r) ==
    NextAttemptsEmpty(r) /\ ChainWhole(r) /\ PassInStep(r) /\ EndsPending(r)

CacheInv == CachesOfTheDead /\ \A r \in Request : CachesOfTask(r)

LEMMA CacheInit == Init => CacheInv
<1> SUFFICES ASSUME Init PROVE CacheInv
  OBVIOUS
<1>1. \A k \in Slots : kv[k] = 0
  BY DEF Init, Slots
<1>2. \A r \in Request : pc[r] = "idle"
  BY DEF Init
<1> QED
  BY <1>1, <1>2 DEF CacheInv, CachesOfTheDead, CachesOfTask, NextAttemptsEmpty, ChainWhole,
                    PassInStep, EndsPending, Running

\* A step that leaves the task of q and its caches alone.
LEMMA CachesOfTaskKept ==
    ASSUME Shape, NEW q \in Request, CachesOfTask(q), UNCHANGED <<TaskOf(q), conn>>,
           \A k \in Slots : k[2] = q => kv'[k] = kv[k]
    PROVE  CachesOfTask(q)'
<1> USE DEF TaskOf
<1>1. /\ Decoders(q)' = Decoders(q)
      /\ \A x : CacheOf(q, x)' = CacheOf(q, x)
      /\ StartPosition(q)' = StartPosition(q)
      /\ InputLen(q)' = InputLen(q)
  BY DEF Decoders, CacheOf, NodeJob, StartPosition, InputLen
<1>2. \A x \in Decoders(q) : kv'[CacheOf(q, x)] = kv[CacheOf(q, x)]
  <2>1. \A x \in Decoders(q) : CacheOf(q, x) \in Slots /\ CacheOf(q, x)[2] = q
    BY CacheShape DEF Shape, Slots, CacheOf
  <2> QED
    BY <2>1
<1>3. NextAttemptsEmpty(q)'
  BY DEF CachesOfTask, NextAttemptsEmpty
<1>4. ChainWhole(q)'
  BY DEF CachesOfTask, ChainWhole
<1>5. PassInStep(q)'
  BY <1>1, <1>2 DEF CachesOfTask, PassInStep
<1>6. EndsPending(q)'
  BY <1>1, <1>2 DEF CachesOfTask, EndsPending
<1> QED
  BY <1>3, <1>4, <1>5, <1>6 DEF CachesOfTask

\* An attempt begins with empty caches at the nodes of its chain.
LEMMA CachesRoute ==
    ASSUME Shape, NEW r \in Request, CachesOfTask(r), Route(r)
    PROVE  CachesOfTask(r)'
<1> USE DEF Shape
<1>1. PICK route \in Chains(r) :
        /\ chain' = [chain EXCEPT ![r] = route]
        /\ \/ pc' = [pc EXCEPT ![r] = "call"]
           \/ /\ pc' = [pc EXCEPT ![r] = "end"]
              /\ ending' = [ending EXCEPT ![r] = EndTargets(route)]
  BY DEF Route
<1>2. /\ at'[r] = EmbedAt /\ prefill'[r] = TRUE /\ h'[r] = {}
      /\ pc[r] \in Waiting /\ r \notin Invalid
      /\ UNCHANGED <<kv, attempt>>
  BY DEF Route, TypeOK, TaskTypeOK
<1>3. /\ chain'[r] = route
      /\ \/ pc'[r] = "call"
         \/ pc'[r] = "end" /\ ending'[r] = EndTargets(route)
  BY <1>1 DEF TypeOK, TaskTypeOK
<1>4. \A x \in Decoders(r)' : kv'[CacheOf(r, x)'] = 0
  <2>1. TypeOK'
    BY TypePoll DEF Poll
  <2> SUFFICES ASSUME NEW x \in Decoders(r)' PROVE kv'[CacheOf(r, x)'] = 0
    OBVIOUS
  <2>2. x \in 1 .. NumLayers /\ route[x] \in Conn
    <3>1. x \in DOMAIN route /\ x # 0 /\ x # NumLayers + 1
      BY <1>3 DEF Decoders
    <3>2. DOMAIN route \subseteq 0 .. NumLayers + 1 /\ route[x] \in Conn
      BY <3>1, ChainShape DEF Conns
    <3> QED
      BY <3>1, <3>2, LayersAssumption
  <2>3. CacheOf(r, x)' = <<route[x], r, attempt[r], x>>
    BY <1>2, <1>3 DEF CacheOf, NodeJob
  <2>4. <<route[x], r, attempt[r], x>> \in Slots
    BY <2>2 DEF Slots, TypeOK, TaskTypeOK
  <2> QED
    BY <1>2, <2>3, <2>4 DEF CachesOfTask, NextAttemptsEmpty
<1>5. NextAttemptsEmpty(r)'
  BY <1>2, <1>3 DEF CachesOfTask, NextAttemptsEmpty, Waiting
<1>6. ChainWhole(r)'
  BY <1>2, <1>3, ChainHasFirstBlock DEF ChainWhole
<1>7. PassInStep(r)'
  <2>1. \A x \in Decoders(r)' : ~(x < EmbedAt)
    <3>1. Decoders(r)' \subseteq 0 .. HeadAt(NumLayers)
      BY <1>3, ChainShape DEF Decoders
    <3> QED
      BY <3>1, LayersAssumption
  <2>2. StartPosition(r)' = 0
    BY <1>2 DEF StartPosition
  <2>3. pc'[r] # "choose"
    BY <1>3
  <2> QED
    BY <1>2, <1>4, <2>1, <2>2, <2>3 DEF PassInStep
<1>8. EndsPending(r)'
  BY <1>3, <1>4 DEF EndsPending
<1> QED
  BY <1>5, <1>6, <1>7, <1>8 DEF CachesOfTask

\* A reply moves the pass on by one call.
LEMMA CachesReply ==
    ASSUME Shape, NEW r \in Request, CachesOfTask(r), Reply(r)
    PROVE  CachesOfTask(r)'
<1> USE DEF Shape
<1>0. PICK next \in DOMAIN chain[r] \cup {PastHead} : CallAnswered(r, next)
  BY ReplyStep
<1>1. /\ at[r] \in DOMAIN chain[r]
      /\ conn[chain[r][at[r]]] = "up"
      /\ at[r] < next
      /\ at'[r] = next
      /\ pc'[r] = IF next = PastHead THEN "choose" ELSE Awaiting(chain[r][next])
      /\ \A x \in DOMAIN chain[r] : at[r] <= x /\ x < next => chain[r][x] = chain[r][at[r]]
      /\ \A x \in Decoders(r) :
          kv'[CacheOf(r, x)] = IF at[r] <= x /\ x < next THEN kv[CacheOf(r, x)] + InputLen(r)
                               ELSE kv[CacheOf(r, x)]
      /\ \A k \in Slots :
          kv'[k] = kv[k] \/ \E x \in Decoders(r) : at[r] <= x /\ x < next /\ k = CacheOf(r, x)
      /\ \A n : n \in h'[r] <=>
          \/ n \in h[r]
          \/ \E x \in Decoders(r) : at[r] <= x /\ x < next /\ n = kv'[CacheOf(r, x)]
  BY <1>0 DEF CallAnswered
<1>2. /\ UNCHANGED <<conn, attempt, chain, prefill, tokens, ending>>
      /\ pc[r] = "call"
  BY DEF Reply, connVars
<1>3. /\ Decoders(r)' = Decoders(r)
      /\ \A x : CacheOf(r, x)' = CacheOf(r, x)
      /\ StartPosition(r)' = StartPosition(r)
      /\ InputLen(r)' = InputLen(r)
  BY <1>2 DEF Decoders, CacheOf, NodeJob, StartPosition, InputLen
<1>4. NextAttemptsEmpty(r)'
  <2>1. pc'[r] \in {"choose", "call", "down"}
    BY <1>1 DEF Awaiting
  <2>2. \A k \in Slots : k[2] = r /\ k[3] > attempt[r] => kv'[k] = kv[k]
    <3> SUFFICES ASSUME NEW k \in Slots, k[2] = r, k[3] > attempt[r] PROVE kv'[k] = kv[k]
      OBVIOUS
    <3>1. k[3] # attempt[r]
      BY DEF TypeOK, TaskTypeOK
    <3> QED
      BY <1>1, <3>1 DEF CacheOf, NodeJob
  <2> QED
    BY <1>2, <2>1, <2>2 DEF CachesOfTask, NextAttemptsEmpty, Waiting
<1>5. ChainWhole(r)'
  BY <1>1, <1>2 DEF CachesOfTask, ChainWhole, Running
<1>6. PassInStep(r)'
  <2>1. \A x \in Decoders(r) : x \in DOMAIN chain[r] /\ x \in Nat
    BY DEF Decoders, TypeOK, TaskTypeOK
  <2>2. at[r] \in Nat /\ next \in Nat
    BY <1>1, LayersAssumption DEF TypeOK, TaskTypeOK
  <2>3. ASSUME NEW x \in Decoders(r), conn[chain[r][x]] = "up"
        PROVE  kv'[CacheOf(r, x)] = IF x < next THEN StartPosition(r) + InputLen(r)
                                    ELSE StartPosition(r)
    <3>1. kv[CacheOf(r, x)] = IF x < at[r] THEN StartPosition(r) + InputLen(r)
                              ELSE StartPosition(r)
      BY <1>2, <2>3 DEF CachesOfTask, PassInStep
    <3> QED
      BY <1>1, <2>1, <2>2, <3>1
  <2>4. ASSUME NEW x \in Decoders(r), at[r] <= x, x < next
        PROVE  kv'[CacheOf(r, x)] = StartPosition(r) + InputLen(r)
    <3>1. conn[chain[r][x]] = "up"
      BY <1>1, <2>1, <2>4
    <3> QED
      BY <2>3, <2>4, <3>1
  <2>5. \A n \in h'[r] : n = StartPosition(r) + InputLen(r)
    BY <1>1, <1>2, <2>4 DEF CachesOfTask, PassInStep
  <2>6. ASSUME NEW x \in Decoders(r), x < next PROVE h'[r] # {}
    <3>1. CASE x < at[r]
      BY <1>1, <1>2, <3>1 DEF CachesOfTask, PassInStep
    <3>2. CASE at[r] <= x
      BY <1>1, <2>6, <3>2
    <3> QED
      BY <2>1, <2>2, <3>1, <3>2
  <2>7. pc'[r] = "choose" => at'[r] = PastHead
    BY <1>1 DEF Awaiting
  <2> QED
    BY <1>1, <1>2, <1>3, <2>3, <2>5, <2>6, <2>7 DEF PassInStep
<1>7. EndsPending(r)'
  BY <1>1 DEF EndsPending, Awaiting
<1> QED
  BY <1>4, <1>5, <1>6, <1>7 DEF CachesOfTask

\* The next token is fed at the position after the context the blocks hold.
LEMMA CachesEmit ==
    ASSUME Shape, NEW r \in Request, CachesOfTask(r), Emit(r) \/ Stop(r)
    PROVE  CachesOfTask(r)'
<1> USE DEF Shape
<1>1. /\ UNCHANGED <<conn, kv, attempt, chain>>
      /\ pc[r] = "choose"
  BY DEF Emit, Stop, connVars
<1>2. \/ /\ pc'[r] \in {"call", "down"}
         /\ at'[r] = EmbedAt
         /\ prefill'[r] = FALSE
         /\ h'[r] = {}
         /\ Len(tokens'[r]) = Len(tokens[r]) + 1
      \/ /\ pc'[r] = "end"
         /\ ending'[r] = EndTargets(chain[r])
  <2>1. CASE Emit(r)
    <3>1. Len(Append(tokens[r], Produced(r))) = Len(tokens[r]) + 1
      BY ProducedShape DEF TypeOK, TaskTypeOK
    <3>2. tokens'[r] = Append(tokens[r], Produced(r))
      BY <2>1 DEF Emit, TypeOK, TaskTypeOK
    <3>3. \/ /\ pc' = [pc EXCEPT ![r] = Awaiting(chain[r][EmbedAt])]
             /\ at' = [at EXCEPT ![r] = EmbedAt]
             /\ prefill' = [prefill EXCEPT ![r] = FALSE]
             /\ h' = [h EXCEPT ![r] = {}]
          \/ /\ pc' = [pc EXCEPT ![r] = "end"]
             /\ ending' = [ending EXCEPT ![r] = EndTargets(chain[r])]
      BY <2>1 DEF Emit
    <3> QED
      BY <3>1, <3>2, <3>3 DEF Awaiting, TypeOK, TaskTypeOK
  <2>2. CASE Stop(r)
    BY <2>2 DEF Stop, TypeOK, TaskTypeOK
  <2> QED
    BY <2>1, <2>2
<1>3. /\ Decoders(r)' = Decoders(r)
      /\ \A x : CacheOf(r, x)' = CacheOf(r, x)
  BY <1>1 DEF Decoders, CacheOf, NodeJob
<1>4. NextAttemptsEmpty(r)'
  BY <1>1, <1>2 DEF CachesOfTask, NextAttemptsEmpty, Waiting
<1>5. ChainWhole(r)'
  BY <1>1 DEF CachesOfTask, ChainWhole, Running
<1>6. PassInStep(r)'
  <2> SUFFICES ASSUME pc'[r] \in {"call", "choose"} PROVE PassInStep(r)'
    BY DEF PassInStep
  <2>1. /\ pc'[r] = "call" /\ at'[r] = EmbedAt /\ prefill'[r] = FALSE /\ h'[r] = {}
        /\ Len(tokens'[r]) = Len(tokens[r]) + 1
    BY <1>2
  <2>2. Len(tokens[r]) \in Nat
    BY DEF TypeOK, TaskTypeOK
  <2>3. StartPosition(r)' = StartPosition(r) + InputLen(r)
    BY <2>1, <2>2 DEF StartPosition, InputLen, TypeOK, TaskTypeOK
  <2>4. \A x \in Decoders(r) : x < PastHead /\ ~(x < EmbedAt)
    BY LayersAssumption DEF Decoders, TypeOK, TaskTypeOK
  <2>5. at[r] = PastHead
    BY <1>1 DEF CachesOfTask, PassInStep
  <2>6. \A x \in Decoders(r) : conn[chain[r][x]] = "up" =>
            kv[CacheOf(r, x)] = StartPosition(r) + InputLen(r)
    BY <1>1, <2>4, <2>5 DEF CachesOfTask, PassInStep
  <2> QED
    BY <1>1, <1>3, <2>1, <2>3, <2>4, <2>6 DEF PassInStep
<1>7. EndsPending(r)'
  <2>1. \A x \in Decoders(r) : chain[r][x] \in EndTargets(chain[r])
    BY DEF Decoders, EndTargets
  <2> QED
    BY <1>1, <1>2, <1>3, <2>1 DEF EndsPending
<1> QED
  BY <1>4, <1>5, <1>6, <1>7 DEF CachesOfTask

\* An end op empties the caches of its node; a node that is gone has none.
LEMMA CachesEnd ==
    ASSUME Shape, CachesOfTheDead, NEW r \in Request, CachesOfTask(r), End(r)
    PROVE  CachesOfTask(r)'
<1> USE DEF Shape
<1>1. PICK c \in Conn : EndServed(r, c) \/ EndSkipped(r, c)
  BY DEF End
<1>2. /\ UNCHANGED <<conn, pc, attempt, chain>>
      /\ pc[r] = "end"
      /\ ending'[r] = ending[r] \ {c}
  BY <1>1 DEF EndServed, EndSkipped, connVars, TypeOK, TaskTypeOK
<1>3. \A k \in Slots : kv'[k] = kv[k] \/ kv'[k] = 0
  BY <1>1 DEF EndServed, EndSkipped, TypeOK, Slots
<1>4. /\ Decoders(r)' = Decoders(r)
      /\ \A x : CacheOf(r, x)' = CacheOf(r, x)
      /\ \A x \in Decoders(r) : CacheOf(r, x) \in Slots
  BY <1>2, CacheShape DEF Decoders, CacheOf, NodeJob, Slots
<1>5. ASSUME NEW x \in Decoders(r), chain[r][x] = c PROVE kv'[CacheOf(r, x)] = 0
  <2>1. CacheOf(r, x) = <<c, r, NodeJob(r), x>> /\ CacheOf(r, x) \in Slots
    BY <1>4, <1>5 DEF CacheOf
  <2>2. CASE EndServed(r, c)
    BY <2>1, <2>2 DEF EndServed, TypeOK, Slots
  <2>3. CASE EndSkipped(r, c)
    BY <2>1, <2>3 DEF EndSkipped, CachesOfTheDead
  <2> QED
    BY <1>1, <2>2, <2>3
<1>6. NextAttemptsEmpty(r)' /\ ChainWhole(r)' /\ PassInStep(r)'
  BY <1>2, <1>3 DEF CachesOfTask, NextAttemptsEmpty, ChainWhole, PassInStep
<1>7. EndsPending(r)'
  <2>1. \A x \in Decoders(r) : chain[r][x] \in ending'[r] \/ kv'[CacheOf(r, x)] = 0
    BY <1>2, <1>3, <1>4, <1>5 DEF CachesOfTask, EndsPending
  <2> QED
    BY <1>2, <1>4, <2>1 DEF EndsPending
<1> QED
  BY <1>6, <1>7 DEF CachesOfTask

\* The other steps of a task write no cache.
LEMMA CachesOtherwise ==
    ASSUME Shape, NEW r \in Request, CachesOfTask(r),
           Submit(r) \/ RouteInvalid(r) \/ Park(r) \/ GiveUp(r) \/ SendFails(r) \/ Answer(r)
               \/ FailOver(r)
    PROVE  CachesOfTask(r)'
<1> USE DEF Shape
<1>1. CASE FailOver(r)
  <2>1. kv' = kv /\ attempt'[r] \in {attempt[r], attempt[r] + 1}
        /\ \/ pc'[r] = "cover" /\ attempt'[r] = attempt[r] + 1
           \/ pc'[r] = "refused" /\ attempt'[r] = attempt[r]
    BY <1>1 DEF FailOver, TypeOK, TaskTypeOK
  <2>2. attempt[r] \in Nat
    BY DEF TypeOK, TaskTypeOK
  <2>3. NextAttemptsEmpty(r)'
    <3> SUFFICES ASSUME NEW k \in Slots, k[2] = r
                 PROVE  /\ k[3] > attempt'[r] => kv'[k] = 0
                        /\ k[3] = attempt'[r] /\ pc'[r] \in Waiting \cup {"idle"} => kv'[k] = 0
      BY DEF NextAttemptsEmpty
    <3>1. k[3] > attempt[r] => kv[k] = 0
      BY DEF CachesOfTask, NextAttemptsEmpty
    <3>2. k[3] \in Nat
      BY DEF Slots
    <3> QED
      BY <2>1, <2>2, <3>1, <3>2 DEF Waiting
  <2> QED
    BY <2>1, <2>3 DEF CachesOfTask, ChainWhole, PassInStep, EndsPending, Running
<1>2. CASE Answer(r)
  <2>1. UNCHANGED <<kv, attempt, chain, ending>> /\ pc[r] = "end" /\ ending[r] = {}
        /\ pc'[r] = "done"
    BY <1>2 DEF Answer, taskVars, TypeOK
  <2>2. Decoders(r)' = Decoders(r) /\ \A x : CacheOf(r, x)' = CacheOf(r, x)
    BY <2>1 DEF Decoders, CacheOf, NodeJob
  <2> QED
    BY <2>1, <2>2 DEF CachesOfTask, NextAttemptsEmpty, ChainWhole, PassInStep, EndsPending,
                      Running, Waiting
<1>3. CASE Submit(r) \/ RouteInvalid(r) \/ Park(r) \/ GiveUp(r) \/ SendFails(r)
  <2>1. UNCHANGED <<kv, attempt, chain>>
    BY <1>3 DEF Submit, RouteInvalid, Park, GiveUp, SendFails, taskVars
  <2>2. \/ pc[r] \in Waiting \cup {"idle"} /\ pc'[r] \in {"cover", "parked", "broken", "refused"}
        \/ pc[r] = "call" /\ pc'[r] = "down"
    BY <1>3 DEF Submit, RouteInvalid, Park, GiveUp, SendFails, TypeOK, Waiting
  <2> QED
    BY <2>1, <2>2 DEF CachesOfTask, NextAttemptsEmpty, ChainWhole, PassInStep, EndsPending,
                      Running, Waiting
<1> QED
  BY <1>1, <1>2, <1>3

\* A connection that is not up has lost its caches, and a chain only goes through
\* workers that did connect.
LEMMA CachesNode ==
    ASSUME Shape, CacheInv, NEW c \in Conn, Node(c)
    PROVE  CacheInv'
<1> USE DEF Shape
<1>1. UNCHANGED taskVars
  BY DEF Node, Connect, Lose, Disconnect
<1>2. \A r \in Request : pc'[r] = pc[r] \/ (pc[r] = "call" /\ pc'[r] = "down")
  BY DEF Node, Connect, Lose, Disconnect, PcAfterDisconnect
<1>3. \A k \in Slots : kv'[k] = IF Lose(c) /\ k[1] = c THEN 0 ELSE kv[k]
  BY DEF Node, Connect, Lose, Disconnect, TypeOK, Slots, ConnTypeOK
<1>4. \A d \in Conn : \/ conn'[d] = conn[d] /\ ~(Lose(c) /\ d = c)
                      \/ d = c /\ conn[d] = "off" /\ conn'[d] = "up" /\ ~Lose(c)
                      \/ d = c /\ conn[d] = "up" /\ conn'[d] = "lost" /\ Lose(c)
                      \/ d = c /\ conn[d] = "lost" /\ conn'[d] = "gone" /\ ~Lose(c)
  BY DEF Node, Connect, Lose, Disconnect, TypeOK, ConnTypeOK
<1>5. CachesOfTheDead'
  <2> SUFFICES ASSUME NEW k \in Slots, conn'[k[1]] # "up" PROVE kv'[k] = 0
    BY DEF CachesOfTheDead
  <2>1. k[1] \in Conn
    BY DEF Slots
  <2>2. CASE Lose(c) /\ k[1] = c
    BY <1>3, <2>2
  <2>3. CASE ~(Lose(c) /\ k[1] = c)
    <3>1. conn[k[1]] # "up"
      BY <1>4, <2>1, <2>3
    <3> QED
      BY <1>3, <2>3, <3>1 DEF CacheInv, CachesOfTheDead
  <2> QED
    BY <2>2, <2>3
<1>6. ASSUME NEW r \in Request PROVE CachesOfTask(r)'
  <2>1. CachesOfTask(r)
    BY DEF CacheInv
  <2>2. /\ UNCHANGED <<attempt, chain, at, h, ending, prefill, tokens>>
        /\ Decoders(r)' = Decoders(r)
        /\ \A x : CacheOf(r, x)' = CacheOf(r, x)
        /\ StartPosition(r)' = StartPosition(r)
        /\ InputLen(r)' = InputLen(r)
    BY <1>1 DEF taskVars, Decoders, CacheOf, NodeJob, StartPosition, InputLen
  <2>3. \A x \in Decoders(r) : CacheOf(r, x) \in Slots /\ CacheOf(r, x)[1] = chain[r][x]
                               /\ chain[r][x] \in ChainConns(r) /\ chain[r][x] \in Conn
    BY CacheShape DEF Slots, CacheOf, Decoders, ChainConns, TypeOK, TaskTypeOK
  <2>4. NextAttemptsEmpty(r)'
    BY <1>2, <1>3, <2>1, <2>2 DEF CachesOfTask, NextAttemptsEmpty, Waiting
  <2>5. ChainWhole(r)'
    BY <1>2, <2>1, <2>2 DEF CachesOfTask, ChainWhole, Running
  <2>6. PassInStep(r)'
    <3> SUFFICES ASSUME pc'[r] \in {"call", "choose"} PROVE PassInStep(r)'
      BY DEF PassInStep
    <3>1. pc'[r] = pc[r]
      BY <1>2
    <3>2. ASSUME NEW x \in Decoders(r), conn'[chain[r][x]] = "up"
          PROVE  conn[chain[r][x]] = "up" /\ kv'[CacheOf(r, x)] = kv[CacheOf(r, x)]
      <4>1. conn[chain[r][x]] # "off"
        BY <2>3, <3>1 DEF TasksWellFormed, Running
      <4>2. conn[chain[r][x]] = "up" /\ ~(Lose(c) /\ chain[r][x] = c)
        BY <1>4, <2>3, <3>2, <4>1
      <4> QED
        BY <1>3, <2>3, <4>2
    <3> QED
      BY <2>1, <2>2, <3>1, <3>2 DEF CachesOfTask, PassInStep
  <2>7. EndsPending(r)'
    <3>1. pc'[r] \in {"end", "done"} => pc[r] = pc'[r]
      BY <1>2
    <3>2. \A x \in Decoders(r) : kv[CacheOf(r, x)] = 0 => kv'[CacheOf(r, x)] = 0
      BY <1>3, <2>3
    <3> QED
      BY <2>1, <2>2, <3>1, <3>2 DEF CachesOfTask, EndsPending
  <2> QED
    BY <2>4, <2>5, <2>6, <2>7 DEF CachesOfTask
<1> QED
  BY <1>5, <1>6 DEF CacheInv

LEMMA CachesCrash ==
    ASSUME Shape, CacheInv, Crash
    PROVE  CacheInv'
<1> USE DEF Shape
<1>1. \A k \in Slots : kv'[k] = 0
  BY DEF Crash, TypeOK, Slots
<1>2. UNCHANGED taskVars
  BY DEF Crash
<1>3. \A r \in Request : /\ pc'[r] \notin Running
                         /\ pc'[r] \in {"end", "done"} => pc[r] = "done"
  BY DEF Crash, TypeOK, Running, Waiting
<1>4. ASSUME NEW r \in Request PROVE CachesOfTask(r)'
  <2>1. Decoders(r)' = Decoders(r) /\ \A x : CacheOf(r, x)' = CacheOf(r, x)
    BY <1>2 DEF taskVars, Decoders, CacheOf, NodeJob
  <2>2. \A x \in Decoders(r) : CacheOf(r, x) \in Slots
    BY CacheShape DEF Slots
  <2>3. EndsPending(r)'
    BY <1>1, <1>2, <1>3, <2>1, <2>2 DEF CacheInv, CachesOfTask, EndsPending, taskVars
  <2> QED
    BY <1>1, <1>3, <2>3 DEF CachesOfTask, NextAttemptsEmpty, ChainWhole, PassInStep, Running
<1> QED
  BY <1>1, <1>4 DEF CacheInv, CachesOfTheDead

LEMMA CacheNext ==
    ASSUME Shape, CacheInv, [Next]_vars
    PROVE  CacheInv'
<1>1. CASE \E r \in Request : Task(r)
  <2> PICK r \in Request : Task(r)
    BY <1>1
  <2>1. CachesOfTask(r)'
    BY CachesRoute, CachesReply, CachesEmit, CachesEnd, CachesOtherwise DEF CacheInv, Task, Poll
  <2>2. ASSUME NEW q \in Request, q # r PROVE CachesOfTask(q)'
    <3>1. UNCHANGED <<TaskOf(q), conn>>
      BY <2>2, OthersKept DEF Shape
    <3>2. \A k \in Slots : k[2] = q => kv'[k] = kv[k]
      BY <2>2, OtherCachesKept DEF Shape
    <3>3. CachesOfTask(q)
      BY DEF CacheInv
    <3> QED
      BY <3>1, <3>2, <3>3, CachesOfTaskKept
  <2>3. CachesOfTheDead'
    <3> SUFFICES ASSUME NEW k \in Slots, conn'[k[1]] # "up" PROVE kv'[k] = 0
      BY DEF CachesOfTheDead
    <3>1. conn' = conn
      BY DEF Task, Submit, Poll, Route, RouteInvalid, Park, GiveUp, Reply, SendFails, Stop,
             Emit, End, EndServed, EndSkipped, Answer, FailOver, connVars
    <3>2. kv[k] = 0
      BY <3>1 DEF CacheInv, CachesOfTheDead
    <3>3. CASE Reply(r)
      <4>1. PICK next \in DOMAIN chain[r] \cup {PastHead} : CallAnswered(r, next)
        BY <3>3, ReplyStep
      <4> SUFFICES ASSUME NEW x \in Decoders(r), at[r] <= x, x < next, k = CacheOf(r, x)
                   PROVE  FALSE
        BY <3>2, <4>1 DEF CallAnswered
      <4>2. k[1] = chain[r][at[r]]
        BY <4>1 DEF CallAnswered, CacheOf, Decoders
      <4> QED
        BY <3>1, <4>1, <4>2 DEF CallAnswered
    <3>4. CASE End(r)
      BY <3>2, <3>4 DEF End, EndServed, EndSkipped, Shape, TypeOK, Slots
    <3>5. CASE ~Reply(r) /\ ~End(r)
      <4>1. UNCHANGED kv
        BY <3>5 DEF Task, Submit, Poll, Route, RouteInvalid, Park, GiveUp, SendFails, Stop, Emit,
                    Answer, FailOver
      <4> QED
        BY <3>2, <4>1
    <3> QED
      BY <3>3, <3>4, <3>5
  <2> QED
    BY <2>1, <2>2, <2>3 DEF CacheInv
<1>2. CASE \E c \in Conn : Node(c)
  BY <1>2, CachesNode
<1>3. CASE Crash
  BY <1>3, CachesCrash
<1>4. CASE UNCHANGED vars
  <2>1. UNCHANGED <<conn, kv>> /\ \A q : UNCHANGED TaskOf(q)
    BY <1>4 DEF vars, connVars, taskVars, TaskOf
  <2>2. \A q \in Request : CachesOfTask(q)'
    BY <2>1, CachesOfTaskKept DEF CacheInv
  <2> QED
    BY <2>1, <2>2 DEF CacheInv, CachesOfTheDead
<1> QED
  BY <1>1, <1>2, <1>3, <1>4 DEF Next, Quiescent

\* Every call a task makes carries the cache_position its node expects: the
\* caches of the decoder blocks follow the prompt, the resumed tokens and the
\* tokens fed since (coordinator.py:137-208 and 252-268 against blocks.py), for
\* every swarm, every tiling, every failover and every interleaving.
THEOREM CachesAgree == Spec => []CachesFollowPositions
<1>1. Init => Shape /\ CacheInv
  BY ShapeInit, CacheInit
<1>2. (Shape /\ CacheInv) /\ [Next]_vars => (Shape /\ CacheInv)'
  BY ShapeNext, CacheNext
<1>3. CacheInv => CachesFollowPositions
  BY DEF CacheInv, CachesOfTask, PassInStep, CachesFollowPositions
<1> QED
  BY <1>1, <1>2, <1>3, PTL DEF Spec

\* A client that has its answer left no cache at the nodes of its chain: the end
\* ops of _run_generation (coordinator.py:209-213) reach every node that still
\* has one, whatever nodes come and go meanwhile.
THEOREM WinnersRelease == Spec => []WinnerCachesReleased
<1>1. Init => Shape /\ CacheInv
  BY ShapeInit, CacheInit
<1>2. (Shape /\ CacheInv) /\ [Next]_vars => (Shape /\ CacheInv)'
  BY ShapeNext, CacheNext
<1>3. CacheInv => WinnerCachesReleased
  BY DEF CacheInv, CachesOfTask, EndsPending, WinnerCachesReleased
<1> QED
  BY <1>1, <1>2, <1>3, PTL DEF Spec

-----------------------------------------------------------------------------
(* The ids of the jobs *)

\* The requests that took their id from the counter of this life.
Accepted(r) == pc[r] \in Active \/ (crashes = 0 /\ pc[r] # "idle")

\* One counter names the jobs of a life: two of them never share a row.  Before
\* the first crash, a row whose id was not given yet is not there.
JobsDistinct ==
    /\ \A r \in Request : Accepted(r) =>
        /\ job[r] \in issued
        /\ \A q \in Request : q # r /\ Accepted(q) => job[q] # job[r]
    /\ crashes = 0 => \A j \in JobId \ issued :
        rows[j] = NoRow /\ receipts[j] = [c \in Conn |-> 0]

LEMMA JobsInit == Init => JobsDistinct
BY DEF Init, JobsDistinct, Accepted, Active, Running, Waiting

\* What Submit does.
LEMMA SubmitStep ==
    ASSUME TypeOK, NEW r \in Request, Submit(r)
    PROVE  /\ pc[r] = "idle" /\ pc'[r] = "cover"
           /\ job'[r] \in JobId \ issued
           /\ issued' = issued \cup {job'[r]}
           /\ Write(CreateJob(rows, job'[r]))
           /\ UNCHANGED <<tokens, attempt, crashes, receipts>>
<1>1. PICK j \in JobId \ issued :
        /\ job' = [job EXCEPT ![r] = j]
        /\ issued' = issued \cup {j}
        /\ Write(CreateJob(rows, j))
  BY DEF Submit, FreshIds
<1>2. job'[r] = j
  BY <1>1 DEF TypeOK, TaskTypeOK
<1>3. pc[r] = "idle" /\ pc'[r] = "cover" /\ UNCHANGED <<tokens, attempt, crashes>>
  BY DEF Submit, TypeOK
<1>4. UNCHANGED receipts
  BY <1>1 DEF Write
<1> QED
  BY <1>1, <1>2, <1>3, <1>4

\* A step of a task that was accepted keeps its job and the counter.
LEMMA AcceptedStep ==
    ASSUME TypeOK, NEW r \in Request, Task(r), ~Submit(r)
    PROVE  /\ UNCHANGED <<job, issued, crashes>>
           /\ pc[r] # "idle" /\ pc'[r] # "idle"
           /\ pc[r] \in Active
           /\ \A q \in Request : q # r => pc'[q] = pc[q]
<1>1. UNCHANGED <<job, issued, crashes>>
  BY DEF Task, Poll, Route, RouteInvalid, Park, GiveUp, Reply, SendFails, Stop, Emit,
         End, EndServed, EndSkipped, Answer, FailOver, taskVars
<1>2. pc[r] \in Active
  BY DEF Task, Poll, Route, RouteInvalid, Park, GiveUp, Reply, SendFails, Stop, Emit,
         End, EndServed, EndSkipped, Answer, FailOver, Active, Running, Waiting
<1>3. pc'[r] # "idle" /\ \A q \in Request : q # r => pc'[q] = pc[q]
  BY <1>2 DEF Task, Poll, Route, RouteInvalid, Park, GiveUp, Reply, SendFails, Stop, Emit,
         End, EndServed, EndSkipped, Answer, FailOver, Active, Running, Waiting, Awaiting, TypeOK
<1> QED
  BY <1>1, <1>2, <1>3 DEF Active, Running, Waiting

\* A step of the nodes keeps every job, and no crash.
LEMMA NodeStep ==
    ASSUME TypeOK, NEW c \in Conn, Node(c)
    PROVE  /\ UNCHANGED <<taskVars, logVars, issued, crashes>>
           /\ \A r \in Request : \/ pc'[r] = pc[r]
                                 \/ pc[r] = "call" /\ pc'[r] = "down"
BY DEF Node, Connect, Lose, Disconnect, PcAfterDisconnect

LEMMA JobsNext ==
    ASSUME Shape, JobsDistinct, [Next]_vars
    PROVE  JobsDistinct'
<1> USE DEF Shape
<1>1. CASE \E r \in Request : Task(r)
  <2> PICK r \in Request : Task(r)
    BY <1>1
  <2>1. CASE Submit(r)
    <3>1. /\ pc[r] = "idle" /\ pc'[r] = "cover"
          /\ job'[r] \in JobId \ issued
          /\ issued' = issued \cup {job'[r]}
          /\ crashes' = crashes
      BY <2>1, SubmitStep
    <3>2. \A q \in Request : q # r => pc'[q] = pc[q] /\ job'[q] = job[q]
      BY OthersKept DEF TaskOf
    <3>3. \A q \in Request : q # r => (Accepted(q)' <=> Accepted(q))
      BY <3>1, <3>2 DEF Accepted
    <3>4. ASSUME NEW q \in Request, Accepted(q)'
          PROVE  /\ job'[q] \in issued'
                 /\ \A p \in Request : p # q /\ Accepted(p)' => job'[p] # job'[q]
      BY <3>1, <3>2, <3>3, <3>4 DEF JobsDistinct
    <3>5. \A j \in JobId \ issued' : rows'[j] = rows[j] /\ receipts'[j] = receipts[j]
      BY <3>1, OtherRowsKept
    <3>6. crashes' = 0 => \A j \in JobId \ issued' :
            rows'[j] = NoRow /\ receipts'[j] = [c \in Conn |-> 0]
      BY <3>1, <3>5 DEF JobsDistinct
    <3> QED
      BY <3>4, <3>6 DEF JobsDistinct
  <2>2. CASE ~Submit(r)
    <3>1. /\ UNCHANGED <<job, issued, crashes>>
          /\ pc[r] # "idle" /\ pc'[r] # "idle" /\ pc[r] \in Active
          /\ \A q \in Request : q # r => pc'[q] = pc[q]
      BY <2>2, AcceptedStep
    <3>2. \A q \in Request : Accepted(q)' => Accepted(q)
      BY <3>1 DEF Accepted
    <3>3. job[r] \in issued /\ job'[r] = job[r]
      BY <3>1 DEF JobsDistinct, Accepted
    <3>4. \A j \in JobId \ issued : rows'[j] = rows[j] /\ receipts'[j] = receipts[j]
      BY <3>3, OtherRowsKept
    <3> QED
      BY <3>1, <3>2, <3>4 DEF JobsDistinct
  <2> QED
    BY <2>1, <2>2
<1>2. CASE \E c \in Conn : Node(c)
  <2>1. /\ UNCHANGED <<job, issued, crashes, rows, receipts>>
        /\ \A r \in Request : \/ pc'[r] = pc[r]
                              \/ pc[r] = "call" /\ pc'[r] = "down"
    BY <1>2, NodeStep DEF taskVars, logVars
  <2>2. \A r \in Request : Accepted(r)' => Accepted(r)
    BY <2>1 DEF Accepted, Active, Running, Waiting
  <2> QED
    BY <2>1, <2>2 DEF JobsDistinct
<1>3. CASE Crash
  <2>1. crashes' # 0
    BY <1>3 DEF Crash, TypeOK
  <2>2. \A r \in Request : pc'[r] \notin Active
    BY <1>3 DEF Crash, TypeOK, Active, Running, Waiting
  <2> QED
    BY <2>1, <2>2 DEF JobsDistinct, Accepted
<1>4. CASE UNCHANGED vars
  BY <1>4 DEF vars, taskVars, logVars, JobsDistinct, Accepted
<1> QED
  BY <1>1, <1>2, <1>3, <1>4 DEF Next, Quiescent

-----------------------------------------------------------------------------
(* The job log *)

\* A write that is not lost is made.
LEMMA KeptWrite ==
    ASSUME TypeOK, NEW newRows, Write(newRows), losses' = 0
    PROVE  losses = 0 /\ rows' = newRows /\ receipts' = receipts
BY DEF Write, TypeOK, LogTypeOK

LEMMA KeptOutcome ==
    ASSUME TypeOK, NEW newRows, NEW newReceipts, WriteOutcome(newRows, newReceipts), losses' = 0
    PROVE  losses = 0 /\ rows' = newRows /\ receipts' = newReceipts
<1>1. PICK kept \in SUBSET {"rows", "receipts"} :
        /\ losses' = losses + (2 - Cardinality(kept))
        /\ rows' = IF "rows" \in kept THEN newRows ELSE rows
        /\ receipts' = IF "receipts" \in kept THEN newReceipts ELSE receipts
  BY DEF WriteOutcome
<1>2. IsFiniteSet({"rows", "receipts"}) /\ Cardinality({"rows", "receipts"}) = 2
  <2>1. IsFiniteSet({"rows"}) /\ Cardinality({"rows"}) = 1
    BY FS_Singleton
  <2>2. /\ IsFiniteSet({"rows"} \cup {"receipts"})
        /\ Cardinality({"rows"} \cup {"receipts"}) = 2
    BY <2>1, FS_AddElement
  <2>3. {"rows", "receipts"} = {"rows"} \cup {"receipts"}
    OBVIOUS
  <2> QED
    BY <2>2, <2>3
<1>3. /\ Cardinality(kept) \in Nat /\ Cardinality(kept) <= 2
      /\ Cardinality(kept) = 2 => kept = {"rows", "receipts"}
  <2>1. IsFiniteSet(kept) /\ Cardinality(kept) <= Cardinality({"rows", "receipts"})
        /\ (Cardinality({"rows", "receipts"}) = Cardinality(kept) => {"rows", "receipts"} = kept)
    BY <1>2, FS_Subset
  <2> QED
    BY <1>2, <2>1, FS_CardinalityType
<1>4. losses \in Nat
  BY DEF TypeOK, LogTypeOK
<1>5. losses = 0 /\ kept = {"rows", "receipts"}
  BY <1>1, <1>3, <1>4
<1> QED
  BY <1>1, <1>5

\* Lost writes are never unlost, and crashes never undone.
LEMMA BoundsGrow ==
    ASSUME TypeOK, [Next]_vars
    PROVE  losses <= losses' /\ crashes <= crashes' /\ losses' \in Nat /\ crashes' \in Nat
<1>0. losses \in Nat /\ crashes \in Nat
  BY DEF TypeOK, LogTypeOK
<1>1. CASE \E r \in Request : Task(r)
  <2> PICK r \in Request : Task(r)
    BY <1>1
  <2>1. crashes' = crashes
    BY DEF Task, Submit, Poll, Route, RouteInvalid, Park, GiveUp, Reply, SendFails, Stop, Emit,
           End, EndServed, EndSkipped, Answer, FailOver
  <2>2. CASE Answer(r)
    <3>1. PICK kept \in SUBSET {"rows", "receipts"} :
            losses' = losses + (2 - Cardinality(kept))
      BY <2>2 DEF Answer, WriteOutcome
    <3>2. IsFiniteSet({"rows", "receipts"}) /\ Cardinality({"rows", "receipts"}) <= 2
      <4>1. IsFiniteSet({"rows"}) /\ Cardinality({"rows"}) = 1
        BY FS_Singleton
      <4>2. /\ IsFiniteSet({"rows"} \cup {"receipts"})
            /\ Cardinality({"rows"} \cup {"receipts"}) <= 2
        BY <4>1, FS_AddElement
      <4>3. {"rows", "receipts"} = {"rows"} \cup {"receipts"}
        OBVIOUS
      <4> QED
        BY <4>2, <4>3
    <3>3. Cardinality(kept) \in Nat /\ Cardinality(kept) <= 2
      <4>1. IsFiniteSet(kept) /\ Cardinality(kept) <= Cardinality({"rows", "receipts"})
        BY <3>2, FS_Subset
      <4> QED
        BY <3>2, <4>1, FS_CardinalityType
    <3> QED
      BY <1>0, <2>1, <3>1, <3>3
  <2>3. CASE ~Answer(r)
    <3>1. losses' = losses \/ losses' = losses + 1
      BY <2>3 DEF Task, Submit, Poll, Route, RouteInvalid, Park, GiveUp, Reply, SendFails, Stop,
           Emit, End, EndServed, EndSkipped, FailOver, Write, logVars
    <3> QED
      BY <1>0, <2>1, <3>1
  <2> QED
    BY <2>2, <2>3
<1>2. CASE \E c \in Conn : Node(c)
  BY <1>0, <1>2, NodeStep DEF logVars
<1>3. CASE Crash
  BY <1>0, <1>3 DEF Crash, Write
<1>4. CASE UNCHANGED vars
  BY <1>0, <1>4 DEF vars, logVars
<1> QED
  BY <1>1, <1>2, <1>3, <1>4 DEF Next, Quiescent

\* A task that ends for its client ends for its row as well.
LEMMA EndedRow ==
    ASSUME Shape, NEW r \in Request, Task(r), losses' = 0
    PROVE  \/ pc'[r] \in Active \cup {"broken"}
           \/ rows'[job'[r]].status \in {"NONE", "DONE", "FAILED"}
<1> USE DEF Shape
<1>1. CASE Submit(r)
  BY <1>1, SubmitStep DEF Active, Waiting
<1>2. CASE Answer(r)
  <2>1. job[r] \in JobId /\ job' = job
    BY <1>2 DEF Answer, TasksWellFormed, taskVars
  <2>2. rows' = Finish(rows, job[r], tokens[r])
    BY <1>2, KeptOutcome DEF Answer
  <2>3. rows[job[r]] \in Row /\ DOMAIN rows = JobId
    BY <2>1 DEF TypeOK, LogTypeOK
  <2>4. rows'[job[r]].status \in {"NONE", "DONE"}
    BY <2>1, <2>2, <2>3 DEF Finish, UpdateRow, Row
  <2> QED
    BY <2>1, <2>4
<1>3. CASE GiveUp(r) \/ FailOver(r)
  <2>1. job[r] \in JobId /\ job' = job
    BY <1>3 DEF GiveUp, FailOver, TasksWellFormed, taskVars, Running
  <2>2. pc'[r] = "cover" \/ Write(Fail(rows, job[r]))
    BY <1>3 DEF GiveUp, FailOver, TypeOK
  <2>3. CASE Write(Fail(rows, job[r]))
    <3>1. rows' = Fail(rows, job[r])
      BY <2>3, KeptWrite
    <3>2. rows[job[r]] \in Row /\ DOMAIN rows = JobId
      BY <2>1 DEF TypeOK, LogTypeOK
    <3>3. rows'[job[r]].status \in {"NONE", "FAILED"}
      BY <2>1, <3>1, <3>2 DEF Fail, SetStatus, UpdateRow, Row
    <3> QED
      BY <2>1, <3>3
  <2> QED
    BY <2>2, <2>3 DEF Active, Waiting
<1>4. CASE Route(r) \/ RouteInvalid(r) \/ Park(r) \/ Reply(r) \/ SendFails(r) \/ Stop(r)
              \/ Emit(r) \/ End(r)
  BY <1>4 DEF Route, RouteInvalid, Park, Reply, SendFails, Stop, Emit, End, EndServed, EndSkipped,
              Awaiting, TypeOK, Active, Running, Waiting
<1> QED
  BY <1>1, <1>2, <1>3, <1>4 DEF Task, Poll

LEMMA OrphanNext ==
    ASSUME Shape, NoOrphanRow, [Next]_vars
    PROVE  NoOrphanRow'
<1> USE DEF Shape
<1> SUFFICES ASSUME losses' = 0, NEW j \in JobId,
                    rows'[j].status \in {"RUNNING", "WAITING_COVERAGE"}
             PROVE  \E r \in Request : job'[r] = j /\ pc'[r] \in Active \cup {"broken"}
  BY DEF NoOrphanRow, Active
<1>0. losses = 0
  BY BoundsGrow DEF TypeOK, LogTypeOK
<1>1. rows[j].status \in {"RUNNING", "WAITING_COVERAGE"} =>
        \E r \in Request : job[r] = j /\ pc[r] \in Active \cup {"broken"}
  BY <1>0 DEF NoOrphanRow, Active
<1>2. CASE \E r \in Request : Task(r)
  <2> PICK r \in Request : Task(r)
    BY <1>2
  <2>1. CASE j = job'[r]
    BY <2>1, EndedRow
  <2>2. CASE j # job'[r]
    <3>1. rows'[j] = rows[j]
      BY <2>2, OtherRowsKept
    <3>2. PICK q \in Request : job[q] = j /\ pc[q] \in Active \cup {"broken"}
      BY <1>1, <3>1
    <3>3. q # r
      <4>1. CASE Submit(r)
        BY <3>2, <4>1 DEF Submit, Active, Running, Waiting
      <4>2. CASE ~Submit(r)
        BY <2>2, <3>2, <4>2, AcceptedStep
      <4> QED
        BY <4>1, <4>2
    <3>4. job'[q] = job[q] /\ pc'[q] = pc[q]
      BY <3>3, OthersKept DEF TaskOf
    <3> QED
      BY <3>2, <3>4
  <2> QED
    BY <2>1, <2>2
<1>3. CASE \E c \in Conn : Node(c)
  <2>1. UNCHANGED <<job, rows>> /\ \A r \in Request : pc'[r] = pc[r] \/ pc'[r] = "down"
    BY <1>3, NodeStep DEF taskVars, logVars
  <2> QED
    BY <1>1, <2>1 DEF Active, Running
<1>4. CASE Crash
  <2>1. rows' = Recover(rows)
    BY <1>4, KeptWrite DEF Crash
  <2>2. rows[j] \in Row /\ DOMAIN rows = JobId
    BY DEF TypeOK, LogTypeOK
  <2>3. rows'[j].status \notin {"RUNNING", "WAITING_COVERAGE"}
    BY <2>1, <2>2 DEF Recover, Row
  <2> QED
    BY <2>3
<1>5. CASE UNCHANGED vars
  BY <1>1, <1>5 DEF vars, taskVars, logVars
<1> QED
  BY <1>2, <1>3, <1>4, <1>5 DEF Next, Quiescent

\* While no write is lost, every row in progress has a request of this life
\* behind it, across any number of crashes: recover() and the FAILED and DONE
\* writes (jobstore.py:104-109, coordinator.py:286-291) leave none
\* behind, except the row of a request that ended in a 500.
THEOREM NoRowIsOrphaned == Spec => []NoOrphanRow
<1>1. Init => Shape /\ NoOrphanRow
  <2>1. Init => NoOrphanRow
    BY DEF Init, NoOrphanRow, NoRow
  <2> QED
    BY <2>1, ShapeInit
<1>2. (Shape /\ NoOrphanRow) /\ [Next]_vars => (Shape /\ NoOrphanRow)'
  BY ShapeNext, OrphanNext
<1> QED
  BY <1>1, <1>2, PTL DEF Spec

\* The row of a request of this life is written by that request alone.
LEMMA OtherRowKept ==
    ASSUME Shape, JobsDistinct, NEW r \in Request, Task(r), NEW q \in Request, q # r,
           Accepted(q)
    PROVE  /\ UNCHANGED <<TaskOf(q), conn>>
           /\ job[q] \in JobId
           /\ rows'[job[q]] = rows[job[q]] /\ receipts'[job[q]] = receipts[job[q]]
<1> USE DEF Shape
<1>1. UNCHANGED <<TaskOf(q), conn>>
  BY OthersKept
<1>2. job[q] \in JobId
  BY DEF TasksWellFormed, Accepted, Active, Running, Waiting
<1>3. job[q] # job'[r]
  <2>1. CASE Submit(r)
    BY <2>1, SubmitStep DEF JobsDistinct
  <2>2. CASE ~Submit(r)
    BY <2>2, AcceptedStep DEF JobsDistinct, Accepted
  <2> QED
    BY <2>1, <2>2
<1> QED
  BY <1>1, <1>2, <1>3, OtherRowsKept

\* Before the first crash, the row of a request that goes on is not terminal.
OpenRows ==
    crashes = 0 => \A r \in Request : pc[r] \in Active => rows[job[r]].status \notin Terminal

\* The row of a request that goes on after its step is not terminal either.
LEMMA OpenRowStep ==
    ASSUME Shape, JobsDistinct, OpenRows, crashes = 0, NEW r \in Request, Task(r),
           pc'[r] \in Active
    PROVE  rows'[job'[r]].status \notin Terminal
<1> USE DEF Shape
<1>1. CASE Submit(r)
  <2>1. /\ job'[r] \in JobId \ issued
        /\ Write(CreateJob(rows, job'[r]))
    BY <1>1, SubmitStep
  <2>2. rows[job'[r]] = NoRow
    BY <2>1 DEF JobsDistinct
  <2>3. rows'[job'[r]] \in {NoRow, NewRow}
    BY <2>1, <2>2 DEF Write, CreateJob, TypeOK, LogTypeOK
  <2> QED
    BY <2>3 DEF NoRow, NewRow, Terminal
<1>2. CASE ~Submit(r)
  <2>1. pc[r] \in Active /\ job' = job
    BY <1>2, AcceptedStep
  <2>2. job[r] \in JobId /\ rows[job[r]] \in Row /\ rows[job[r]].status \notin Terminal
        /\ DOMAIN rows = JobId
    BY <2>1 DEF TasksWellFormed, OpenRows, Active, Running, Waiting, TypeOK, LogTypeOK
  <2>3. CASE Route(r) \/ RouteInvalid(r) \/ Park(r)
    <3>1. \/ UNCHANGED rows
          \/ \E status \in {"RUNNING", "WAITING_COVERAGE"} :
                rows' = SetStatus(rows, job[r], status)
      BY <2>3 DEF Route, RouteInvalid, Park, Write, logVars
    <3> QED
      BY <2>1, <2>2, <3>1 DEF SetStatus, UpdateRow, Row, Terminal
  <2>4. CASE Emit(r)
    <3>1. \/ UNCHANGED rows
          \/ rows' = AppendToken(rows, job[r], Produced(r), Len(tokens[r]))
      BY <2>4 DEF Emit, Write
    <3>2. [rows[job[r]] EXCEPT !.tokens = WithToken(@, Produced(r), Len(tokens[r]))].status
            = rows[job[r]].status
      BY <2>2 DEF Row
    <3> QED
      BY <2>1, <2>2, <3>1, <3>2 DEF AppendToken, UpdateRow
  <2>5. CASE FailOver(r)
    <3>1. rows' = rows
      BY <2>5 DEF FailOver, TypeOK, Active, Running, Waiting
    <3> QED
      BY <2>1, <2>2, <3>1
  <2>6. CASE GiveUp(r) \/ Answer(r)
    BY <2>6 DEF GiveUp, Answer, TypeOK, Active, Running, Waiting
  <2>7. CASE Reply(r) \/ SendFails(r) \/ Stop(r) \/ End(r)
    <3>1. rows' = rows
      BY <2>7 DEF Reply, SendFails, Stop, End, EndServed, EndSkipped, logVars
    <3> QED
      BY <2>1, <2>2, <3>1
  <2> QED
    BY <1>2, <2>3, <2>4, <2>5, <2>6, <2>7 DEF Task, Poll
<1> QED
  BY <1>1, <1>2

LEMMA OpenRowsNext ==
    ASSUME Shape, JobsDistinct, OpenRows, [Next]_vars
    PROVE  OpenRows'
<1> USE DEF Shape
<1> SUFFICES ASSUME crashes' = 0, NEW q \in Request, pc'[q] \in Active
             PROVE  rows'[job'[q]].status \notin Terminal
  BY DEF OpenRows
<1>0. crashes = 0
  BY BoundsGrow DEF TypeOK
<1>1. CASE \E r \in Request : Task(r)
  <2> PICK r \in Request : Task(r)
    BY <1>1
  <2>1. CASE q = r
    BY <1>0, <2>1, OpenRowStep
  <2>2. CASE q # r
    <3>1. UNCHANGED <<pc[q], job[q]>>
      BY <2>2, OthersKept DEF TaskOf
    <3>2. rows'[job[q]] = rows[job[q]]
      BY <2>2, <3>1, OtherRowKept DEF Accepted
    <3> QED
      BY <1>0, <3>1, <3>2 DEF OpenRows
  <2> QED
    BY <2>1, <2>2
<1>2. CASE \E c \in Conn : Node(c)
  <2>1. UNCHANGED <<job, rows>> /\ pc[q] \in Active
    BY <1>2, NodeStep DEF taskVars, logVars, Active, Running
  <2> QED
    BY <1>0, <2>1 DEF OpenRows
<1>3. CASE Crash
  BY <1>0, <1>3 DEF Crash
<1>4. CASE UNCHANGED vars
  BY <1>0, <1>4 DEF vars, taskVars, logVars, OpenRows
<1> QED
  BY <1>1, <1>2, <1>3, <1>4 DEF Next, Quiescent

LEMMA FrozenStep ==
    ASSUME Shape, JobsDistinct, OpenRows, [Next]_vars, crashes = 0,
           NEW j \in JobId, rows[j].status \in Terminal
    PROVE  rows'[j] = rows[j]
<1> USE DEF Shape
<1>1. CASE \E r \in Request : Task(r)
  <2> PICK r \in Request : Task(r)
    BY <1>1
  <2>1. j # job'[r]
    <3>1. CASE Submit(r)
      <4>1. job'[r] \in JobId \ issued
        BY <3>1, SubmitStep
      <4>2. rows[job'[r]].status = "NONE"
        BY <4>1 DEF JobsDistinct, NoRow
      <4> QED
        BY <4>2 DEF Terminal
    <3>2. CASE ~Submit(r)
      <4>1. pc[r] \in Active /\ job' = job
        BY <3>2, AcceptedStep
      <4> QED
        BY <4>1 DEF OpenRows
    <3> QED
      BY <3>1, <3>2
  <2> QED
    BY <2>1, OtherRowsKept
<1>2. CASE \E c \in Conn : Node(c)
  BY <1>2, NodeStep DEF logVars
<1>3. CASE Crash
  BY <1>3 DEF Crash, Write, Recover, Terminal, TypeOK, LogTypeOK
<1>4. CASE UNCHANGED vars
  BY <1>4 DEF vars, logVars
<1> QED
  BY <1>1, <1>2, <1>3, <1>4 DEF Next, Quiescent

\* Until the coordinator restarts, and in the restart itself, a row that is DONE
\* or FAILED stays as it is, however many requests run and however many writes
\* are lost: no late token, status or failover reaches it.
THEOREM TerminalRowsStay ==
    Spec => [][crashes = 0 =>
                \A j \in JobId : rows[j].status \in Terminal => rows'[j] = rows[j]]_vars
<1>1. Init => Shape /\ JobsDistinct /\ OpenRows
  <2>1. Init => OpenRows
    BY DEF Init, OpenRows, Active, Running, Waiting
  <2> QED
    BY <2>1, ShapeInit, JobsInit
<1>2. (Shape /\ JobsDistinct /\ OpenRows) /\ [Next]_vars => (Shape /\ JobsDistinct /\ OpenRows)'
  BY ShapeNext, JobsNext, OpenRowsNext
<1>3. (Shape /\ JobsDistinct /\ OpenRows) /\ [Next]_vars =>
        [crashes = 0 =>
            \A j \in JobId : rows[j].status \in Terminal => rows'[j] = rows[j]]_vars
  BY FrozenStep
<1> QED
  BY <1>1, <1>2, <1>3, PTL DEF Spec

\* The same of a coordinator that never restarts, as the run checks it.
THEOREM RowsFreeze ==
    ASSUME MaxCrashes = 0
    PROVE  Spec => TerminalRowsFrozen
<1>1. TypeOK /\ [crashes = 0 =>
                    \A j \in JobId : rows[j].status \in Terminal => rows'[j] = rows[j]]_vars
      => [\A j \in JobId : rows[j].status \in Terminal => rows'[j] = rows[j]]_vars
  BY DEF TypeOK
<1> QED
  BY <1>1, TypeCorrect, TerminalRowsStay, PTL DEF TerminalRowsFrozen

-----------------------------------------------------------------------------
(* The answers *)

\* A start of the output of r: token i was computed from the prompt and the i
\* tokens before it.
OnTrack(r, s) ==
    /\ \A i \in 1 .. Len(s) :
        /\ s[i].request = r
        /\ s[i].index = i - 1
        /\ r \notin Sampled => s[i].seeded = 0
    /\ Len(s) <= MaxNew[r]
    /\ r \notin Sampled => Len(s) <= StopAt[r]

\* A request resumes from its row, so the row is on track as well.
AnswerOf(r) ==
    /\ pc[r] = "idle" => tokens[r] = <<>>
    /\ pc[r] \in Active \cup {"done"} => OnTrack(r, tokens[r])
    /\ pc[r] \in Active => OnTrack(r, rows[job[r]].tokens)
    /\ pc[r] \in {"call", "down", "choose"} => Len(tokens[r]) < MaxNew[r]
    /\ pc[r] \in {"end", "done"} /\ r \notin Sampled =>
        Len(tokens[r]) = MaxNew[r] \/ Len(tokens[r]) = StopAt[r]

\* A create_job that is lost after a restart leaves the row of an earlier job
\* behind the id: only without one of the two is a row the request's own.
Reliable == crashes = 0 \/ losses = 0

AnswerInv == Reliable => \A r \in Request : AnswerOf(r)

LEMMA ReliableBefore ==
    ASSUME TypeOK, [Next]_vars, Reliable'
    PROVE  Reliable
BY BoundsGrow DEF Reliable, TypeOK, LogTypeOK

LEMMA EmptyOnTrack ==
    ASSUME NEW r \in Request
    PROVE  OnTrack(r, <<>>)
BY InputAssumption DEF OnTrack

\* Recording the right token at its position keeps a row on track, whatever the
\* row missed before.
LEMMA OnTrackWithToken ==
    ASSUME NEW r \in Request, NEW s \in Seq(Token), OnTrack(r, s), NEW t \in Token,
           t.request = r, t.index \in Nat, r \notin Sampled => t.seeded = 0,
           t.index < MaxNew[r], r \notin Sampled => t.index < StopAt[r]
    PROVE  OnTrack(r, WithToken(s, t, t.index))
<1> DEFINE n == t.index
           w == WithToken(s, t, n)
<1>0. Len(s) \in Nat /\ MaxNew[r] \in Nat /\ StopAt[r] \in Nat
  BY InputAssumption
<1>1. CASE n < Len(s)
  <2>1. w = [s EXCEPT ![n + 1] = t] /\ n + 1 \in 1 .. Len(s)
    BY <1>0, <1>1 DEF WithToken
  <2>2. Len(w) = Len(s) /\ \A i \in 1 .. Len(s) : w[i] = IF i = n + 1 THEN t ELSE s[i]
    BY <2>1
  <2> HIDE DEF w
  <2> QED
    BY <1>0, <2>1, <2>2 DEF OnTrack, w
<1>2. CASE n = Len(s)
  <2>1. w = Append(s, t)
    BY <1>0, <1>2 DEF WithToken
  <2>2. /\ Len(w) = Len(s) + 1
        /\ \A i \in 1 .. Len(w) : w[i] = IF i = Len(s) + 1 THEN t ELSE s[i]
    BY <2>1
  <2> HIDE DEF w
  <2>3. Len(w) <= MaxNew[r] /\ (r \notin Sampled => Len(w) <= StopAt[r])
    BY <1>0, <1>2, <2>2
  <2>4. ASSUME NEW i \in 1 .. Len(w)
        PROVE  w[i].request = r /\ w[i].index = i - 1 /\ (r \notin Sampled => w[i].seeded = 0)
    <3>1. CASE i = Len(s) + 1
      BY <1>0, <1>2, <2>2, <3>1
    <3>2. CASE i # Len(s) + 1
      BY <1>0, <2>2, <3>2 DEF OnTrack
    <3> QED
      BY <3>1, <3>2
  <2> QED
    BY <2>3, <2>4 DEF OnTrack, w
<1>3. CASE n > Len(s)
  <2>1. ~(n < Len(s)) /\ n # Len(s)
    BY <1>0, <1>3
  <2>2. w = s
    BY <2>1 DEF WithToken
  <2> HIDE DEF w
  <2> QED
    BY <2>2 DEF w
<1> QED
  BY <1>0, <1>1, <1>2, <1>3

\* The head's activation went through at least one decoder block, and every
\* block held the whole context: the token is the next one of the output.
LEMMA NextToken ==
    ASSUME Shape, CacheInv, NEW r \in Request, pc[r] = "choose"
    PROVE  Produced(r) = [request |-> r, index |-> Len(tokens[r]),
                          seeded |-> IF r \in Sampled THEN attempt[r] ELSE 0]
<1> USE DEF Shape
<1>1. /\ BlockAt(0) \in DOMAIN chain[r]
      /\ at[r] = PastHead
      /\ \A n \in h[r] : n = StartPosition(r) + InputLen(r)
      /\ (\E x \in Decoders(r) : x < at[r]) => h[r] # {}
  BY DEF CacheInv, CachesOfTask, ChainWhole, PassInStep, Running
<1>2. 1 \in Decoders(r) /\ 1 < at[r]
  BY <1>1, LayersAssumption DEF Decoders
<1>3. Len(tokens[r]) \in Nat
  BY DEF TypeOK, TaskTypeOK
<1>4. StartPosition(r) + InputLen(r) = Len(tokens[r]) + 1
  BY <1>3 DEF StartPosition, InputLen
<1>5. h[r] = {Len(tokens[r]) + 1}
  BY <1>1, <1>2, <1>4
<1>6. \E n \in h[r] : h[r] = {n}
  BY <1>5
<1> DEFINE n0 == CHOOSE n \in h[r] : TRUE
<1>7. n0 = Len(tokens[r]) + 1
  BY <1>5
<1>8. Produced(r) = [request |-> r,
                     index   |-> IF \E n \in h[r] : h[r] = {n} THEN n0 - PromptLen ELSE -1,
                     seeded  |-> IF r \in Sampled THEN attempt[r] ELSE 0]
  BY DEF Produced
<1> HIDE DEF n0
<1> QED
  BY <1>3, <1>6, <1>7, <1>8

\* A status write keeps the tokens of the row.
LEMMA StatusKeepsTokens ==
    ASSUME TypeOK, NEW j \in JobId, NEW status \in Statuses, Write(SetStatus(rows, j, status))
    PROVE  rows'[j].tokens = rows[j].tokens
<1>1. rows[j] \in Row /\ DOMAIN rows = JobId
  BY DEF TypeOK, LogTypeOK
<1> QED
  BY <1>1 DEF Write, SetStatus, UpdateRow, Row

\* One lemma per kind of step, for the task that takes it.
LEMMA AnswerSubmit ==
    ASSUME Shape, JobsDistinct, NEW r \in Request, AnswerOf(r), Submit(r), Reliable'
    PROVE  AnswerOf(r)'
<1> USE DEF Shape
<1>1. /\ pc[r] = "idle" /\ pc'[r] = "cover"
      /\ job'[r] \in JobId \ issued
      /\ Write(CreateJob(rows, job'[r]))
      /\ UNCHANGED <<tokens, crashes>>
  BY SubmitStep
<1>2. tokens'[r] = <<>>
  BY <1>1 DEF AnswerOf
<1>3. rows'[job'[r]].tokens = <<>>
  <2>1. CASE rows' = CreateJob(rows, job'[r])
    BY <1>1, <2>1 DEF CreateJob, NewRow, TypeOK, LogTypeOK
  <2>2. CASE rows' = rows /\ losses' = losses + 1
    <3>1. crashes = 0
      BY <1>1, <2>2 DEF Reliable, TypeOK, LogTypeOK
    <3> QED
      BY <1>1, <2>2, <3>1 DEF JobsDistinct, NoRow
  <2> QED
    BY <1>1, <2>1, <2>2 DEF Write
<1> QED
  BY <1>1, <1>2, <1>3, EmptyOnTrack DEF AnswerOf, OnTrack

LEMMA AnswerPoll ==
    ASSUME Shape, NEW r \in Request, AnswerOf(r), Poll(r)
    PROVE  AnswerOf(r)'
<1> USE DEF Shape
<1>1. UNCHANGED <<tokens, job>> /\ pc[r] \in Waiting
  BY DEF Poll, Route, RouteInvalid, Park, GiveUp, taskVars, Waiting
<1>2. job[r] \in JobId
  BY <1>1 DEF TasksWellFormed, Waiting
<1>3. rows'[job[r]].tokens = rows[job[r]].tokens
  <2>1. \/ UNCHANGED rows
        \/ \E status \in Statuses : Write(SetStatus(rows, job[r], status))
    BY DEF Poll, Route, RouteInvalid, Park, GiveUp, Fail, Statuses, logVars
  <2> QED
    BY <1>2, <2>1, StatusKeepsTokens
<1>4. OnTrack(r, tokens'[r]) /\ OnTrack(r, rows'[job'[r]].tokens)
  BY <1>1, <1>3 DEF AnswerOf, Active
<1>5. \/ pc'[r] = "call" /\ Len(tokens[r]) < MaxNew[r]
      \/ pc'[r] = "end" /\ ~(Len(tokens[r]) < MaxNew[r])
      \/ pc'[r] \in {"broken", "parked", "refused"}
  BY DEF Poll, Route, RouteInvalid, Park, GiveUp, TypeOK
<1>6. Len(tokens[r]) \in Nat /\ MaxNew[r] \in Nat
  BY InputAssumption DEF TypeOK, TaskTypeOK
<1>7. pc'[r] = "end" => Len(tokens'[r]) = MaxNew[r]
  BY <1>1, <1>4, <1>5, <1>6 DEF OnTrack
<1> QED
  BY <1>1, <1>4, <1>5, <1>7 DEF AnswerOf, OnTrack

LEMMA AnswerEmit ==
    ASSUME Shape, CacheInv, NEW r \in Request, AnswerOf(r), Emit(r)
    PROVE  AnswerOf(r)'
<1> USE DEF Shape
<1> DEFINE t == Produced(r)
           n == Len(tokens[r])
<1>1. /\ pc[r] = "choose"
      /\ r \in Sampled \/ t.index # StopAt[r]
      /\ job' = job /\ job[r] \in JobId
      /\ Write(AppendToken(rows, job[r], t, n))
      /\ tokens'[r] = Append(tokens[r], t)
      /\ \/ n + 1 < MaxNew[r] /\ pc'[r] \in {"call", "down"}
         \/ ~(n + 1 < MaxNew[r]) /\ pc'[r] = "end"
  BY DEF Emit, TasksWellFormed, TypeOK, TaskTypeOK, Awaiting
<1>2. /\ t \in Token /\ t.request = r /\ t.index = n
      /\ r \notin Sampled => t.seeded = 0
  <2>1. t \in Token
    BY ProducedShape
  <2>2. t = [request |-> r, index |-> n, seeded |-> IF r \in Sampled THEN attempt[r] ELSE 0]
    BY <1>1, NextToken
  <2> HIDE DEF t, n
  <2> QED
    BY <2>1, <2>2
<1>3. /\ OnTrack(r, tokens[r]) /\ OnTrack(r, rows[job[r]].tokens)
      /\ n < MaxNew[r]
      /\ tokens[r] \in Seq(Token) /\ n \in Nat
      /\ rows[job[r]] \in Row /\ DOMAIN rows = JobId
  BY <1>1 DEF AnswerOf, Active, Running, TypeOK, TaskTypeOK, LogTypeOK
<1>4. /\ MaxNew[r] \in Nat /\ StopAt[r] \in Nat
      /\ r \notin Sampled => n < StopAt[r]
  BY <1>1, <1>2, <1>3, InputAssumption DEF OnTrack
<1>5. OnTrack(r, WithToken(tokens[r], t, n))
  <2> HIDE DEF t, n
  <2> QED
    BY <1>2, <1>3, <1>4, OnTrackWithToken
<1>6. WithToken(tokens[r], t, n) = Append(tokens[r], t)
  BY <1>3 DEF WithToken
<1>7. OnTrack(r, rows'[job[r]].tokens)
  <2>1. rows[job[r]].tokens \in Seq(Token)
    BY <1>3 DEF Row
  <2>2. OnTrack(r, WithToken(rows[job[r]].tokens, t, n))
    <3> HIDE DEF t, n
    <3> QED
      BY <1>2, <1>3, <1>4, <2>1, OnTrackWithToken
  <2> HIDE DEF t, n
  <2> DEFINE w == WithToken(rows[job[r]].tokens, t, n)
  <2>3. [rows[job[r]] EXCEPT !.tokens = w].tokens = w
    BY <1>3 DEF Row
  <2>4. rows'[job[r]].tokens \in {rows[job[r]].tokens, w}
    BY <1>1, <1>3, <2>3 DEF Write, AppendToken, UpdateRow
  <2> QED
    BY <1>3, <2>2, <2>4
<1>8. Len(tokens'[r]) = n + 1
  BY <1>1, <1>2, <1>3
<1> HIDE DEF t, n
<1> QED
  BY <1>1, <1>3, <1>4, <1>5, <1>6, <1>7, <1>8 DEF AnswerOf

LEMMA AnswerOtherwise ==
    ASSUME Shape, CacheInv, NEW r \in Request, AnswerOf(r),
           Reply(r) \/ SendFails(r) \/ Stop(r) \/ End(r) \/ Answer(r) \/ FailOver(r)
    PROVE  AnswerOf(r)'
<1> USE DEF Shape
<1>1. CASE FailOver(r)
  <2>1. /\ pc[r] = "down" /\ job' = job
        /\ \/ pc'[r] = "refused"
           \/ /\ pc'[r] = "cover"
              /\ rows' = rows
              /\ tokens'[r] \in {rows[job[r]].tokens, <<>>}
    BY <1>1 DEF FailOver, Resumed, TypeOK, TaskTypeOK
  <2>2. OnTrack(r, rows[job[r]].tokens)
    BY <2>1 DEF AnswerOf, Active, Running
  <2> QED
    BY <2>1, <2>2, EmptyOnTrack DEF AnswerOf, Active, Running, Waiting
<1>2. CASE Answer(r)
  <2>1. pc[r] = "end" /\ pc'[r] = "done" /\ UNCHANGED tokens
    BY <1>2 DEF Answer, taskVars, TypeOK
  <2> QED
    BY <2>1 DEF AnswerOf, Active, Running, Waiting
<1>3. CASE Stop(r)
  <2>1. /\ pc[r] = "choose" /\ pc'[r] = "end" /\ UNCHANGED <<tokens, job, rows>>
        /\ r \in Sampled \/ Produced(r).index = StopAt[r]
    BY <1>3 DEF Stop, logVars, TypeOK
  <2>2. Produced(r).index = Len(tokens[r])
    BY <2>1, NextToken
  <2> QED
    BY <2>1, <2>2 DEF AnswerOf, Active, Running
<1>4. CASE Reply(r) \/ SendFails(r)
  <2>1. pc[r] = "call" /\ pc'[r] \in {"call", "down", "choose"} /\ UNCHANGED <<tokens, job, rows>>
    BY <1>4 DEF Reply, SendFails, taskVars, logVars, Awaiting, TypeOK
  <2> QED
    BY <2>1 DEF AnswerOf, Active, Running
<1>5. CASE End(r)
  <2>1. UNCHANGED <<pc, tokens, job, rows>>
    BY <1>5 DEF End, EndServed, EndSkipped, logVars
  <2> QED
    BY <2>1 DEF AnswerOf
<1> QED
  BY <1>1, <1>2, <1>3, <1>4, <1>5

LEMMA AnswerNext ==
    ASSUME Shape, CacheInv, JobsDistinct, AnswerInv, [Next]_vars
    PROVE  AnswerInv'
<1> USE DEF Shape
<1> SUFFICES ASSUME Reliable', NEW q \in Request PROVE AnswerOf(q)'
  BY DEF AnswerInv
<1>0. AnswerOf(q)
  BY ReliableBefore DEF AnswerInv
<1>1. CASE \E r \in Request : Task(r)
  <2> PICK r \in Request : Task(r)
    BY <1>1
  <2>1. CASE q = r
    BY <1>0, <2>1, AnswerSubmit, AnswerPoll, AnswerEmit, AnswerOtherwise DEF Task
  <2>2. CASE q # r
    <3>1. UNCHANGED TaskOf(q)
      BY <2>2, OthersKept
    <3>2. pc[q] \in Active => rows'[job[q]] = rows[job[q]]
      BY <2>2, OtherRowKept DEF Accepted
    <3> QED
      BY <1>0, <3>1, <3>2 DEF AnswerOf, TaskOf
  <2> QED
    BY <2>1, <2>2
<1>2. CASE \E c \in Conn : Node(c)
  <2>1. UNCHANGED <<job, rows, tokens>> /\ (pc'[q] = pc[q] \/ (pc[q] = "call" /\ pc'[q] = "down"))
    BY <1>2, NodeStep DEF taskVars, logVars
  <2> QED
    BY <1>0, <2>1 DEF AnswerOf, Active, Running
<1>3. CASE Crash
  <2>1. UNCHANGED tokens /\ pc'[q] \notin Active /\ (pc'[q] = pc[q] \/ pc'[q] = "cut")
    BY <1>3 DEF Crash, taskVars, TypeOK, Active, Running, Waiting
  <2> QED
    BY <1>0, <2>1 DEF AnswerOf, Active, Running, Waiting
<1>4. CASE UNCHANGED vars
  BY <1>0, <1>4 DEF vars, taskVars, logVars, AnswerOf
<1> QED
  BY <1>1, <1>2, <1>3, <1>4 DEF Next, Quiescent

LEMMA AnswerInit == Init => AnswerInv
BY DEF Init, AnswerInv, AnswerOf, Active, Running, Waiting

\* Everything that the answers rest on.
GenerationInv == Shape /\ CacheInv /\ JobsDistinct /\ AnswerInv

LEMMA GenerationInit == Init => GenerationInv
BY ShapeInit, CacheInit, JobsInit, AnswerInit DEF GenerationInv

LEMMA GenerationNext == GenerationInv /\ [Next]_vars => GenerationInv'
BY ShapeNext, CacheNext, JobsNext, AnswerNext DEF GenerationInv

\* An answer whose tokens are on track and that is complete is the reference.
LEMMA CompleteIsReference ==
    ASSUME GenerationInv, Reliable
    PROVE  GreedyAnswerIsReference
<1> SUFFICES ASSUME NEW r \in Request \ Sampled, pc[r] = "done"
             PROVE  tokens[r] = Reference(r)
  BY DEF GreedyAnswerIsReference
<1> DEFINE n == IF StopAt[r] < MaxNew[r] THEN StopAt[r] ELSE MaxNew[r]
<1>1. tokens[r] \in Seq(Token)
  BY DEF GenerationInv, Shape, TypeOK, TaskTypeOK
<1>2. /\ OnTrack(r, tokens[r])
      /\ Len(tokens[r]) = MaxNew[r] \/ Len(tokens[r]) = StopAt[r]
  BY DEF GenerationInv, AnswerInv, AnswerOf
<1>3. Len(tokens[r]) = n
  BY <1>1, <1>2, InputAssumption DEF OnTrack
<1>4. \A i \in 1 .. n : tokens[r][i] = [request |-> r, index |-> i - 1, seeded |-> 0]
  <2> SUFFICES ASSUME NEW i \in 1 .. n
               PROVE  tokens[r][i] = [request |-> r, index |-> i - 1, seeded |-> 0]
    OBVIOUS
  <2>1. tokens[r][i] \in Token
    BY <1>1, <1>3
  <2>2. /\ tokens[r][i].request = r /\ tokens[r][i].index = i - 1
        /\ tokens[r][i].seeded = 0
    BY <1>2, <1>3 DEF OnTrack
  <2> QED
    BY <2>1, <2>2 DEF Token
<1>5. tokens[r] = [i \in 1 .. n |-> tokens[r][i]]
  BY <1>1, <1>3
<1> HIDE DEF n
<1>6. tokens[r] = [i \in 1 .. n |-> [request |-> r, index |-> i - 1, seeded |-> 0]]
  BY <1>4, <1>5
<1> QED
  BY <1>6 DEF n, Reference

\* A greedy answer is the output of an uninterrupted run, for every swarm, every
\* number of requests, failovers and lost reads and writes of the job log, and
\* across restarts as long as no write is lost as well.
THEOREM AnswerIsReference ==
    Spec => [](crashes = 0 \/ losses = 0 => GreedyAnswerIsReference)
<1>1. GenerationInv => (crashes = 0 \/ losses = 0 => GreedyAnswerIsReference)
  BY CompleteIsReference DEF Reliable
<1> QED
  BY <1>1, GenerationInit, GenerationNext, PTL DEF Spec

-----------------------------------------------------------------------------
(* The job log against the tasks *)

\* The row of a request in progress, while no write is lost.
RowOf(r) ==
    LET row == rows[job[r]]
    IN  /\ pc[r] \in Running \cup {"cover"} => row.status = "RUNNING"
        /\ pc[r] = "parked" => row.status = "WAITING_COVERAGE"
        /\ pc[r] \in Active => row.tokens = tokens[r]
        /\ pc[r] \in Waiting => Len(tokens[r]) < MaxNew[r] \/ MaxNew[r] = 0

RowsInv == losses = 0 => \A r \in Request : RowOf(r)

\* What the writes make of a row that is there.
LEMMA WrittenRow ==
    ASSUME TypeOK, NEW j \in JobId, rows[j].status # "NONE", NEW status \in Statuses,
           NEW t \in Token, NEW p \in Nat, NEW returned \in Seq(Token)
    PROVE  /\ SetStatus(rows, j, status)[j].status = status
           /\ SetStatus(rows, j, status)[j].tokens = rows[j].tokens
           /\ AppendToken(rows, j, t, p)[j].status = rows[j].status
           /\ AppendToken(rows, j, t, p)[j].tokens = WithToken(rows[j].tokens, t, p)
           /\ Finish(rows, j, returned)[j].status = "DONE"
           /\ Finish(rows, j, returned)[j].tokens = rows[j].tokens
           /\ Finish(rows, j, returned)[j].result = returned
<1>1. rows[j] \in Row /\ DOMAIN rows = JobId
  BY DEF TypeOK, LogTypeOK
<1>2. /\ SetStatus(rows, j, status)[j].status = status
      /\ SetStatus(rows, j, status)[j].tokens = rows[j].tokens
  BY <1>1 DEF SetStatus, UpdateRow, Row
<1>3. /\ AppendToken(rows, j, t, p)[j].status = rows[j].status
      /\ AppendToken(rows, j, t, p)[j].tokens = WithToken(rows[j].tokens, t, p)
  <2> DEFINE w == WithToken(rows[j].tokens, t, p)
  <2>1. AppendToken(rows, j, t, p)[j] = [rows[j] EXCEPT !.tokens = w]
    BY <1>1 DEF AppendToken, UpdateRow, Row
  <2> HIDE DEF w
  <2> QED
    BY <1>1, <2>1 DEF Row, w
<1>4. /\ Finish(rows, j, returned)[j].status = "DONE"
      /\ Finish(rows, j, returned)[j].tokens = rows[j].tokens
      /\ Finish(rows, j, returned)[j].result = returned
  BY <1>1 DEF Finish, UpdateRow, Row
<1> QED
  BY <1>2, <1>3, <1>4

LEMMA RowStep ==
    ASSUME GenerationInv, NEW r \in Request, RowOf(r), Task(r), losses = 0, losses' = 0
    PROVE  RowOf(r)'
<1>0. TypeOK /\ TasksWellFormed /\ AnswerOf(r)
  BY DEF GenerationInv, AnswerInv, Reliable, Shape
<1>1. CASE Submit(r)
  <2>1. /\ pc'[r] = "cover" /\ tokens'[r] = <<>> /\ job'[r] \in JobId
        /\ rows' = CreateJob(rows, job'[r])
    BY <1>0, <1>1, SubmitStep, KeptWrite DEF AnswerOf
  <2>2. rows'[job'[r]] = NewRow
    BY <1>0, <2>1 DEF CreateJob, TypeOK, LogTypeOK
  <2>3. 0 < MaxNew[r] \/ MaxNew[r] = 0
    BY InputAssumption
  <2> QED
    BY <2>1, <2>2, <2>3 DEF RowOf, NewRow, Active, Running, Waiting
<1>2. CASE ~Submit(r)
  <2>1. pc[r] \in Active /\ job' = job
    BY <1>0, <1>2, AcceptedStep
  <2>2. /\ job[r] \in JobId /\ rows[job[r]].status # "NONE"
        /\ rows[job[r]].tokens = tokens[r]
        /\ tokens[r] \in Seq(Token) /\ Len(tokens[r]) \in Nat
    BY <1>0, <2>1 DEF TasksWellFormed, RowOf, Active, Running, Waiting, TypeOK, TaskTypeOK
  <2>3. CASE Route(r) \/ RouteInvalid(r) \/ Park(r)
    <3>1. /\ tokens' = tokens
          /\ \/ /\ pc[r] = "cover" /\ rows' = rows
                /\ pc'[r] \in {"call", "end", "broken"}
             \/ /\ pc[r] = "parked" /\ Write(SetStatus(rows, job[r], "RUNNING"))
                /\ pc'[r] \in {"call", "end", "broken"}
             \/ /\ pc'[r] = "parked" /\ Write(SetStatus(rows, job[r], "WAITING_COVERAGE"))
                /\ pc[r] = "cover"
      BY <1>0, <2>3 DEF Route, RouteInvalid, Park, taskVars, logVars, Waiting, TypeOK
    <3>2. /\ SetStatus(rows, job[r], "RUNNING")[job[r]].status = "RUNNING"
          /\ SetStatus(rows, job[r], "RUNNING")[job[r]].tokens = tokens[r]
          /\ SetStatus(rows, job[r], "WAITING_COVERAGE")[job[r]].status = "WAITING_COVERAGE"
          /\ SetStatus(rows, job[r], "WAITING_COVERAGE")[job[r]].tokens = tokens[r]
      <4>1. "RUNNING" \in Statuses /\ "WAITING_COVERAGE" \in Statuses
        BY DEF Statuses
      <4>2. Produced(r) \in Token /\ 0 \in Nat
        BY <1>0, ProducedShape
      <4> QED
        BY <1>0, <2>2, <4>1, <4>2, WrittenRow
    <3> QED
      BY <1>0, <2>1, <2>2, <3>1, <3>2, KeptWrite DEF RowOf, Active, Running, Waiting
  <2>4. CASE Emit(r)
    <3>1. /\ tokens'[r] = Append(tokens[r], Produced(r))
          /\ rows' = AppendToken(rows, job[r], Produced(r), Len(tokens[r]))
          /\ pc[r] = "choose"
          /\ pc'[r] \in {"call", "down", "end"}
      BY <1>0, <2>4, KeptWrite DEF Emit, Awaiting, TypeOK, TaskTypeOK
    <3>2. /\ rows'[job[r]].status = rows[job[r]].status
          /\ rows'[job[r]].tokens = WithToken(tokens[r], Produced(r), Len(tokens[r]))
      <4>1. Produced(r) \in Token /\ "DONE" \in Statuses
        BY <1>0, ProducedShape DEF Statuses
      <4> QED
        BY <1>0, <2>2, <3>1, <4>1, WrittenRow
    <3>3. WithToken(tokens[r], Produced(r), Len(tokens[r])) = Append(tokens[r], Produced(r))
      BY <2>2 DEF WithToken
    <3> QED
      BY <2>1, <2>2, <3>1, <3>2, <3>3 DEF RowOf, Active, Running, Waiting
  <2>5. CASE FailOver(r)
    <3>1. \/ pc'[r] = "refused"
          \/ /\ pc[r] = "down" /\ pc'[r] = "cover" /\ rows' = rows
             /\ tokens'[r] = rows[job[r]].tokens
      BY <1>0, <2>5 DEF FailOver, Resumed, TypeOK, TaskTypeOK, LogTypeOK
    <3>2. pc[r] = "down" => Len(tokens[r]) < MaxNew[r]
      BY <1>0 DEF AnswerOf
    <3> QED
      BY <2>1, <2>2, <3>1, <3>2 DEF RowOf, Active, Running, Waiting
  <2>6. CASE GiveUp(r) \/ Answer(r)
    BY <1>0, <2>6 DEF GiveUp, Answer, TypeOK, RowOf, Active, Running, Waiting
  <2>7. CASE Reply(r) \/ SendFails(r) \/ Stop(r) \/ End(r)
    <3>1. /\ UNCHANGED <<rows, tokens>>
          /\ pc[r] \in Running /\ pc'[r] \in Running
      BY <1>0, <2>7 DEF Reply, SendFails, Stop, End, EndServed, EndSkipped, logVars, taskVars,
                        Awaiting, Running, TypeOK
    <3> QED
      BY <2>1, <3>1 DEF RowOf, Active, Running, Waiting
  <2> QED
    BY <1>2, <2>3, <2>4, <2>5, <2>6, <2>7 DEF Task, Poll
<1> QED
  BY <1>1, <1>2

LEMMA RowsNext ==
    ASSUME GenerationInv, RowsInv, [Next]_vars
    PROVE  RowsInv'
<1> SUFFICES ASSUME losses' = 0, NEW q \in Request PROVE RowOf(q)'
  BY DEF RowsInv
<1>0. TypeOK /\ losses = 0 /\ RowOf(q)
  <2>1. TypeOK
    BY DEF GenerationInv, Shape
  <2> QED
    BY <2>1, BoundsGrow DEF RowsInv, TypeOK, LogTypeOK
<1>1. CASE \E r \in Request : Task(r)
  <2> PICK r \in Request : Task(r)
    BY <1>1
  <2>1. CASE q = r
    BY <1>0, <2>1, RowStep
  <2>2. CASE q # r
    <3>1. UNCHANGED <<pc[q], job[q], tokens[q]>>
      BY <1>0, <2>2, OthersKept DEF TaskOf
    <3>2. pc[q] \in Active => rows'[job[q]] = rows[job[q]]
      BY <2>2, OtherRowKept DEF Accepted, GenerationInv
    <3> QED
      BY <1>0, <3>1, <3>2 DEF RowOf, Active, Running, Waiting
  <2> QED
    BY <2>1, <2>2
<1>2. CASE \E c \in Conn : Node(c)
  <2>1. UNCHANGED <<job, rows, tokens>> /\ (pc'[q] = pc[q] \/ (pc[q] = "call" /\ pc'[q] = "down"))
    BY <1>0, <1>2, NodeStep DEF taskVars, logVars
  <2> QED
    BY <1>0, <2>1 DEF RowOf, Active, Running, Waiting
<1>3. CASE Crash
  <2>1. pc'[q] \notin Active
    BY <1>0, <1>3 DEF Crash, TypeOK, Active, Running, Waiting
  <2> QED
    BY <2>1 DEF RowOf, Active, Running, Waiting
<1>4. CASE UNCHANGED vars
  BY <1>0, <1>4 DEF vars, taskVars, logVars, RowOf
<1> QED
  BY <1>1, <1>2, <1>3, <1>4 DEF Next, Quiescent

\* The receipts of the running attempt are of the nodes of its chain, and of all
\* of them once a pass is over; the job has none yet.
ReceiptsOf(r) ==
    /\ pc[r] \in Active => \A c \in Conn : receipts[job[r]][c] = 0
    /\ pc[r] \in Running => \A c \in Conn : acked[r][c] > 0 => c \in ChainConns(r)
    /\ pc[r] \in {"call", "choose"} =>
        \A x \in DOMAIN chain[r] : x < at[r] \/ ~prefill[r] => acked[r][chain[r][x]] > 0
    /\ pc[r] = "end" /\ MaxNew[r] > 0 => \A c \in ChainConns(r) : acked[r][c] > 0

\* What the log says of a request that is over.
OutcomeOf(r) ==
    /\ pc[r] = "done" =>
        /\ rows[job[r]].status = "DONE"
        /\ rows[job[r]].tokens = tokens[r]
        /\ rows[job[r]].result = tokens[r]
        /\ MaxNew[r] > 0 =>
            /\ {c \in Conn : receipts[job[r]][c] > 0} = ChainConns(r)
            /\ \A c \in excluded[r] : receipts[job[r]][c] = 0
    /\ pc[r] = "refused" => rows[job[r]].status = "FAILED"

LogOf(r) == ReceiptsOf(r) /\ OutcomeOf(r)

\* A restart gives the ids of an earlier life away again, and with them their
\* rows and receipts.
LogInv == crashes = 0 /\ losses = 0 => \A r \in Request : LogOf(r)

\* The receipts of a job do not change before its outcome is written.
LEMMA ReceiptsKept ==
    ASSUME TypeOK, TasksWellFormed, NEW r \in Request, Task(r), ~Answer(r)
    PROVE  receipts' = receipts
<1>1. CASE Submit(r)
  BY <1>1, SubmitStep
<1>2. CASE Poll(r) \/ Emit(r) \/ FailOver(r)
  BY <1>2 DEF Poll, Route, RouteInvalid, Park, GiveUp, Emit, FailOver, Write, logVars
<1>3. CASE Reply(r) \/ SendFails(r) \/ Stop(r) \/ End(r)
  BY <1>3 DEF Reply, SendFails, Stop, End, EndServed, EndSkipped, logVars
<1> QED
  BY <1>1, <1>2, <1>3 DEF Task

LEMMA ReceiptsReply ==
    ASSUME Shape, CacheInv, NEW r \in Request, ReceiptsOf(r), Reply(r)
    PROVE  ReceiptsOf(r)'
<1> USE DEF Shape
<1>0. PICK next \in DOMAIN chain[r] \cup {PastHead} : CallAnswered(r, next)
  BY ReplyStep
<1>1. /\ at[r] \in DOMAIN chain[r] /\ at[r] < next /\ at'[r] = next
      /\ pc'[r] = IF next = PastHead THEN "choose" ELSE Awaiting(chain[r][next])
      /\ acked'[r] = [acked[r] EXCEPT ![chain[r][at[r]]] = @ + 1]
      /\ \A x \in DOMAIN chain[r] : at[r] <= x /\ x < next => chain[r][x] = chain[r][at[r]]
  BY <1>0 DEF CallAnswered
<1>2. UNCHANGED <<chain, prefill, job, receipts>> /\ pc[r] = "call"
  BY DEF Reply, logVars
<1>3. /\ acked[r] \in [Conn -> Nat]
      /\ \A x \in DOMAIN chain[r] : chain[r][x] \in ChainConns(r) /\ chain[r][x] \in Conn
                                    /\ x \in Nat
      /\ at[r] \in Nat
  BY DEF TypeOK, TaskTypeOK, ChainConns
<1>4. \A c \in Conn : acked'[r][c] = IF c = chain[r][at[r]] THEN acked[r][c] + 1 ELSE acked[r][c]
  BY <1>1, <1>3
<1>5. \A c \in Conn : acked'[r][c] > 0 => c \in ChainConns(r)
  BY <1>1, <1>2, <1>3, <1>4 DEF ReceiptsOf, Running
<1>6. ASSUME NEW x \in DOMAIN chain[r], x < next \/ ~prefill[r]
      PROVE  acked'[r][chain[r][x]] > 0
  <2>1. CASE x < at[r] \/ ~prefill[r]
    <3>1. acked[r][chain[r][x]] > 0
      BY <1>2, <2>1 DEF ReceiptsOf
    <3> QED
      BY <1>3, <1>4, <3>1
  <2>2. CASE at[r] <= x /\ x < next
    <3>1. chain[r][x] = chain[r][at[r]]
      BY <1>1, <2>2
    <3> QED
      BY <1>3, <1>4, <3>1
  <2> QED
    BY <1>3, <1>6, <2>1, <2>2
<1>7. ChainConns(r)' = ChainConns(r)
  BY <1>2 DEF ChainConns
<1>8. pc'[r] \in {"call", "down", "choose"}
  BY <1>1 DEF Awaiting
<1> QED
  BY <1>1, <1>2, <1>5, <1>6, <1>7, <1>8 DEF ReceiptsOf, Active, Running

LEMMA ReceiptsStep ==
    ASSUME GenerationInv, NEW r \in Request, RowOf(r), RowOf(r)', ReceiptsOf(r), Task(r),
           crashes = 0, losses = 0
    PROVE  ReceiptsOf(r)'
<1>0. Shape /\ TypeOK /\ TasksWellFormed /\ CacheInv /\ JobsDistinct /\ AnswerOf(r)
  BY DEF GenerationInv, AnswerInv, Reliable, Shape
<1>1. CASE Submit(r)
  <2>1. /\ pc'[r] = "cover" /\ job'[r] \in JobId \ issued /\ receipts' = receipts
    BY <1>0, <1>1, SubmitStep
  <2>2. receipts[job'[r]] = [c \in Conn |-> 0]
    BY <1>0, <2>1 DEF JobsDistinct
  <2> QED
    BY <2>1, <2>2 DEF ReceiptsOf, Running
<1>2. CASE Reply(r)
  BY <1>0, <1>2, ReceiptsReply
<1>3. CASE ~Submit(r) /\ ~Reply(r) /\ ~Answer(r)
  <2>1. pc[r] \in Active /\ job' = job /\ receipts' = receipts
    BY <1>0, <1>3, AcceptedStep, ReceiptsKept
  <2>2. CASE Route(r)
    <3>1. PICK route \in Chains(r) :
            \/ Len(tokens[r]) < MaxNew[r] /\ pc' = [pc EXCEPT ![r] = "call"]
            \/ ~(Len(tokens[r]) < MaxNew[r]) /\ pc' = [pc EXCEPT ![r] = "end"]
      BY <2>2 DEF Route
    <3>2. /\ acked' = [acked EXCEPT ![r] = [c \in Conn |-> 0]]
          /\ at' = [at EXCEPT ![r] = 0]
          /\ prefill' = [prefill EXCEPT ![r] = TRUE]
          /\ pc[r] \in Waiting
      BY <2>2 DEF Route, NoReceipts
    <3>3. /\ acked'[r] = [c \in Conn |-> 0]
          /\ at'[r] = 0 /\ prefill'[r] = TRUE
      BY <1>0, <3>2 DEF TypeOK, TaskTypeOK
    <3>4. \/ Len(tokens[r]) < MaxNew[r] /\ pc'[r] = "call"
          \/ ~(Len(tokens[r]) < MaxNew[r]) /\ pc'[r] = "end"
      BY <1>0, <3>1 DEF TypeOK
    <3>5. Len(tokens[r]) < MaxNew[r] \/ MaxNew[r] = 0
      BY <3>2 DEF RowOf
    <3>6. \A c \in Conn : ~(acked'[r][c] > 0)
      BY <3>3
    <3>7. \A x \in DOMAIN chain'[r] : ~(x < at'[r])
      <4>1. TypeOK'
        BY <1>0, <2>2, TypePoll DEF Poll
      <4> QED
        BY <3>3, <4>1, LayersAssumption DEF TypeOK, TaskTypeOK
    <3>8. /\ pc'[r] \in {"call", "end"}
          /\ pc'[r] = "end" => ~(MaxNew[r] > 0)
      BY <3>4, <3>5
    <3> QED
      BY <2>1, <3>3, <3>6, <3>7, <3>8 DEF ReceiptsOf
  <2>3. CASE Emit(r) \/ Stop(r)
    <3>1. /\ pc[r] = "choose" /\ UNCHANGED <<chain, acked>>
          /\ \/ pc'[r] \in {"call", "down"} /\ prefill'[r] = FALSE /\ at'[r] = 0
             \/ pc'[r] = "end"
      BY <1>0, <2>3 DEF Emit, Stop, Awaiting, TypeOK, TaskTypeOK
    <3>2. at[r] = PastHead
      BY <1>0, <3>1 DEF CacheInv, CachesOfTask, PassInStep
    <3>3. \A x \in DOMAIN chain[r] : x < at[r]
      BY <1>0, <3>2, LayersAssumption DEF TypeOK, TaskTypeOK
    <3>4. \A x \in DOMAIN chain[r] : acked[r][chain[r][x]] > 0
      BY <3>1, <3>3 DEF ReceiptsOf
    <3>5. \A c \in ChainConns(r) : acked[r][c] > 0
      BY <3>4 DEF ChainConns
    <3>6. ChainConns(r)' = ChainConns(r)
      BY <3>1 DEF ChainConns
    <3> QED
      BY <2>1, <3>1, <3>4, <3>5, <3>6 DEF ReceiptsOf, Active, Running
  <2>4. CASE RouteInvalid(r) \/ Park(r) \/ GiveUp(r) \/ FailOver(r)
    <3>1. pc'[r] \notin Running
      BY <1>0, <2>4 DEF RouteInvalid, Park, GiveUp, FailOver, TypeOK, Running
    <3> QED
      BY <2>1, <3>1 DEF ReceiptsOf, Running
  <2>5. CASE SendFails(r) \/ End(r)
    <3>1. /\ UNCHANGED <<chain, acked, at, prefill>> /\ pc[r] \in Running
          /\ pc'[r] = pc[r] \/ pc'[r] = "down"
      BY <1>0, <2>5 DEF SendFails, End, EndServed, EndSkipped, taskVars, Running, TypeOK
    <3>2. ChainConns(r)' = ChainConns(r)
      BY <3>1 DEF ChainConns
    <3> QED
      BY <2>1, <3>1, <3>2 DEF ReceiptsOf, Running
  <2> QED
    BY <1>3, <2>2, <2>3, <2>4, <2>5 DEF Task, Poll
<1>4. CASE Answer(r)
  <2>1. pc'[r] = "done"
    BY <1>0, <1>4 DEF Answer, TypeOK
  <2> QED
    BY <2>1 DEF ReceiptsOf, Active, Running, Waiting
<1> QED
  BY <1>1, <1>2, <1>3, <1>4

\* A failed write of an outcome is counted, so the outcome is there.
LEMMA OutcomeStep ==
    ASSUME GenerationInv, FailedNodesStayOut, NEW r \in Request, RowOf(r), LogOf(r), Task(r),
           losses' = 0
    PROVE  OutcomeOf(r)'
<1>0. Shape /\ TypeOK /\ TasksWellFormed /\ Produced(r) \in Token
  BY ProducedShape DEF GenerationInv, Shape
<1>1. CASE Answer(r)
  <2>1. /\ pc[r] = "end" /\ pc'[r] = "done"
        /\ UNCHANGED <<job, tokens, chain, excluded>>
        /\ job[r] \in JobId
        /\ rows' = Finish(rows, job[r], tokens[r])
        /\ receipts' = AddReceipts(receipts, job[r], acked[r])
    BY <1>0, <1>1, KeptOutcome DEF Answer, taskVars, TasksWellFormed, TypeOK
  <2>2. /\ rows[job[r]].status # "NONE" /\ rows[job[r]].tokens = tokens[r]
        /\ tokens[r] \in Seq(Token) /\ "DONE" \in Statuses /\ 0 \in Nat
    BY <1>0, <2>1 DEF RowOf, Active, Running, Statuses, TypeOK, TaskTypeOK
  <2>3. /\ rows'[job[r]].status = "DONE"
        /\ rows'[job[r]].tokens = tokens[r]
        /\ rows'[job[r]].result = tokens[r]
    <3>1. LET row == Finish(rows, job[r], tokens[r])[job[r]]
          IN  row.status = "DONE" /\ row.tokens = rows[job[r]].tokens /\ row.result = tokens[r]
      BY <1>0, <2>1, <2>2, WrittenRow
    <3> QED
      BY <2>1, <2>2, <3>1
  <2>4. /\ receipts \in [JobId -> [Conn -> Nat]] /\ acked[r] \in [Conn -> Nat]
        /\ excluded[r] \subseteq Conn /\ ChainConns(r) \subseteq Conn
    BY <1>0 DEF TypeOK, TaskTypeOK, LogTypeOK
  <2>5. receipts'[job[r]] = [c \in Conn |-> receipts[job[r]][c] + acked[r][c]]
    BY <2>1, <2>4 DEF AddReceipts
  <2>6. \A c \in Conn : receipts'[job[r]][c] = acked[r][c]
    <3>1. \A c \in Conn : receipts[job[r]][c] = 0
      BY <2>1 DEF LogOf, ReceiptsOf, Active, Running
    <3> QED
      BY <2>4, <2>5, <3>1
  <2>7. ChainConns(r)' = ChainConns(r)
    BY <2>1 DEF ChainConns
  <2>8. /\ \A c \in Conn : acked[r][c] > 0 => c \in ChainConns(r)
        /\ MaxNew[r] > 0 => \A c \in ChainConns(r) : acked[r][c] > 0
        /\ ChainConns(r) \cap excluded[r] = {}
    BY <2>1 DEF LogOf, ReceiptsOf, FailedNodesStayOut, Running
  <2>9. MaxNew[r] > 0 => /\ {c \in Conn : receipts'[job[r]][c] > 0} = ChainConns(r)
                         /\ \A c \in excluded[r] : receipts'[job[r]][c] = 0
    <3>1. \A c \in excluded[r] : ~(acked[r][c] > 0)
      BY <2>4, <2>8
    <3> QED
      BY <2>4, <2>6, <2>8, <3>1
  <2> QED
    BY <2>1, <2>3, <2>7, <2>9 DEF OutcomeOf
<1>2. CASE GiveUp(r) \/ FailOver(r)
  <2>1. /\ job' = job /\ job[r] \in JobId
        /\ \/ pc'[r] = "cover"
           \/ pc'[r] = "refused" /\ Write(Fail(rows, job[r]))
    BY <1>0, <1>2 DEF GiveUp, FailOver, taskVars, TasksWellFormed, Running, TypeOK
  <2>2. CASE pc'[r] = "refused" /\ Write(Fail(rows, job[r]))
    <3>1. rows' = SetStatus(rows, job[r], "FAILED")
      BY <1>0, <2>2, KeptWrite DEF Fail
    <3>2. rows[job[r]].status # "NONE" /\ "FAILED" \in Statuses
      BY <1>0, <1>2 DEF GiveUp, FailOver, RowOf, Running, Statuses
    <3>3. 0 \in Nat /\ <<>> \in Seq(Token)
      OBVIOUS
    <3>4. rows'[job[r]].status = "FAILED"
      BY <1>0, <2>1, <3>1, <3>2, <3>3, WrittenRow
    <3> QED
      BY <2>1, <2>2, <3>4 DEF OutcomeOf
  <2> QED
    BY <2>1, <2>2 DEF OutcomeOf
<1>3. CASE Submit(r) \/ Route(r) \/ RouteInvalid(r) \/ Park(r) \/ Reply(r) \/ SendFails(r)
              \/ Stop(r) \/ Emit(r) \/ End(r)
  <2>1. pc'[r] \notin {"done", "refused"}
    BY <1>0, <1>3 DEF Submit, Route, RouteInvalid, Park, Reply, SendFails, Stop, Emit, End,
                      EndServed, EndSkipped, Awaiting, TypeOK
  <2> QED
    BY <2>1 DEF OutcomeOf
<1> QED
  BY <1>1, <1>2, <1>3 DEF Task, Poll

LEMMA LogNext ==
    ASSUME GenerationInv, FailedNodesStayOut, RowsInv, LogInv, [Next]_vars
    PROVE  LogInv'
<1> SUFFICES ASSUME crashes' = 0, losses' = 0, NEW q \in Request PROVE LogOf(q)'
  BY DEF LogInv
<1>0. Shape /\ TypeOK /\ JobsDistinct /\ crashes = 0 /\ losses = 0 /\ RowOf(q) /\ LogOf(q)
  <2>1. Shape /\ TypeOK /\ JobsDistinct
    BY DEF GenerationInv, Shape
  <2>2. crashes = 0 /\ losses = 0
    BY <2>1, BoundsGrow DEF TypeOK, LogTypeOK
  <2> QED
    BY <2>1, <2>2 DEF RowsInv, LogInv
<1>1. CASE \E r \in Request : Task(r)
  <2> PICK r \in Request : Task(r)
    BY <1>1
  <2>1. CASE q = r
    <3>1. RowOf(r)'
      BY <1>0, <2>1, RowStep
    <3>2. ReceiptsOf(r)'
      BY <1>0, <2>1, <3>1, ReceiptsStep DEF LogOf
    <3>3. OutcomeOf(r)'
      BY <1>0, <2>1, OutcomeStep
    <3> QED
      BY <2>1, <3>2, <3>3 DEF LogOf
  <2>2. CASE q # r
    <3>1. /\ UNCHANGED <<pc[q], job[q], tokens[q], chain[q], at[q], prefill[q], acked[q],
                         excluded[q]>>
          /\ ChainConns(q)' = ChainConns(q)
      BY <1>0, <2>2, OthersKept DEF TaskOf, ChainConns
    <3>2. pc[q] # "idle" => rows'[job[q]] = rows[job[q]] /\ receipts'[job[q]] = receipts[job[q]]
      BY <1>0, <2>2, OtherRowKept DEF Accepted
    <3> QED
      BY <1>0, <3>1, <3>2 DEF LogOf, ReceiptsOf, OutcomeOf, Active, Running, Waiting
  <2> QED
    BY <2>1, <2>2
<1>2. CASE \E c \in Conn : Node(c)
  <2>1. /\ UNCHANGED <<job, rows, receipts, tokens, chain, at, prefill, acked, excluded>>
        /\ pc'[q] = pc[q] \/ (pc[q] = "call" /\ pc'[q] = "down")
        /\ ChainConns(q)' = ChainConns(q)
    BY <1>0, <1>2, NodeStep DEF taskVars, logVars, ChainConns
  <2> QED
    BY <1>0, <2>1 DEF LogOf, ReceiptsOf, OutcomeOf, Active, Running, Waiting
<1>3. CASE Crash
  BY <1>0, <1>3 DEF Crash
<1>4. CASE UNCHANGED vars
  BY <1>0, <1>4 DEF vars, taskVars, logVars, LogOf, ReceiptsOf, OutcomeOf, ChainConns
<1> QED
  BY <1>1, <1>2, <1>3, <1>4 DEF Next, Quiescent

\* What the client was told, the job log says as well, while nothing was lost and
\* the coordinator did not restart: the status, the tokens so far, the result,
\* and receipts for exactly the nodes of the attempt that won
\* (coordinator.py:216-291 against jobstore.py:55-127).  Both conditions are
\* needed: a write that is lost may be this one, and a restart hands the ids of
\* the jobs of an earlier life, with their rows and receipts, to new ones.
THEOREM LogFollowsRequests ==
    Spec => [](crashes = 0 /\ losses = 0 => LogTracksRequest)
<1> DEFINE Inv == GenerationInv /\ FailedNodesStayOut /\ RowsInv /\ LogInv
<1>1. Init => Inv
  <2>1. Init => RowsInv /\ LogInv
    BY DEF Init, RowsInv, RowOf, LogInv, LogOf, ReceiptsOf, OutcomeOf, Active, Running, Waiting
  <2> QED
    BY <2>1, GenerationInit, FailedInit
<1>2. Inv /\ [Next]_vars => Inv'
  BY GenerationNext, FailedNext, RowsNext, LogNext DEF GenerationInv
<1>3. Inv => (crashes = 0 /\ losses = 0 => LogTracksRequest)
  BY DEF RowsInv, RowOf, LogInv, LogOf, OutcomeOf, LogTracksRequest, RowTracksRequest,
         ReceiptsNameWinners, Active
<1> QED
  BY <1>1, <1>2, <1>3, PTL DEF Spec

-----------------------------------------------------------------------------
(* The service a client sees *)

\* The step of one request, as its client sees it.
LEMMA ServiceTask ==
    ASSUME GenerationInv, NEW r \in Request, AnswerOf(r), RowOf(r), Task(r), losses' = 0
    PROVE  \/ /\ Phase(r)' = Phase(r)
              /\ tokens'[r] = tokens[r]
           \/ /\ Phase(r) = "idle" /\ Phase(r)' = "working"
              /\ tokens'[r] = tokens[r]
           \/ /\ Phase(r) = "working" /\ Phase(r)' = "working"
              /\ Len(tokens[r]) < MaxNew[r]
              /\ r \in Sampled \/ Len(tokens[r]) # StopAt[r]
              /\ \E t \in Service!TokenAt(r, Len(tokens[r])) : tokens'[r] = Append(tokens[r], t)
           \/ /\ Phase(r) = "working" /\ Phase(r)' = "done"
              /\ r \notin Invalid
              /\ Service!Complete(r)
              /\ tokens'[r] = tokens[r]
           \/ /\ Phase(r) = "working"
              /\ Phase(r)' = "refused" \/ (r \in Invalid /\ Phase(r)' = "broken")
              /\ tokens'[r] = tokens[r]
<1>0. Shape /\ TypeOK /\ CacheInv
  BY DEF GenerationInv, Shape
<1> USE DEF Phase
<1>1. CASE Submit(r)
  BY <1>0, <1>1, SubmitStep DEF Running, Waiting
<1>2. CASE Route(r) \/ Park(r) \/ Reply(r) \/ SendFails(r) \/ Stop(r) \/ End(r)
  <2>1. /\ tokens' = tokens
        /\ pc[r] \in Running \cup Waiting /\ pc'[r] \in Running \cup Waiting
    BY <1>0, <1>2 DEF Route, Park, Reply, SendFails, Stop, End, EndServed, EndSkipped, taskVars,
                      Awaiting, TypeOK, Running, Waiting
  <2> QED
    BY <2>1
<1>3. CASE RouteInvalid(r) \/ GiveUp(r)
  <2>1. /\ tokens' = tokens /\ pc[r] \in Waiting
        /\ pc'[r] = "refused" \/ (r \in Invalid /\ pc'[r] = "broken")
    BY <1>0, <1>3 DEF RouteInvalid, GiveUp, taskVars, TypeOK, Waiting
  <2> QED
    BY <2>1 DEF Running, Waiting
<1>4. CASE Emit(r)
  <2> DEFINE n == Len(tokens[r])
  <2>1. /\ pc[r] = "choose" /\ pc'[r] \in {"call", "down", "end"}
        /\ r \in Sampled \/ Produced(r).index # StopAt[r]
        /\ tokens'[r] = Append(tokens[r], Produced(r))
    BY <1>0, <1>4 DEF Emit, Awaiting, TypeOK, TaskTypeOK
  <2>2. Produced(r) = [request |-> r, index |-> n,
                       seeded |-> IF r \in Sampled THEN attempt[r] ELSE 0]
    BY <1>0, <2>1, NextToken
  <2>3. Produced(r).index = n
    BY <2>2
  <2>4. attempt[r] \in 0 .. MaxFailovers
    BY <1>0 DEF TypeOK, TaskTypeOK
  <2>5. Produced(r) \in Service!TokenAt(r, n)
    <3> DEFINE seed == IF r \in Sampled THEN attempt[r] ELSE 0
    <3>1. seed \in IF r \in Sampled THEN 0 .. MaxFailovers ELSE {0}
      BY <2>4
    <3>2. Produced(r) = [request |-> r, index |-> n, seeded |-> seed]
      BY <2>2
    <3> HIDE DEF n, seed
    <3> QED
      BY <3>1, <3>2 DEF Service!TokenAt
  <2>6. n < MaxNew[r]
    BY <2>1 DEF AnswerOf
  <2> QED
    BY <2>1, <2>3, <2>5, <2>6 DEF Running
<1>5. CASE Answer(r)
  <2>1. pc[r] = "end" /\ pc'[r] = "done" /\ tokens' = tokens
    BY <1>0, <1>5 DEF Answer, taskVars, TypeOK
  <2>2. r \notin Invalid
    BY <1>0, <2>1 DEF CacheInv, CachesOfTask, ChainWhole, Running
  <2>3. Len(tokens[r]) \in Nat /\ MaxNew[r] \in Nat
    BY <1>0, InputAssumption DEF TypeOK, TaskTypeOK
  <2>4. Service!Complete(r)
    BY <2>1, <2>3 DEF AnswerOf, Service!Complete
  <2> QED
    BY <2>1, <2>2, <2>4 DEF Running, Waiting
<1>6. CASE FailOver(r)
  <2>1. losses = 0 /\ losses \in Nat
    <3>1. FailOver(r) => losses' = losses \/ losses' = losses + 1
      BY DEF FailOver, Write
    <3> QED
      BY <1>0, <1>6, <3>1 DEF TypeOK, LogTypeOK
  <2>2. /\ pc[r] = "down"
        /\ \/ pc'[r] = "refused" /\ tokens' = tokens
           \/ pc'[r] = "cover" /\ tokens'[r] = rows[job[r]].tokens
    BY <1>0, <1>6, <2>1 DEF FailOver, Resumed, TypeOK, TaskTypeOK
  <2>3. rows[job[r]].tokens = tokens[r]
    BY <2>2 DEF RowOf, Active, Running
  <2> QED
    BY <2>2, <2>3 DEF Running, Waiting
<1> QED
  BY <1>1, <1>2, <1>3, <1>4, <1>5, <1>6 DEF Task, Poll

LEMMA ServiceStep ==
    ASSUME GenerationInv, RowsInv, [Next]_vars, losses' = 0
    PROVE  [Service!Next]_(Service!serviceVars)
<1> DEFINE ph == [q \in Request |-> Phase(q)]
<1>0. TypeOK /\ losses = 0 /\ \A q \in Request : AnswerOf(q) /\ RowOf(q)
  <2>1. TypeOK
    BY DEF GenerationInv, Shape
  <2>2. losses = 0
    BY <2>1, BoundsGrow DEF TypeOK, LogTypeOK
  <2> QED
    BY <2>1, <2>2 DEF GenerationInv, AnswerInv, Reliable, RowsInv
<1>1. CASE \E r \in Request : Task(r)
  <2> PICK r \in Request : Task(r)
    BY <1>1
  <2>1. \A q \in Request : q # r => Phase(q)' = Phase(q) /\ tokens'[q] = tokens[q]
    BY <1>0, OthersKept DEF TaskOf, Phase
  <2>2. DOMAIN tokens = Request /\ DOMAIN tokens' = Request
    <3>1. TypeOK'
      BY GenerationNext DEF GenerationInv, Shape
    <3> QED
      BY <1>0, <3>1 DEF TypeOK, TaskTypeOK
  <2>3. tokens \in [Request -> Seq(Token)] /\ tokens' \in [Request -> Seq(Token)]
    <3>1. TypeOK'
      BY GenerationNext DEF GenerationInv, Shape
    <3> QED
      BY <1>0, <3>1 DEF TypeOK, TaskTypeOK
  <2>4. tokens' = [tokens EXCEPT ![r] = tokens'[r]]
    BY <2>1, <2>3
  <2>5. ph' = [ph EXCEPT ![r] = Phase(r)']
    BY <2>1
  <2>6. ph[r] = Phase(r)
    OBVIOUS
  <2>7. tokens'[r] = tokens[r] => tokens' = tokens
    BY <2>3, <2>4
  <2>8. Phase(r)' = Phase(r) => ph' = ph
    BY <2>5
  <2> HIDE DEF ph
  <2>9. CASE Phase(r)' = Phase(r) /\ tokens'[r] = tokens[r]
    BY <2>7, <2>8, <2>9 DEF Service!serviceVars, ph
  <2>10. CASE /\ Phase(r) = "idle" /\ Phase(r)' = "working"
              /\ tokens'[r] = tokens[r]
    <3>1. Service!Accept(r)
      BY <2>5, <2>6, <2>7, <2>10 DEF Service!Accept, ph
    <3> QED
      BY <3>1 DEF Service!Next
  <2>11. CASE /\ Phase(r) = "working" /\ Phase(r)' = "working"
              /\ Len(tokens[r]) < MaxNew[r]
              /\ r \in Sampled \/ Len(tokens[r]) # StopAt[r]
              /\ \E t \in Service!TokenAt(r, Len(tokens[r])) : tokens'[r] = Append(tokens[r], t)
    <3>1. PICK t \in Service!TokenAt(r, Len(tokens[r])) : tokens'[r] = Append(tokens[r], t)
      BY <2>11
    <3>2. tokens' = [tokens EXCEPT ![r] = Append(@, t)]
      BY <2>3, <2>4, <3>1
    <3>3. Service!Produce(r)
      BY <2>6, <2>8, <2>11, <3>2 DEF Service!Produce, ph
    <3> QED
      BY <3>3 DEF Service!Next, Service!Progress
  <2>12. CASE /\ Phase(r) = "working" /\ Phase(r)' = "done"
              /\ r \notin Invalid
              /\ Service!Complete(r)
              /\ tokens'[r] = tokens[r]
    <3>1. Service!Deliver(r)
      BY <2>5, <2>6, <2>7, <2>12 DEF Service!Deliver, ph
    <3> QED
      BY <3>1 DEF Service!Next, Service!Progress
  <2>13. CASE /\ Phase(r) = "working"
              /\ Phase(r)' = "refused" \/ (r \in Invalid /\ Phase(r)' = "broken")
              /\ tokens'[r] = tokens[r]
    <3>1. Service!Refuse(r)
      BY <2>5, <2>6, <2>7, <2>13 DEF Service!Refuse, ph
    <3> QED
      BY <3>1 DEF Service!Next, Service!Progress
  <2> QED
    BY <1>0, <2>9, <2>10, <2>11, <2>12, <2>13, ServiceTask
<1>2. CASE \E c \in Conn : Node(c)
  <2>1. /\ tokens' = tokens
        /\ \A q \in Request : pc'[q] = pc[q] \/ (pc[q] = "call" /\ pc'[q] = "down")
    BY <1>0, <1>2, NodeStep DEF taskVars
  <2>2. \A q \in Request : Phase(q)' = Phase(q)
    BY <2>1 DEF Phase, Running
  <2> QED
    BY <2>1, <2>2 DEF Service!serviceVars
<1>3. CASE Crash
  <2>1. /\ tokens' = tokens
        /\ pc' = [r \in Request |-> IF pc[r] \in Running \cup Waiting THEN "cut" ELSE pc[r]]
    BY <1>3 DEF Crash, taskVars
  <2>2. \A q \in Request : Phase(q)' = IF Phase(q) = "working" THEN "cut" ELSE Phase(q)
    BY <1>0, <2>1 DEF Phase, Running, Waiting, TypeOK, PC, Over
  <2>3. Service!CutAll
    BY <2>1, <2>2 DEF Service!CutAll
  <2> QED
    BY <2>3 DEF Service!Next
<1>4. CASE UNCHANGED vars
  BY <1>4 DEF vars, taskVars, Service!serviceVars, Phase
<1> QED
  BY <1>1, <1>2, <1>3, <1>4 DEF Next, Quiescent

\* Failovers, parking, resuming and every interleaving of requests and nodes are
\* invisible to a client: as long as the job log lost nothing, each step of the
\* coordinator (_generate_with_failover and _run_generation,
\* coordinator.py:112-275) is a step of one uninterrupted generation, or none;
\* a crash cuts the requests in progress and touches no answer.
THEOREM StepsServe ==
    Spec => Service!Init /\ [][losses' = 0 => Service!Next]_(Service!serviceVars)
<1> DEFINE Inv == GenerationInv /\ RowsInv
<1>1. Init => Inv
  <2>1. Init => RowsInv
    BY DEF Init, RowsInv, RowOf, Active, Running, Waiting
  <2> QED
    BY <2>1, GenerationInit
<1>2. Inv /\ [Next]_vars => Inv'
  BY GenerationNext, RowsNext
<1>3. Inv /\ [Next]_vars => [losses' = 0 => Service!Next]_(Service!serviceVars)
  BY ServiceStep
<1>4. Init => Service!Init
  BY DEF Init, Service!Init, Phase, Running, Waiting
<1> QED
  BY <1>1, <1>2, <1>3, <1>4, PTL DEF Spec

\* The safety half of ImplementsService, for a job log that never fails.
THEOREM ServiceRefined ==
    ASSUME MaxLosses = 0
    PROVE  Spec => Service!Init /\ [][Service!Next]_(Service!serviceVars)
<1>1. TypeOK' /\ [losses' = 0 => Service!Next]_(Service!serviceVars)
      => [Service!Next]_(Service!serviceVars)
  BY DEF TypeOK, LogTypeOK
<1> QED
  BY <1>1, TypeCorrect, StepsServe, PTL

-----------------------------------------------------------------------------
(* Requests advance *)

\* What a request has left: failovers, the phases of an attempt, tokens, and the
\* calls of a pass or the end ops.
PhasesLeft(r) ==
    CASE pc[r] = "idle" -> 6
      [] pc[r] = "cover" -> 5
      [] pc[r] = "parked" -> 4
      [] pc[r] \in {"call", "choose"} -> 3
      [] pc[r] = "down" -> 2
      [] pc[r] = "end" -> 1
      [] pc[r] \in Over -> 0

TokensLeft(r) == IF Len(tokens[r]) < MaxNew[r] THEN MaxNew[r] - Len(tokens[r]) ELSE 0

CallsLeft(r) ==
    CASE pc[r] = "call" -> PastHead - at[r]
      [] pc[r] = "end" -> Cardinality(ending[r])
      [] OTHER -> 0

Left(r) == <<MaxFailovers - attempt[r], PhasesLeft(r), TokensLeft(r), CallsLeft(r)>>

\* Nothing sends a request back: each step of its task leaves it less to do, and
\* what other requests, nodes and crashes do leaves it no more.
RequestsAdvance ==
    [][\A r \in Request :
        /\ Left(r)' = Left(r) \/ Less(Left(r)', Left(r))
        /\ Task(r) => Less(Left(r)', Left(r))]_vars

\* What a request has left is counted.
LEMMA LeftCounts ==
    ASSUME Shape, NEW r \in Request
    PROVE  Left(r) \in Fourfold
<1>1. MaxFailovers - attempt[r] \in Nat
  BY BoundAssumption DEF Shape, TypeOK, TaskTypeOK
<1>2. PhasesLeft(r) \in Nat
  <2>1. pc[r] \in {"idle", "cover", "parked", "call", "down", "choose", "end",
                   "done", "refused", "broken", "cut"}
    BY DEF Shape, TypeOK, PC, Running, Waiting, Over
  <2> QED
    BY <2>1 DEF PhasesLeft, Over
<1>3. TokensLeft(r) \in Nat
  <2>1. Len(tokens[r]) \in Nat /\ MaxNew[r] \in Nat
    BY InputAssumption DEF Shape, TypeOK, TaskTypeOK
  <2> QED
    BY <2>1 DEF TokensLeft
<1>4. CallsLeft(r) \in Nat
  <2>1. PastHead - at[r] \in Nat
    BY LayersAssumption DEF Shape, TypeOK, TaskTypeOK
  <2>2. Cardinality(ending[r]) \in Nat
    <3>1. IsFiniteSet(ending[r])
      BY ConnAssumption, FS_Subset DEF Shape, TypeOK, TaskTypeOK
    <3> QED
      BY <3>1, FS_CardinalityType
  <2> HIDE DEF PastHead
  <2>3. CASE pc[r] = "call"
    BY <2>1, <2>3 DEF CallsLeft
  <2>4. CASE pc[r] = "end"
    BY <2>2, <2>4 DEF CallsLeft
  <2>5. CASE pc[r] \notin {"call", "end"}
    BY <2>5 DEF CallsLeft
  <2> QED
    BY <2>3, <2>4, <2>5
<1> QED
  BY <1>1, <1>2, <1>3, <1>4 DEF Left, Fourfold

LEMMA PhaseValues ==
    ASSUME NEW r \in Request
    PROVE  /\ pc[r] = "idle" => PhasesLeft(r) = 6
           /\ pc[r] = "cover" => PhasesLeft(r) = 5
           /\ pc[r] = "parked" => PhasesLeft(r) = 4
           /\ pc[r] \in {"call", "choose"} => PhasesLeft(r) = 3
           /\ pc[r] = "down" => PhasesLeft(r) = 2
           /\ pc[r] = "end" => PhasesLeft(r) = 1
           /\ pc[r] \in Over => PhasesLeft(r) = 0
           /\ pc'[r] = "cover" => PhasesLeft(r)' = 5
           /\ pc'[r] = "parked" => PhasesLeft(r)' = 4
           /\ pc'[r] \in {"call", "choose"} => PhasesLeft(r)' = 3
           /\ pc'[r] = "down" => PhasesLeft(r)' = 2
           /\ pc'[r] = "end" => PhasesLeft(r)' = 1
           /\ pc'[r] \in Over => PhasesLeft(r)' = 0
BY DEF PhasesLeft, Over

\* A phase that is over.
LEMMA PhaseOver ==
    ASSUME NEW r \in Request, attempt'[r] = attempt[r], PhasesLeft(r)' < PhasesLeft(r)
    PROVE  Less(Left(r)', Left(r))
BY LessAt DEF Left

\* Most steps of a task end a phase; a worker that went away ends one as well.
LEMMA PhasesPass ==
    ASSUME Shape, NEW r \in Request,
           Submit(r) \/ Poll(r) \/ SendFails(r) \/ Stop(r) \/ Answer(r)
    PROVE  Less(Left(r)', Left(r))
<1>0. pc \in [Request -> PC] /\ \A x : [pc EXCEPT ![r] = x][r] = x
  BY DEF Shape, TypeOK
<1>1. CASE Submit(r)
  <2>1. pc[r] = "idle" /\ pc'[r] = "cover" /\ attempt' = attempt
    BY <1>0, <1>1 DEF Submit
  <2> QED
    BY <2>1, PhaseOver, PhaseValues
<1>2. CASE Route(r)
  <2>1. /\ pc[r] \in Waiting /\ attempt' = attempt
        /\ pc' = [pc EXCEPT ![r] = "call"] \/ pc' = [pc EXCEPT ![r] = "end"]
    BY <1>2 DEF Route
  <2>2. pc[r] \in {"cover", "parked"} /\ pc'[r] \in {"call", "end"}
    BY <1>0, <2>1 DEF Waiting
  <2> QED
    BY <2>1, <2>2, PhaseOver, PhaseValues
<1>3. CASE RouteInvalid(r) \/ Park(r) \/ GiveUp(r)
  <2>1. /\ pc[r] \in {"cover", "parked"} /\ attempt' = attempt
        /\ \/ pc[r] = "cover" /\ pc'[r] = "parked"
           \/ pc'[r] \in {"broken", "refused"}
    BY <1>0, <1>3 DEF RouteInvalid, Park, GiveUp, Waiting, taskVars
  <2> QED
    BY <2>1, PhaseOver, PhaseValues DEF Over
<1>4. CASE SendFails(r)
  <2>1. pc[r] = "call" /\ pc'[r] = "down" /\ attempt' = attempt
    BY <1>0, <1>4 DEF SendFails, taskVars
  <2> QED
    BY <2>1, PhaseOver, PhaseValues
<1>5. CASE Stop(r)
  <2>1. pc[r] = "choose" /\ pc'[r] = "end" /\ attempt' = attempt
    BY <1>0, <1>5 DEF Stop
  <2> QED
    BY <2>1, PhaseOver, PhaseValues
<1>6. CASE Answer(r)
  <2>1. pc[r] = "end" /\ pc'[r] = "done" /\ attempt' = attempt
    BY <1>0, <1>6 DEF Answer, taskVars
  <2> QED
    BY <2>1, PhaseOver, PhaseValues DEF Over
<1> QED
  BY <1>1, <1>2, <1>3, <1>4, <1>5, <1>6 DEF Poll

\* A failover may take tokens back, but there is one failover less.
LEMMA FailuresPass ==
    ASSUME Shape, NEW r \in Request, FailOver(r)
    PROVE  Less(Left(r)', Left(r))
<1>0. pc \in [Request -> PC] /\ attempt[r] \in Nat /\ attempt \in [Request -> 0 .. MaxFailovers]
  BY BoundAssumption DEF Shape, TypeOK, TaskTypeOK
<1>1. CASE attempt[r] < MaxFailovers
  <2>1. attempt'[r] = attempt[r] + 1
    BY <1>0, <1>1 DEF FailOver
  <2>2. MaxFailovers - attempt'[r] < MaxFailovers - attempt[r]
    BY <1>0, <2>1, BoundAssumption
  <2> QED
    BY <2>2, LessAt DEF Left
<1>2. CASE ~(attempt[r] < MaxFailovers)
  <2>1. pc[r] = "down" /\ pc'[r] = "refused" /\ attempt' = attempt
    BY <1>0, <1>2 DEF FailOver
  <2> QED
    BY <2>1, PhaseOver, PhaseValues DEF Over
<1> QED
  BY <1>1, <1>2

LEMMA CallsPass ==
    ASSUME Shape, NEW r \in Request, Reply(r)
    PROVE  Less(Left(r)', Left(r))
<1>1. PICK next \in CallStarts(chain[r], at[r]) :
        /\ at' = [at EXCEPT ![r] = next]
        /\ pc' = [pc EXCEPT ![r] = IF next = PastHead THEN "choose"
                                   ELSE Awaiting(chain[r][next])]
  BY DEF Reply
<1>2. pc[r] = "call" /\ attempt' = attempt /\ tokens' = tokens
  BY DEF Reply
<1>3. /\ pc \in [Request -> PC] /\ at \in [Request -> 0 .. PastHead]
      /\ DOMAIN chain[r] \subseteq 0 .. HeadAt(NumLayers) /\ at[r] \in DOMAIN chain[r]
  BY <1>2 DEF Shape, TypeOK, TaskTypeOK, TasksWellFormed
<1>4. next \in 0 .. PastHead /\ at[r] < next /\ at[r] \in Nat /\ PastHead \in Nat /\ at[r] < PastHead
  BY <1>3, LayersAssumption DEF CallStarts
<1>5. at'[r] = next
  BY <1>1, <1>3
<1>6. pc'[r] \in {"call", "down", "choose"}
  BY <1>1, <1>3 DEF Awaiting
<1> HIDE DEF PastHead
<1>7. CASE pc'[r] = "down"
  BY <1>2, <1>7, PhaseOver, PhaseValues
<1>8. CASE pc'[r] \in {"call", "choose"}
  <2>1. PhasesLeft(r)' = PhasesLeft(r) /\ TokensLeft(r)' = TokensLeft(r)
    BY <1>2, <1>8, PhaseValues DEF TokensLeft
  <2>2. CallsLeft(r) = PastHead - at[r]
    BY <1>2 DEF CallsLeft
  <2>3. CallsLeft(r)' = PastHead - next \/ CallsLeft(r)' = 0
    BY <1>5, <1>8 DEF CallsLeft
  <2>4. CallsLeft(r)' < CallsLeft(r)
    BY <1>4, <2>2, <2>3
  <2> QED
    BY <1>2, <2>1, <2>4, LessAt DEF Left
<1> QED
  BY <1>6, <1>7, <1>8

LEMMA TokensPass ==
    ASSUME Shape, NEW r \in Request, Emit(r)
    PROVE  Less(Left(r)', Left(r))
<1>1. /\ pc[r] = "choose" /\ attempt' = attempt
      /\ tokens' = [tokens EXCEPT ![r] = Append(@, Produced(r))]
  BY DEF Emit
<1>2. IF Len(tokens[r]) + 1 < MaxNew[r]
      THEN pc' = [pc EXCEPT ![r] = Awaiting(chain[r][EmbedAt])]
      ELSE pc' = [pc EXCEPT ![r] = "end"]
  BY DEF Emit
<1>3. pc \in [Request -> PC] /\ MaxNew[r] \in Nat
  BY InputAssumption DEF Shape, TypeOK
<1>4. Len(tokens'[r]) = Len(tokens[r]) + 1 /\ Len(tokens[r]) \in Nat
  <2>1. tokens \in [Request -> Seq(Token)] /\ Produced(r) \in Token
    BY ProducedShape DEF Shape, TypeOK, TaskTypeOK
  <2>2. tokens'[r] = Append(tokens[r], Produced(r)) /\ tokens[r] \in Seq(Token)
    BY <1>1, <2>1
  <2> QED
    BY <2>1, <2>2
<1>5. CASE Len(tokens[r]) + 1 < MaxNew[r]
  <2>1. pc'[r] \in {"call", "down"}
    BY <1>2, <1>3, <1>5 DEF Awaiting
  <2>2. TokensLeft(r)' < TokensLeft(r)
    BY <1>3, <1>4, <1>5 DEF TokensLeft
  <2>3. CASE pc'[r] = "down"
    BY <1>1, <2>3, PhaseOver, PhaseValues
  <2>4. CASE pc'[r] = "call"
    <3>1. PhasesLeft(r)' = PhasesLeft(r)
      BY <1>1, <2>4, PhaseValues
    <3> QED
      BY <1>1, <2>2, <3>1, LessAt DEF Left
  <2> QED
    BY <2>1, <2>3, <2>4
<1>6. CASE ~(Len(tokens[r]) + 1 < MaxNew[r])
  <2>1. pc'[r] = "end"
    BY <1>2, <1>3, <1>6
  <2> QED
    BY <1>1, <2>1, PhaseOver, PhaseValues
<1> QED
  BY <1>5, <1>6

LEMMA EndsPass ==
    ASSUME Shape, NEW r \in Request, NEW c \in Conn, EndServed(r, c) \/ EndSkipped(r, c)
    PROVE  Less(Left(r)', Left(r))
<1>1. /\ pc[r] = "end" /\ pc' = pc /\ attempt' = attempt /\ tokens' = tokens
      /\ c \in ending[r] /\ ending'[r] = ending[r] \ {c}
  BY DEF EndServed, EndSkipped, Shape, TypeOK, TaskTypeOK
<1> DEFINE targets == ending[r]
<1>2. IsFiniteSet(targets)
  BY ConnAssumption, FS_Subset DEF Shape, TypeOK, TaskTypeOK
<1>3. c \in targets /\ ending'[r] = targets \ {c}
  BY <1>1
<1>4. CallsLeft(r) = Cardinality(targets) /\ CallsLeft(r)' = Cardinality(ending'[r])
  BY <1>1 DEF CallsLeft
<1> HIDE DEF targets
<1>5. Cardinality(targets \ {c}) = Cardinality(targets) - 1 /\ Cardinality(targets) \in Nat
  BY <1>2, <1>3, FS_RemoveElement, FS_CardinalityType
<1>6. CallsLeft(r)' < CallsLeft(r)
  BY <1>3, <1>4, <1>5
<1>7. PhasesLeft(r)' = PhasesLeft(r) /\ TokensLeft(r)' = TokensLeft(r)
  BY <1>1 DEF PhasesLeft, TokensLeft
<1> QED
  BY <1>1, <1>6, <1>7, LessAt DEF Left

LEMMA TasksAdvance ==
    ASSUME Shape, NEW r \in Request, Task(r)
    PROVE  Less(Left(r)', Left(r))
BY PhasesPass, FailuresPass, CallsPass, TokensPass, EndsPass DEF Task, End

LEMMA LeftKept ==
    ASSUME NEW r \in Request, pc'[r] = pc[r], attempt'[r] = attempt[r], tokens'[r] = tokens[r],
           at'[r] = at[r], ending'[r] = ending[r]
    PROVE  Left(r)' = Left(r)
BY DEF Left, PhasesLeft, TokensLeft, CallsLeft

LEMMA NobodyGoesBack ==
    ASSUME Shape, [Next]_vars, NEW r \in Request
    PROVE  Left(r)' = Left(r) \/ Less(Left(r)', Left(r))
<1>1. ASSUME NEW q \in Request, Task(q) PROVE Left(r)' = Left(r) \/ Less(Left(r)', Left(r))
  <2>1. CASE q = r
    BY <1>1, <2>1, TasksAdvance
  <2>2. CASE q # r
    <3>1. UNCHANGED TaskOf(r)
      BY <1>1, <2>2, OthersKept DEF Shape
    <3> QED
      BY <3>1, LeftKept DEF TaskOf
  <2> QED
    BY <2>1, <2>2
<1>2. ASSUME (\E c \in Conn : Node(c)) \/ Crash \/ UNCHANGED vars
      PROVE  Left(r)' = Left(r) \/ Less(Left(r)', Left(r))
  <2>1. /\ attempt' = attempt /\ tokens' = tokens /\ at' = at /\ ending' = ending
    BY <1>2 DEF Node, Connect, Lose, Disconnect, Crash, vars, taskVars
  <2>2. \/ pc'[r] = pc[r]
        \/ pc[r] = "call" /\ pc'[r] = "down"
        \/ pc[r] \in Running \cup Waiting /\ pc'[r] = "cut"
    BY <1>2 DEF Node, Connect, Lose, Disconnect, PcAfterDisconnect, Crash, vars
  <2>3. CASE pc'[r] = pc[r]
    BY <2>1, <2>3, LeftKept
  <2>4. CASE pc[r] = "call" /\ pc'[r] = "down"
    BY <2>1, <2>4, PhaseOver, PhaseValues
  <2>5. CASE pc[r] \in Running \cup Waiting /\ pc'[r] = "cut"
    BY <2>1, <2>5, PhaseOver, PhaseValues DEF Running, Waiting, Over
  <2> QED
    BY <2>2, <2>3, <2>4, <2>5
<1> QED
  BY <1>1, <1>2 DEF Next, Quiescent

\* Nothing sends a request back: each step of its task (_generate_with_failover,
\* _await_coverage, _run_generation, coordinator.py:112-275) leaves it less to do,
\* and what other requests, nodes and crashes do leaves it no more.
THEOREM NoStepIsWasted == Spec => RequestsAdvance
<1>1. Shape /\ [Next]_vars
      => [\A r \in Request :
            /\ Left(r)' = Left(r) \/ Less(Left(r)', Left(r))
            /\ Task(r) => Less(Left(r)', Left(r))]_vars
  BY NobodyGoesBack, TasksAdvance
<1> QED
  BY <1>1, ShapeInit, ShapeNext, PTL DEF Spec, RequestsAdvance

=============================================================================
