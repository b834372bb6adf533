---------------------------- MODULE Coordinator ----------------------------
(***************************************************************************)
(* The coordinator relay of eujeno/net/coordinator.py, the worker nodes it *)
(* drives (eujeno/net/node.py, node_exec.py and the KV caches of           *)
(* model/blocks.py) and the job log it writes (module JobStore).           *)
(*                                                                         *)
(* The coordinator is one asyncio event loop: an action is the code a task *)
(* runs from one await to the next.  A request is one POST /infer or POST  *)
(* /v1/chat/completions; a conn is one websocket of one worker process,    *)
(* which never reconnects.                                                 *)
(***************************************************************************)
EXTENDS Integers, Sequences, FiniteSets, JobStore, Discovery

CONSTANTS
    Request,      \* the client requests
    Conn,         \* the worker processes, named by their connection ids
    JobId,        \* the ids the counter can give to the jobs of one life
    NoJob,        \* not a job id
    NumLayers,    \* decoder layers of the model
    Stages,       \* what each worker announces (see Discovery)
    Fused,        \* the workers that advertise the "chain" capability
    MaxNew,       \* max_new_tokens of each request
    StopAt,       \* where the greedy output of each request reaches a stop token
    Sampled,      \* the requests with temperature > 0
    Invalid,      \* the requests with a sampling value float() rejects
    MaxFailovers, \* MAX_FAILOVERS, 5 in the code
    MaxCrashes,   \* bound: restarts of the coordinator
    MaxLosses     \* bound: reads and writes of the job log that raise

\* Operators named as a slip of another one (AnyIds for FreshIds, ...) are used
\* by no action: they show that the properties notice the slip.

ASSUME ConnAssumption == IsFiniteSet(Conn)

ASSUME RequestAssumption == IsFiniteSet(Request) /\ NoJob \notin JobId

ASSUME LayersAssumption == NumLayers \in Nat \ {0}

ASSUME StagesAssumption ==
    /\ Stages \in [Conn -> [embed : BOOLEAN, head : BOOLEAN, decoders : SUBSET (Nat \X Nat)]]
    /\ \A c \in Conn : IsFiniteSet(Stages[c].decoders)

ASSUME InputAssumption ==
    /\ MaxNew \in [Request -> Nat]
    /\ StopAt \in [Request -> Nat]

ASSUME BoundAssumption ==
    /\ MaxFailovers \in Nat
    /\ MaxCrashes \in Nat
    /\ MaxLosses \in Nat

\* Reputations in units of 0.5.
RepInitial == 2
RepReward == 1
RepPenalty == 4
RepMax == 20

\* The prompts are one token long: all the code uses is that they are not empty.
PromptLen == 1

\* The position after the head of the model.
PastHead == HeadAt(NumLayers) + 1

VARIABLES
    \* the coordinator's table of nodes; a connection is "lost" while its peer
    \* is dead and node_ws has not noticed, "gone" once it was popped
    conn, load, reputation,
    \* the tasks of the requests
    pc, job, attempt, excluded, chain, at, prefill, tokens, acked, ending,
    h,        \* the activation of the pass: the context lengths of its blocks so far
    issued,   \* the job ids the counter has given in this life
    kv,       \* length of the KV cache of a <<conn, request, attempt, block>>
    rows, receipts,  \* the job log
    crashes, losses  \* bounds

connVars == <<conn, load, reputation>>
taskVars == <<job, attempt, excluded, chain, at, prefill, h, tokens, acked,
              ending>>
logVars == <<rows, receipts, losses>>
vars == <<connVars, pc, taskVars, issued, kv, logVars, crashes>>

-----------------------------------------------------------------------------
(* Tasks *)

\* idle      not submitted yet
\* cover     about to poll for coverage, parked: sleeping between two polls
\* call      awaiting the reply of a hop, down: the await raised _NodeFailure
\* choose    the head's reply is there, the token is not chosen yet
\* end       sending the end ops of a complete generation
\* done, refused, broken, cut: answered, an error, a 500, cut by a crash
Running == {"call", "down", "choose", "end"}
Waiting == {"cover", "parked"}
Over == {"done", "refused", "broken", "cut"}
PC == {"idle"} \cup Waiting \cup Running \cup Over

\* The keys of conns.
Conns == {c \in Conn : conn[c] \in {"up", "lost"}}

ChainConns(r) == {chain[r][x] : x \in DOMAIN chain[r]}

\* The positions at which the call after the one at position x may start: a
\* node with the capability runs all its consecutive stages in one call.
CallStarts(route, x) ==
    {y \in DOMAIN route : y > x /\ (route[x] \in Fused => route[y] # route[x])}
        \cup {PastHead}

\* The stages of the call that starts at x and is followed by one at next.
CallSpan(route, x, next) == {y \in DOMAIN route : x <= y /\ y < next}

\* How much input the pass feeds: the prompt and the resumed tokens, or one
\* token, and the cache_position at which it starts.
InputLenWithoutResumed(r) == 1
InputLen(r) == IF prefill[r] THEN PromptLen + Len(tokens[r]) ELSE 1
StartPosition(r) == IF prefill[r] THEN 0 ELSE PromptLen + Len(tokens[r]) - 1

\* What the first pass of an attempt has acknowledged, and the nodes to which a
\* complete generation sends its "end" ops.
CarriedReceipts(r) == acked[r]
NoReceipts(r) == [c \in Conn |-> 0]

EndsOfRoute(route) == {route[EmbedAt], route[HeadAt(NumLayers)]}
EndTargets(route) == {route[x] : x \in DOMAIN route}

\* The job id the nodes see: a new one for every attempt.
NodeJobOfRow(r) == 0
NodeJob(r) == attempt[r]

CacheOf(r, x) == <<chain[r][x], r, NodeJob(r), x>>

Decoders(r) == DOMAIN chain[r] \ {EmbedAt, HeadAt(NumLayers)}

\* The token the head names for the activation h that reaches it.  Blocks whose
\* caches hold the prompt and the i tokens before make it token i of the
\* request's output; blocks that disagree make it anything, here index -1.  A
\* sampled token also depends on the generator, seeded again for every attempt.
Produced(r) ==
    [request |-> r,
     index   |-> IF \E n \in h[r] : h[r] = {n}
                 THEN (CHOOSE n \in h[r] : TRUE) - PromptLen ELSE -1,
     seeded  |-> IF r \in Sampled THEN attempt[r] ELSE 0]

Token == [request : Request, index : Int, seeded : Nat]

-----------------------------------------------------------------------------
(* Best-effort persistence: _store_safe swallows what the job log raises *)

Write(newRows) ==
    /\ UNCHANGED receipts
    /\ \/ rows' = newRows /\ UNCHANGED losses
       \/ losses < MaxLosses /\ UNCHANGED rows /\ losses' = losses + 1

\* add_receipts and then finish, each of which may be lost.
WriteOutcome(newRows, newReceipts) ==
    \E kept \in SUBSET {"rows", "receipts"} :
        /\ losses + (2 - Cardinality(kept)) <= MaxLosses
        /\ losses' = losses + (2 - Cardinality(kept))
        /\ rows' = IF "rows" \in kept THEN newRows ELSE rows
        /\ receipts' = IF "receipts" \in kept THEN newReceipts ELSE receipts

\* What a failover resumes from: (j or {}).get("tokens").
Restarted(r) == <<>>
Resumed(r) == rows[job[r]].tokens

-----------------------------------------------------------------------------
(* Load and reputation of the nodes of a chain *)

\* The finally clause, for the connections that are still in conns.
NotReleased(r) == load
Released(r) ==
    [c \in Conn |-> IF c \in ChainConns(r) \cap Conns /\ load[c] > 0
                    THEN load[c] - 1 ELSE load[c]]

Rewarded(r) ==
    [c \in Conn |->
        IF c \in ChainConns(r) \cap Conns
        THEN IF reputation[c] + RepReward > RepMax THEN RepMax
             ELSE reputation[c] + RepReward
        ELSE reputation[c]]

PenalisedPastFloor(c) ==
    IF c \notin Conns THEN reputation
    ELSE [reputation EXCEPT ![c] = @ - RepPenalty]

Penalised(c) ==
    IF c \notin Conns THEN reputation
    ELSE [reputation EXCEPT ![c] = IF @ > RepPenalty THEN @ - RepPenalty ELSE 0]

-----------------------------------------------------------------------------
(* The worker nodes and node_ws *)

Init ==
    /\ conn = [c \in Conn |-> "off"]
    /\ load = [c \in Conn |-> 0]
    /\ reputation = [c \in Conn |-> RepInitial]
    /\ pc = [r \in Request |-> "idle"]
    /\ job = [r \in Request |-> NoJob]
    /\ attempt = [r \in Request |-> 0]
    /\ excluded = [r \in Request |-> {}]
    /\ chain = [r \in Request |-> <<>>]
    /\ at = [r \in Request |-> EmbedAt]
    /\ prefill = [r \in Request |-> TRUE]
    /\ h = [r \in Request |-> {}]
    /\ tokens = [r \in Request |-> <<>>]
    /\ acked = [r \in Request |-> [c \in Conn |-> 0]]
    /\ ending = [r \in Request |-> {}]
    /\ issued = {}
    /\ kv = [x \in Conn \X Request \X (0 .. MaxFailovers) \X (1 .. NumLayers) |-> 0]
    /\ rows = [j \in JobId |-> NoRow]
    /\ receipts = [j \in JobId |-> [c \in Conn |-> 0]]
    /\ crashes = 0
    /\ losses = 0

\* A worker announces its stages; its connection enters conns.
Connect(c) ==
    /\ conn[c] = "off"
    /\ conn' = [conn EXCEPT ![c] = "up"]
    /\ UNCHANGED <<load, reputation, pc, taskVars, issued, kv, logVars, crashes>>

\* The worker process dies or its network does: its caches go with it.
Lose(c) ==
    /\ conn[c] = "up"
    /\ conn' = [conn EXCEPT ![c] = "lost"]
    /\ kv' = [x \in DOMAIN kv |-> IF x[1] = c THEN 0 ELSE kv[x]]
    /\ UNCHANGED <<load, reputation, pc, taskVars, issued, logVars, crashes>>

\* The finally clause of node_ws: the connection is popped from conns and the
\* pending futures of its hops fail.
PcLeftPending(c) == pc
PcAfterDisconnect(c) ==
    [r \in Request |-> IF pc[r] = "call" /\ chain[r][at[r]] = c THEN "down" ELSE pc[r]]

Disconnect(c) ==
    /\ conn[c] = "lost"
    /\ conn' = [conn EXCEPT ![c] = "gone"]
    /\ load' = [load EXCEPT ![c] = 0]
    /\ reputation' = [reputation EXCEPT ![c] = RepInitial]
    /\ pc' = PcAfterDisconnect(c)
    /\ UNCHANGED <<taskVars, issued, kv, logVars, crashes>>

-----------------------------------------------------------------------------
(* Accepting a request and waiting for coverage *)

\* _next_id: one counter, so an id is new in this life of the coordinator; it
\* starts again at 0 with the process, so an earlier life may have used it.
AnyIds == JobId
FreshIds == JobId \ issued

Submit(r) ==
    /\ pc[r] = "idle"
    /\ \E j \in FreshIds :
        /\ job' = [job EXCEPT ![r] = j]
        /\ issued' = issued \cup {j}
        /\ Write(CreateJob(rows, j))
    /\ pc' = [pc EXCEPT ![r] = "cover"]
    /\ UNCHANGED <<connVars, attempt, excluded, chain, at, prefill, h, tokens,
                   acked, ending, kv, crashes>>

\* The chains of the nodes a request has not excluded.
AllConns(r) == [c \in Conns |-> Stages[c]]
Candidates(r) == [c \in Conns \ excluded[r] |-> Stages[c]]

Rank == [c \in Conns |-> [reputation |-> reputation[c], speed |-> 0, load |-> load[c]]]

Chains(r) == BuildChain(Candidates(r), NumLayers, Rank)

\* A poll that finds a chain: the row is RUNNING again if the request was
\* parked, and an attempt begins on the chain.
Route(r) ==
    /\ pc[r] \in Waiting
    /\ r \notin Invalid
    /\ \E route \in Chains(r) :
        /\ chain' = [chain EXCEPT ![r] = route]
        /\ load' = [c \in Conn |-> IF \E x \in DOMAIN route : route[x] = c
                                   THEN load[c] + 1 ELSE load[c]]
        /\ IF Len(tokens[r]) < MaxNew[r]
           THEN /\ pc' = [pc EXCEPT ![r] = "call"]
                /\ UNCHANGED ending
           ELSE /\ pc' = [pc EXCEPT ![r] = "end"]
                /\ ending' = [ending EXCEPT ![r] = EndTargets(route)]
    /\ at' = [at EXCEPT ![r] = EmbedAt]
    /\ prefill' = [prefill EXCEPT ![r] = TRUE]
    /\ h' = [h EXCEPT ![r] = {}]
    /\ acked' = [acked EXCEPT ![r] = NoReceipts(r)]
    /\ IF pc[r] = "parked" THEN Write(SetStatus(rows, job[r], "RUNNING"))
                           ELSE UNCHANGED logVars
    /\ UNCHANGED <<conn, reputation, job, attempt, excluded, tokens, issued, kv, crashes>>

\* float() raises in _run_generation: nothing catches it, the load is given
\* back and the client gets a 500.
RouteInvalid(r) ==
    /\ pc[r] \in Waiting
    /\ r \in Invalid
    /\ Chains(r) # {}
    /\ pc' = [pc EXCEPT ![r] = "broken"]
    /\ IF pc[r] = "parked" THEN Write(SetStatus(rows, job[r], "RUNNING"))
                           ELSE UNCHANGED logVars
    /\ UNCHANGED <<connVars, taskVars, issued, kv, crashes>>

\* The first poll that finds none parks the job.
Park(r) ==
    /\ pc[r] = "cover"
    /\ Chains(r) = {}
    /\ pc' = [pc EXCEPT ![r] = "parked"]
    /\ Write(SetStatus(rows, job[r], "WAITING_COVERAGE"))
    /\ UNCHANGED <<connVars, taskVars, issued, kv, crashes>>

\* A later poll that finds none, coverage_timeout after the first.
GiveUp(r) ==
    /\ pc[r] = "parked"
    /\ Chains(r) = {}
    /\ pc' = [pc EXCEPT ![r] = "refused"]
    /\ Write(Fail(rows, job[r]))
    /\ UNCHANGED <<connVars, taskVars, issued, kv, crashes>>

-----------------------------------------------------------------------------
(* One pass over the chain *)

\* _call registers a future at a node of conns and raises _NodeFailure when the
\* node is not there.
Awaiting(c) == IF c \in Conns THEN "call" ELSE "down"

\* What a node does to its caches for the stages of a call: every decoder block
\* appends the input to the cache it keeps for the job.
Decoded(r, span) ==
    LET touched == {CacheOf(r, x) : x \in span \cap Decoders(r)}
    IN  [k \in DOMAIN kv |-> IF k \in touched THEN kv[k] + InputLen(r) ELSE kv[k]]

\* The node runs the call and its reply is acknowledged: the attempt's receipt
\* counts the hop, and the next call is sent.
Reply(r) ==
    LET c == chain[r][at[r]]
    IN  /\ pc[r] = "call"
        /\ conn[c] = "up"
        /\ acked' = [acked EXCEPT ![r][c] = @ + 1]
        /\ \E next \in CallStarts(chain[r], at[r]) :
            /\ \A y \in CallStarts(chain[r], at[r]) : next <= y
            /\ LET span == CallSpan(chain[r], at[r], next)
               IN  /\ kv' = Decoded(r, span)
                   /\ h' = [h EXCEPT ![r] =
                                @ \cup {Decoded(r, span)[CacheOf(r, x)] :
                                        x \in span \cap Decoders(r)}]
            /\ at' = [at EXCEPT ![r] = next]
            /\ pc' = [pc EXCEPT ![r] = IF next = PastHead THEN "choose"
                                       ELSE Awaiting(chain[r][next])]
    /\ UNCHANGED <<connVars, job, attempt, excluded, chain, prefill, tokens, ending,
                   issued, logVars, crashes>>

\* send_bytes raises on a connection whose peer is gone before node_ws knows.
SendFails(r) ==
    /\ pc[r] = "call"
    /\ conn[chain[r][at[r]]] = "lost"
    /\ pc' = [pc EXCEPT ![r] = "down"]
    /\ UNCHANGED <<connVars, taskVars, issued, kv, logVars, crashes>>

\* A stop token ends the generation and is not part of it.
Stop(r) ==
    /\ pc[r] = "choose"
    /\ r \in Sampled \/ Produced(r).index = StopAt[r]
    /\ pc' = [pc EXCEPT ![r] = "end"]
    /\ ending' = [ending EXCEPT ![r] = EndTargets(chain[r])]
    /\ UNCHANGED <<connVars, job, attempt, excluded, chain, at, prefill, h, tokens,
                   acked, issued, kv, logVars, crashes>>

\* Any other token is appended and logged; the next pass feeds it alone.
Emit(r) ==
    /\ pc[r] = "choose"
    /\ r \in Sampled \/ Produced(r).index # StopAt[r]
    /\ tokens' = [tokens EXCEPT ![r] = Append(@, Produced(r))]
    /\ Write(AppendToken(rows, job[r], Produced(r), Len(tokens[r])))
    /\ IF Len(tokens[r]) + 1 < MaxNew[r]
       THEN /\ pc' = [pc EXCEPT ![r] = Awaiting(chain[r][EmbedAt])]
            /\ at' = [at EXCEPT ![r] = EmbedAt]
            /\ prefill' = [prefill EXCEPT ![r] = FALSE]
            /\ h' = [h EXCEPT ![r] = {}]
            /\ UNCHANGED ending
       ELSE /\ pc' = [pc EXCEPT ![r] = "end"]
            /\ ending' = [ending EXCEPT ![r] = EndTargets(chain[r])]
            /\ UNCHANGED <<at, prefill, h>>
    /\ UNCHANGED <<connVars, job, attempt, excluded, chain, acked, issued, kv, crashes>>

-----------------------------------------------------------------------------
(* The ends of an attempt *)

\* The "end" op of one node of the chain; a failing one is swallowed.
EndServed(r, c) ==
    /\ pc[r] = "end"
    /\ c \in ending[r]
    /\ conn[c] = "up"
    /\ ending' = [ending EXCEPT ![r] = @ \ {c}]
    /\ kv' = [k \in DOMAIN kv |->
                IF k[1] = c /\ k[2] = r /\ k[3] = NodeJob(r) THEN 0 ELSE kv[k]]
    /\ UNCHANGED <<connVars, pc, job, attempt, excluded, chain, at, prefill, h, tokens,
                   acked, issued, logVars, crashes>>

EndSkipped(r, c) ==
    /\ pc[r] = "end"
    /\ c \in ending[r]
    /\ conn[c] # "up"
    /\ ending' = [ending EXCEPT ![r] = @ \ {c}]
    /\ UNCHANGED <<connVars, pc, job, attempt, excluded, chain, at, prefill, h, tokens,
                   acked, issued, kv, logVars, crashes>>

\* The success path of _generate_with_failover and the rest of the handler.
Answer(r) ==
    /\ pc[r] = "end"
    /\ ending[r] = {}
    /\ pc' = [pc EXCEPT ![r] = "done"]
    /\ reputation' = Rewarded(r)
    /\ load' = Released(r)
    /\ WriteOutcome(Finish(rows, job[r], tokens[r]),
                    AddReceipts(receipts, job[r], acked[r]))
    /\ UNCHANGED <<conn, taskVars, issued, kv, crashes>>

\* except _NodeFailure: the node is excluded and the next attempt resumes from
\* the log; a read that raises makes it start over.
FailOver(r) ==
    LET c == chain[r][at[r]]
    IN  /\ pc[r] = "down"
        /\ excluded' = [excluded EXCEPT ![r] = @ \cup {c}]
        /\ reputation' = Penalised(c)
        /\ load' = Released(r)
        /\ IF attempt[r] < MaxFailovers
           THEN /\ pc' = [pc EXCEPT ![r] = "cover"]
                /\ attempt' = [attempt EXCEPT ![r] = @ + 1]
                /\ UNCHANGED <<rows, receipts>>
                /\ \/ /\ tokens' = [tokens EXCEPT ![r] = Resumed(r)]
                      /\ UNCHANGED losses
                   \/ /\ losses < MaxLosses
                      /\ losses' = losses + 1
                      /\ tokens' = [tokens EXCEPT ![r] = <<>>]
           ELSE /\ pc' = [pc EXCEPT ![r] = "refused"]
                /\ Write(Fail(rows, job[r]))
                /\ UNCHANGED <<attempt, tokens>>
        /\ UNCHANGED <<conn, job, chain, at, prefill, h, acked, ending, issued, kv, crashes>>

-----------------------------------------------------------------------------
(* A crash of the coordinator and its restart *)

\* The clients lose their connections, the workers exit when their websocket
\* closes, and what is on disk goes through recover() (best effort as well).
Crash ==
    /\ crashes < MaxCrashes
    /\ crashes' = crashes + 1
    /\ conn' = [c \in Conn |-> "off"]
    /\ load' = [c \in Conn |-> 0]
    /\ reputation' = [c \in Conn |-> RepInitial]
    /\ pc' = [r \in Request |-> IF pc[r] \in Running \cup Waiting THEN "cut" ELSE pc[r]]
    /\ issued' = {}
    /\ kv' = [k \in DOMAIN kv |-> 0]
    /\ Write(Recover(rows))
    /\ UNCHANGED taskVars

\* Nothing is in progress: the service waits for clients.
Quiescent ==
    /\ \A r \in Request : pc[r] \in Over \cup {"idle"}
    /\ UNCHANGED vars

Poll(r) == Route(r) \/ RouteInvalid(r) \/ Park(r) \/ GiveUp(r)

End(r) == \E c \in Conn : EndServed(r, c) \/ EndSkipped(r, c)

Task(r) ==
    \/ Submit(r) \/ Poll(r)
    \/ Reply(r) \/ SendFails(r) \/ Stop(r) \/ Emit(r)
    \/ End(r) \/ Answer(r) \/ FailOver(r)

Node(c) == Connect(c) \/ Lose(c) \/ Disconnect(c)

Next ==
    \/ \E r \in Request : Task(r)
    \/ \E c \in Conn : Node(c)
    \/ Crash
    \/ Quiescent

\* The event loop runs every task that can go on, a node that lives finishes
\* what it computes, and the websocket's ping notices a dead peer.
Fairness ==
    /\ \A r \in Request :
        WF_vars(Poll(r) \/ Reply(r) \/ Stop(r) \/ Emit(r) \/ End(r) \/ Answer(r)
                \/ FailOver(r))
    /\ \A c \in Conn : WF_vars(Disconnect(c))

Spec == Init /\ [][Next]_vars

FairSpec == Spec /\ Fairness

-----------------------------------------------------------------------------
(* Properties *)

Row == [status : Statuses, tokens : Seq(Token), result : Seq(Token)]

ConnTypeOK ==
    /\ conn \in [Conn -> {"off", "up", "lost", "gone"}]
    /\ load \in [Conn -> Nat]
    /\ reputation \in [Conn -> 0 .. RepMax]

TaskTypeOK ==
    /\ job \in [Request -> JobId \cup {NoJob}]
    /\ attempt \in [Request -> 0 .. MaxFailovers]
    /\ excluded \in [Request -> SUBSET Conn]
    /\ DOMAIN chain = Request
    /\ \A r \in Request :
        /\ DOMAIN chain[r] \subseteq 0 .. HeadAt(NumLayers)
        /\ ChainConns(r) \subseteq Conn
    /\ at \in [Request -> 0 .. PastHead]
    /\ prefill \in [Request -> BOOLEAN]
    /\ h \in [Request -> SUBSET Nat]
    /\ tokens \in [Request -> Seq(Token)]
    /\ acked \in [Request -> [Conn -> Nat]]
    /\ ending \in [Request -> SUBSET Conn]

LogTypeOK ==
    /\ rows \in [JobId -> Row]
    /\ receipts \in [JobId -> [Conn -> Nat]]
    /\ losses \in 0 .. MaxLosses

\* Every variable holds what its comment says, and no bound is exceeded.
TypeOK ==
    /\ ConnTypeOK
    /\ pc \in [Request -> PC]
    /\ TaskTypeOK
    /\ issued \subseteq JobId
    /\ kv \in [Conn \X Request \X (0 .. MaxFailovers) \X (1 .. NumLayers) -> Nat]
    /\ LogTypeOK
    /\ crashes \in 0 .. MaxCrashes

\* What the code relies on without saying so: a request that was accepted has a
\* job, a new one no history, a running one a whole chain of nodes that did
\* connect, and a call is a call of that chain.
TasksWellFormed ==
    \A r \in Request :
        /\ IF pc[r] = "idle" THEN excluded[r] = {} /\ attempt[r] = 0 ELSE job[r] \in JobId
        /\ pc[r] \in Running =>
            /\ {EmbedAt, HeadAt(NumLayers)} \subseteq DOMAIN chain[r]
            /\ \A c \in ChainConns(r) : conn[c] # "off"
        /\ pc[r] \in {"call", "down"} => at[r] \in DOMAIN chain[r]

\* The load build_chain balances on is the number of running attempts whose
\* chain goes through the node: failovers, disconnects of other nodes and
\* exceptions never leak a count (coordinator.py:248-250 and 271-274).
LoadAccounting ==
    \A c \in Conns :
        load[c] = Cardinality({r \in Request : pc[r] \in Running /\ c \in ChainConns(r)})

\* A failed node is never used again by the request it failed, and every
\* failover the client is told about was the failure of a different node.
FailedNodesStayOut ==
    \A r \in Request :
        /\ pc[r] \in Running => ChainConns(r) \cap excluded[r] = {}
        /\ pc[r] \in Waiting \cup Running \cup {"done"} =>
            Cardinality(excluded[r]) = attempt[r]

\* No task awaits a node that is not in conns: node_ws fails the futures of a
\* connection it pops "instead of leaving them hanging" (coordinator.py:101).
AwaitedNodesPresent ==
    \A r \in Request : pc[r] = "call" => chain[r][at[r]] \in Conns

\* Whatever attempt, resume or interleaving got there, the cache of a decoder
\* block is as long as the cache_position the next call to it carries; blocks
\* the pass has gone through hold the whole context.
CachesFollowPositions ==
    \A r \in Request : pc[r] \in {"call", "choose"} =>
        \A x \in Decoders(r) : conn[chain[r][x]] = "up" =>
            kv[CacheOf(r, x)] = IF x < at[r] THEN StartPosition(r) + InputLen(r)
                                ELSE StartPosition(r)

\* A greedy answer is the output of an uninterrupted run: no token is lost,
\* doubled or computed from the wrong context by a failover.
Reference(r) ==
    [i \in 1 .. (IF StopAt[r] < MaxNew[r] THEN StopAt[r] ELSE MaxNew[r]) |->
        [request |-> r, index |-> i - 1, seeded |-> 0]]

GreedyAnswerIsReference ==
    \A r \in Request \ Sampled : pc[r] = "done" => tokens[r] = Reference(r)

\* The job log against the tasks, while no write is lost: the row says parked
\* exactly when its request is, holds the tokens produced so far, and when the
\* client has its answer it holds that answer.
RowTracksRequest ==
    \A r \in Request :
        LET row == rows[job[r]]
        IN  /\ pc[r] \in Running \cup {"cover"} => row.status = "RUNNING"
            /\ pc[r] = "parked" => row.status = "WAITING_COVERAGE"
            /\ pc[r] \in Running \cup Waiting => row.tokens = tokens[r]
            /\ pc[r] = "done" =>
                /\ row.status = "DONE"
                /\ row.tokens = tokens[r]
                /\ row.result = tokens[r]
            /\ pc[r] = "refused" => row.status = "FAILED"

\* The receipts of a job name the nodes of the attempt that won and no node
\* that failed it (unless it asked for no token).
ReceiptsNameWinners ==
    \A r \in Request : pc[r] = "done" /\ MaxNew[r] > 0 =>
        /\ {c \in Conn : receipts[job[r]][c] > 0} = ChainConns(r)
        /\ \A c \in excluded[r] : receipts[job[r]][c] = 0

\* What the client was told, the job log says as well.
LogTracksRequest == RowTracksRequest /\ ReceiptsNameWinners

\* While no write is lost, every row in progress has a request behind it, across
\* crashes and restarts (a 500 leaves its row behind until the next one).
NoOrphanRow ==
    losses = 0 =>
        \A j \in JobId : rows[j].status \in {"RUNNING", "WAITING_COVERAGE"} =>
            \E r \in Request : job[r] = j /\ pc[r] \in Running \cup Waiting \cup {"broken"}

\* A complete generation leaves no cache at the nodes of its chain.
WinnerCachesReleased ==
    \A r \in Request : pc[r] = "done" =>
        \A x \in Decoders(r) : kv[CacheOf(r, x)] = 0

\* A row that is DONE or FAILED is never written again by this coordinator.
TerminalRowsFrozen ==
    [][\A j \in JobId : rows[j].status \in Terminal => rows'[j] = rows[j]]_vars

-----------------------------------------------------------------------------
(* Refinement: what a client sees of a coordinator that loses no write *)

Phase(r) == IF pc[r] \in Running \cup Waiting THEN "working" ELSE pc[r]

Service == INSTANCE GenerationService
            WITH phase <- [r \in Request |-> Phase(r)], output <- tokens

\* Failovers, parking and resuming are invisible: a client's request goes
\* through the steps of a single uninterrupted generation, and ends.
ImplementsService == Service!Spec

=============================================================================
