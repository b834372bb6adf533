--------------------------- MODULE PeerInference ---------------------------
(***************************************************************************)
(* Generation without a coordinator: the block servers of                  *)
(* eujeno/net/server.py and what drives them over HTTP, the chat entry of  *)
(* a node (v1_chat with net/generation.py) and the `infer --peer` client   *)
(* (distributed_generate_resilient of net/orchestrator.py).                *)
(*                                                                         *)
(* A chain, a token and the length of a cache are what they are in         *)
(* Coordinator.  A server computes in its event loop, so a call is one     *)
(* action; one that its caller gave up on may have been computed or not.   *)
(***************************************************************************)
EXTENDS Integers, Sequences, FiniteSets, JobStore, Discovery, Progress

CONSTANTS
    Client,       \* the requests
    Entry,        \* those to /v1/chat/completions of a node; the others are
                  \* runs of `infer --peer`
    Home,         \* the node of each request of Entry
    Node,         \* the block servers, by url
    NumLayers,    \* decoder layers of the model
    Stages,       \* what each node serves (see Discovery)
    MaxNew,       \* max_new_tokens of each request
    StopAt,       \* where the output of each request reaches a stop token
    MaxFailovers, \* max_failovers, 5 in the code
    MaxStops,     \* bound: nodes that stop
    MaxUpsets,    \* bound: calls that fail at a node that runs, killed clients
    MaxLosses     \* bound: writes of a job log that raise

\* Operators named as a slip of another one (AllKnown for Candidates, ...) are
\* used by no action: they show that the properties notice the slip.

ASSUME ClientAssumption ==
    /\ IsFiniteSet(Client)
    /\ Entry \subseteq Client
    /\ Home \in [Entry -> Node]
    /\ MaxNew \in [Client -> Nat]
    /\ StopAt \in [Client -> Nat]

ASSUME NodeAssumption ==
    /\ IsFiniteSet(Node)
    /\ NumLayers \in Nat \ {0}
    /\ Stages \in [Node -> [embed : BOOLEAN, head : BOOLEAN, decoders : SUBSET (Nat \X Nat)]]
    /\ \A n \in Node : IsFiniteSet(Stages[n].decoders)

ASSUME BoundAssumption ==
    MaxFailovers \in Nat /\ MaxStops \in Nat /\ MaxUpsets \in Nat /\ MaxLosses \in Nat

\* The prompts are one token long: all the code uses is that they are not empty.
PromptLen == 1

VARIABLES
    \* the nodes: those that run, and their caches, the length of each by
    \* <<node, job id, block>> (0 for none)
    up, kv,
    \* the requests; known is the registry an `infer --peer` works with
    pc, known, attempt, excluded, chain, at, prefill, h, tokens, ending,
    acked,          \* the receipts of a request at an entry so far
    rows, receipts, \* the job logs of the entries
    forgot,         \* history: a node that held caches of the running attempt stopped
    stops, upsets, losses  \* bounds

attemptVars == <<chain, at, prefill, h, tokens, ending, acked>>
planVars == <<known, attempt, excluded>>
logVars == <<rows, receipts, losses>>
vars == <<up, kv, pc, planVars, attemptVars, logVars, forgot, stops, upsets>>

\* idle    not asked yet                 cover  looking for a chain
\* call    awaiting the reply of a hop   choose the head's reply is there
\* end     deleting the job at its nodes
\* done, refused, cut: answered, an error, its driver died
Running == {"call", "choose", "end"}
Over == {"done", "refused", "cut"}
PC == {"idle", "cover"} \cup Running \cup Over

Upset == upsets < MaxUpsets /\ upsets' = upsets + 1

Write(newRows, newReceipts) ==
    \/ rows' = newRows /\ receipts' = newReceipts /\ UNCHANGED losses
    \/ /\ losses < MaxLosses /\ losses' = losses + 1
       /\ \/ rows' = newRows /\ UNCHANGED receipts
          \/ receipts' = newReceipts /\ UNCHANGED rows

-----------------------------------------------------------------------------
(* A request and its caches *)

\* A chat entry's ids are new for ever (a uuid of the process and a counter); an
\* `infer --peer` numbers its attempts "job0", "job1", ... like any other one.
JobOf(c) == IF c \in Entry THEN <<"entry", c>> ELSE <<"job", attempt[c]>>

JobIds == ({"entry"} \X Entry) \cup ({"job"} \X (0 .. MaxFailovers))

CacheOf(c, x) == <<chain[c][x], JobOf(c), x>>

Decoders(c) == DOMAIN chain[c] \ {EmbedAt, HeadAt(NumLayers)}

ChainNodes(c) == {chain[c][x] : x \in DOMAIN chain[c]}

\* The prompt and the tokens so far, or one token, and where its positions start.
InputLenWithoutResumed(c) == 1
InputLen(c) == IF prefill[c] THEN PromptLen + Len(tokens[c]) ELSE 1

\* A decoder block appends its input to the cache of its job.
Decoded(c) ==
    IF at[c] \in Decoders(c) THEN [kv EXCEPT ![CacheOf(c, at[c])] = @ + InputLen(c)]
    ELSE kv

\* Blocks whose caches hold the prompt and the i tokens before yield token i of
\* the output; blocks that hold anything else yield anything, here index -1.
Produced(c) ==
    [request |-> c,
     index   |-> IF h[c] = {PromptLen + Len(tokens[c])} THEN Len(tokens[c]) ELSE -1]

Token == [request : Client, index : Int]

\* Measured speeds and the order of a dictionary rank the holders of a stage.
Chains(nodes) ==
    BuildChain([n \in nodes |-> Stages[n]], NumLayers,
               [n \in nodes |-> [reputation |-> 0, speed |-> 0, load |-> 0]])

AllKnown(c) == known[c]
Candidates(c) == known[c] \ excluded[c]

-----------------------------------------------------------------------------
(* Asking *)

Init ==
    /\ up = Node
    /\ kv = [x \in Node \X JobIds \X (1 .. NumLayers) |-> 0]
    /\ pc = [c \in Client |-> "idle"]
    /\ known = [c \in Client |-> {}]
    /\ attempt = [c \in Client |-> 0]
    /\ excluded = [c \in Client |-> {}]
    /\ chain = [c \in Client |-> <<>>]
    /\ at = [c \in Client |-> EmbedAt]
    /\ prefill = [c \in Client |-> TRUE]
    /\ h = [c \in Client |-> {}]
    /\ tokens = [c \in Client |-> <<>>]
    /\ ending = [c \in Client |-> {}]
    /\ acked = [c \in Entry |-> [n \in Node |-> 0]]
    /\ rows = [c \in Entry |-> NoRow]
    /\ receipts = [c \in Entry |-> [n \in Node |-> 0]]
    /\ forgot = [c \in Client |-> FALSE]
    /\ stops = 0 /\ upsets = 0 /\ losses = 0

\* The urls from which the job is deleted when the generation is complete.
EndsOfRoute(route) == {route[EmbedAt], route[HeadAt(NumLayers)]}
EndTargets(route) == {route[x] : x \in DOMAIN route}

\* An attempt on a chain, fed the prompt and what was produced before.
Begin(c, route) ==
    /\ chain' = [chain EXCEPT ![c] = route]
    /\ at' = [at EXCEPT ![c] = EmbedAt]
    /\ prefill' = [prefill EXCEPT ![c] = TRUE]
    /\ h' = [h EXCEPT ![c] = {}]
    /\ IF Len(tokens[c]) < MaxNew[c]
       THEN pc' = [pc EXCEPT ![c] = "call"] /\ UNCHANGED ending
       ELSE /\ pc' = [pc EXCEPT ![c] = "end"]
            /\ ending' = [ending EXCEPT ![c] = EndTargets(route)]
    /\ UNCHANGED <<tokens, acked>>

\* v1_chat: the chain comes from the node's own registry, which lists itself;
\* dead nodes may be listed still, live ones not yet (module Gossip).
Chat(c) ==
    /\ c \in Entry /\ pc[c] = "idle"
    /\ Home[c] \in up
    /\ \E nodes \in SUBSET Node : Home[c] \in nodes /\
        \/ /\ \E route \in Chains(nodes) : Begin(c, route)
           /\ Write(CreateJob(rows, c), receipts)
        \/ /\ Chains(nodes) = {}
           /\ pc' = [pc EXCEPT ![c] = "refused"]
           /\ UNCHANGED <<attemptVars, logVars>>
    /\ UNCHANGED <<up, kv, planVars, forgot, stops, upsets>>

\* `infer --peer` reads the registry of its peer.
Infer(c) ==
    /\ c \notin Entry /\ pc[c] = "idle"
    /\ \E nodes \in SUBSET Node : known' = [known EXCEPT ![c] = nodes]
    /\ pc' = [pc EXCEPT ![c] = "cover"]
    /\ UNCHANGED <<up, kv, attempt, excluded, attemptVars, logVars, forgot, stops, upsets>>

\* _resolve_chain: build_chain on what is known, ...
Resolve(c) ==
    /\ pc[c] = "cover"
    /\ \E route \in Chains(Candidates(c)) : Begin(c, route)
    /\ UNCHANGED <<up, kv, planVars, logVars, forgot, stops, upsets>>

\* ... without a chain a new look at the registry before the deadline, ...
Refresh(c) ==
    /\ pc[c] = "cover"
    /\ Chains(Candidates(c)) = {}
    /\ \E nodes \in SUBSET Node \ {{}} : known' = [known EXCEPT ![c] = nodes]
    /\ UNCHANGED <<up, kv, pc, attempt, excluded, attemptVars, logVars, forgot, stops, upsets>>

\* ... and an error after it.
GiveUp(c) ==
    /\ pc[c] = "cover"
    /\ Chains(Candidates(c)) = {}
    /\ pc' = [pc EXCEPT ![c] = "refused"]
    /\ UNCHANGED <<up, kv, planVars, attemptVars, logVars, forgot, stops, upsets>>

-----------------------------------------------------------------------------
(* One pass over the chain *)

\* Only a chat entry keeps receipts.
Acked(c) ==
    IF c \in Entry THEN [acked EXCEPT ![c][chain[c][at[c]]] = @ + 1] ELSE acked

\* A hop that is answered.
Hop(c) ==
    /\ pc[c] = "call"
    /\ chain[c][at[c]] \in up
    /\ kv' = Decoded(c)
    /\ h' = [h EXCEPT ![c] = IF at[c] \in Decoders(c) THEN @ \cup {kv'[CacheOf(c, at[c])]} ELSE @]
    /\ acked' = Acked(c)
    /\ IF at[c] = HeadAt(NumLayers)
       THEN pc' = [pc EXCEPT ![c] = "choose"] /\ UNCHANGED at
       ELSE /\ at' = [at EXCEPT ![c] =
                        CHOOSE y \in DOMAIN chain[c] : y > at[c] /\
                            \A z \in DOMAIN chain[c] : z > at[c] => y <= z]
            /\ UNCHANGED pc
    /\ UNCHANGED <<up, planVars, chain, prefill, tokens, ending, logVars, forgot, stops, upsets>>

\* The chat entry reports the failure; its nodes keep the caches of the job.
ChatFails(c) ==
    /\ c \in Entry
    /\ pc' = [pc EXCEPT ![c] = "refused"]
    /\ Write(Fail(rows, c), AddReceipts(receipts, c, acked'[c]))
    /\ UNCHANGED <<attempt, excluded>>

InferTriesForever(c) ==
    /\ c \notin Entry
    /\ pc' = [pc EXCEPT ![c] = "cover"]
    /\ UNCHANGED <<attempt, excluded, logVars>>

InferFailsOverOnceMore(c) ==
    /\ c \notin Entry
    /\ excluded' = [excluded EXCEPT ![c] = @ \cup {chain[c][at[c]]}]
    /\ IF attempt[c] <= MaxFailovers
       THEN /\ attempt' = [attempt EXCEPT ![c] = @ + 1]
            /\ pc' = [pc EXCEPT ![c] = "cover"]
       ELSE pc' = [pc EXCEPT ![c] = "refused"] /\ UNCHANGED attempt
    /\ UNCHANGED logVars

\* The client leaves the node out and tries again, from the tokens it has.
InferFailsOver(c) ==
    /\ c \notin Entry
    /\ excluded' = [excluded EXCEPT ![c] = @ \cup {chain[c][at[c]]}]
    /\ IF attempt[c] < MaxFailovers
       THEN /\ attempt' = [attempt EXCEPT ![c] = @ + 1]
            /\ pc' = [pc EXCEPT ![c] = "cover"]
       ELSE pc' = [pc EXCEPT ![c] = "refused"] /\ UNCHANGED attempt
    /\ UNCHANGED logVars

\* A hop that fails: the node is gone, or it runs and the call times out or is
\* answered with an error (which a receipt counts like any other answer).
HopFails(c) ==
    /\ pc[c] = "call"
    /\ \/ chain[c][at[c]] \notin up /\ UNCHANGED <<kv, acked, upsets>>
       \/ /\ chain[c][at[c]] \in up /\ Upset
          /\ \/ kv' \in {kv, Decoded(c)} /\ UNCHANGED acked
             \/ UNCHANGED kv /\ acked' = Acked(c)
    /\ ChatFails(c) \/ InferFailsOver(c)
    /\ UNCHANGED <<up, known, chain, at, prefill, h, tokens, ending, forgot, stops>>

\* generate_tokens raises on a sampling value that is no number.
ChatRejected(c) ==
    /\ pc[c] = "call"
    /\ prefill[c] /\ at[c] = EmbedAt
    /\ UNCHANGED <<up, kv, known, attemptVars, forgot, stops, upsets>>
    /\ ChatFails(c)

\* A stop token ends the generation and is not part of it.
Stop(c) ==
    /\ pc[c] = "choose"
    /\ Produced(c).index = StopAt[c]
    /\ pc' = [pc EXCEPT ![c] = "end"]
    /\ ending' = [ending EXCEPT ![c] = EndTargets(chain[c])]
    /\ UNCHANGED <<up, kv, planVars, chain, at, prefill, h, tokens, acked, logVars,
                   forgot, stops, upsets>>

Emit(c) ==
    /\ pc[c] = "choose"
    /\ Produced(c).index # StopAt[c]
    /\ tokens' = [tokens EXCEPT ![c] = Append(@, Produced(c))]
    /\ IF Len(tokens[c]) + 1 < MaxNew[c]
       THEN /\ pc' = [pc EXCEPT ![c] = "call"]
            /\ at' = [at EXCEPT ![c] = EmbedAt]
            /\ prefill' = [prefill EXCEPT ![c] = FALSE]
            /\ h' = [h EXCEPT ![c] = {}]
            /\ UNCHANGED ending
       ELSE /\ pc' = [pc EXCEPT ![c] = "end"]
            /\ ending' = [ending EXCEPT ![c] = EndTargets(chain[c])]
            /\ UNCHANGED <<at, prefill, h>>
    /\ UNCHANGED <<up, kv, planVars, chain, acked, logVars, forgot, stops, upsets>>

-----------------------------------------------------------------------------
(* The end of a request *)

\* DELETE /job/{id} at one node of the chain; a failing one is swallowed.
EndJob(c, n) ==
    /\ pc[c] = "end"
    /\ n \in ending[c]
    /\ ending' = [ending EXCEPT ![c] = @ \ {n}]
    /\ \/ /\ n \in up
          /\ kv' = [x \in DOMAIN kv |-> IF x[1] = n /\ x[2] = JobOf(c) THEN 0 ELSE kv[x]]
          /\ UNCHANGED upsets
       \/ n \notin up /\ UNCHANGED <<kv, upsets>>
       \/ n \in up /\ Upset /\ UNCHANGED kv
    /\ UNCHANGED <<up, pc, planVars, chain, at, prefill, h, tokens, acked, logVars,
                   forgot, stops>>

Answer(c) ==
    /\ pc[c] = "end"
    /\ ending[c] = {}
    /\ pc' = [pc EXCEPT ![c] = "done"]
    /\ IF c \in Entry
       THEN Write(Finish(rows, c, tokens[c]), AddReceipts(receipts, c, acked[c]))
       ELSE UNCHANGED logVars
    /\ UNCHANGED <<up, kv, planVars, attemptVars, forgot, stops, upsets>>

\* The user interrupts `infer --peer`: nothing is deleted anywhere.
Kill(c) ==
    /\ c \notin Entry
    /\ pc[c] \in {"cover"} \cup Running
    /\ Upset
    /\ pc' = [pc EXCEPT ![c] = "cut"]
    /\ UNCHANGED <<up, kv, planVars, attemptVars, logVars, forgot, stops>>

-----------------------------------------------------------------------------
(* The life of a node *)

HoldsCaches(c, n) ==
    pc[c] \in {"call", "choose"} /\ \E x \in Decoders(c) : chain[c][x] = n /\ kv[CacheOf(c, x)] > 0

\* Its caches and the requests it drives go with it; its log is on disk
\* (serve --db; without it the log is lost with the rest).
StopNode(n) ==
    /\ n \in up
    /\ stops < MaxStops
    /\ stops' = stops + 1
    /\ up' = up \ {n}
    /\ kv' = [x \in DOMAIN kv |-> IF x[1] = n THEN 0 ELSE kv[x]]
    /\ pc' = [c \in Client |->
                IF c \in Entry /\ pc[c] \in Running /\ Home[c] = n THEN "cut" ELSE pc[c]]
    /\ forgot' = [c \in Client |-> forgot[c] \/ HoldsCaches(c, n)]
    /\ UNCHANGED <<planVars, attemptVars, logVars, upsets>>

\* It starts with the log it left and recovers it.
StartNode(n) ==
    /\ n \notin up
    /\ up' = up \cup {n}
    /\ Write([c \in Entry |-> IF Home[c] = n THEN Recover(rows)[c] ELSE rows[c]], receipts)
    /\ UNCHANGED <<kv, pc, planVars, attemptVars, forgot, stops, upsets>>

Quiescent ==
    /\ \A c \in Client : pc[c] \in {"idle"} \cup Over
    /\ UNCHANGED vars

Drive(c) ==
    \/ Resolve(c) \/ Hop(c) \/ HopFails(c) \/ Stop(c) \/ Emit(c) \/ Answer(c)
    \/ \E n \in Node : EndJob(c, n)

Next ==
    \/ \E c \in Client : \/ Chat(c) \/ Infer(c) \/ Refresh(c) \/ GiveUp(c) \/ Drive(c)
                         \/ ChatRejected(c) \/ Kill(c)
    \/ \E n \in Node : StopNode(n) \/ StartNode(n)
    \/ Quiescent

\* A driver that runs goes on (every call has a timeout), and the deadline of
\* --wait-coverage passes.
Fairness == \A c \in Client : WF_vars(Drive(c)) /\ WF_vars(GiveUp(c))

Spec == Init /\ [][Next]_vars

FairSpec == Spec /\ Fairness

-----------------------------------------------------------------------------
(* Properties *)

Row == [status : Statuses, tokens : Seq(Token), result : Seq(Token)]

NodeTypeOK ==
    /\ up \subseteq Node
    /\ kv \in [Node \X JobIds \X (1 .. NumLayers) -> Nat]

PlanTypeOK ==
    /\ known \in [Client -> SUBSET Node]
    /\ attempt \in [Client -> 0 .. MaxFailovers]
    /\ excluded \in [Client -> SUBSET Node]

AttemptTypeOK ==
    /\ DOMAIN chain = Client
    /\ \A c \in Client :
        DOMAIN chain[c] \subseteq 0 .. HeadAt(NumLayers) /\ ChainNodes(c) \subseteq Node
    /\ at \in [Client -> 0 .. HeadAt(NumLayers)]
    /\ prefill \in [Client -> BOOLEAN]
    /\ h \in [Client -> SUBSET Nat]
    /\ tokens \in [Client -> Seq(Token)]
    /\ \A c \in Client : Len(tokens[c]) <= MaxNew[c]
    /\ ending \in [Client -> SUBSET Node]
    /\ acked \in [Entry -> [Node -> Nat]]

LogTypeOK ==
    /\ rows \in [Entry -> Row]
    /\ receipts \in [Entry -> [Node -> Nat]]
    /\ losses \in 0 .. MaxLosses

\* Every variable holds what its comment says, and no bound is exceeded.
TypeOK ==
    /\ NodeTypeOK
    /\ pc \in [Client -> PC]
    /\ PlanTypeOK
    /\ AttemptTypeOK
    /\ LogTypeOK
    /\ forgot \in [Client -> BOOLEAN]
    /\ stops \in 0 .. MaxStops /\ upsets \in 0 .. MaxUpsets

Reference(c) ==
    [i \in 1 .. (IF StopAt[c] < MaxNew[c] THEN StopAt[c] ELSE MaxNew[c]) |->
        [request |-> c, index |-> i - 1]]

\* An answer is the output of an uninterrupted run, whatever hops failed and
\* whoever else generates on the same nodes; except when a node that held
\* caches of the attempt stopped: if it is back before its next hop, it
\* computes with empty caches and nobody notices.
AnswerIsReference ==
    \A c \in Client : pc[c] = "done" /\ ~forgot[c] => tokens[c] = Reference(c)

\* "prefill prompt + tokens_so_far (fresh `job_id`) to rebuild the peers' KV"
\* (specs/superpowers/specs/2026-06-20-p2pa-failover-design.md:14): a node that
\* is fed the start of an attempt has no cache of its job id.
JobIdsAreFresh ==
    \A c \in Client : pc[c] = "call" /\ prefill[c] =>
        \A x \in Decoders(c) : x >= at[c] => kv[CacheOf(c, x)] = 0

\* A node that failed an `infer --peer` is in no later chain of it, and the
\* failovers it reports are those of different nodes.
FailedPeersStayOut ==
    \A c \in Client \ Entry :
        /\ pc[c] \in Running => ChainNodes(c) \cap excluded[c] = {}
        /\ pc[c] \in {"cover", "done"} \cup Running => Cardinality(excluded[c]) = attempt[c]

\* While no write is lost, the row of a chat says what became of it, also after
\* its node stopped and started again.
RowsTellOutcome ==
    losses = 0 => \A c \in Entry :
        /\ pc[c] \in Running => rows[c].status = "RUNNING"
        /\ pc[c] = "done" => rows[c].status = "DONE" /\ rows[c].result = tokens[c]
        /\ pc[c] = "refused" => rows[c].status \in {"NONE", "FAILED"}
        /\ pc[c] = "cut" /\ Home[c] \in up => rows[c].status = "INTERRUPTED"

\* The receipts of an answered chat count every stage of every pass once.
ReceiptsCountHops ==
    losses = 0 => \A c \in Entry : pc[c] = "done" => \A n \in Node :
        receipts[c][n] =
            Cardinality({x \in DOMAIN chain[c] : chain[c][x] = n})
                * (Len(tokens[c]) + (IF Len(tokens[c]) < MaxNew[c] THEN 1 ELSE 0))

\* The job log of a node that has a chat tells how it went and who worked for it.
LogTellsOutcome == RowsTellOutcome /\ ReceiptsCountHops

\* While every DELETE that reached a node was answered, an answered request has
\* left no cache of its last job on any node of the network.
AnsweredLeaveNoCache ==
    upsets = 0 => \A c \in Client : pc[c] = "done" =>
        \A n \in Node, x \in 1 .. NumLayers : kv[<<n, JobOf(c), x>>] = 0

\* What a request has left: failovers, the phases of an attempt, tokens, and the
\* hops of a pass or the nodes at which the job is to be deleted.
PhasesLeft(c) ==
    CASE pc[c] = "idle" -> 4
      [] pc[c] = "cover" -> 3
      [] pc[c] \in {"call", "choose"} -> 2
      [] pc[c] = "end" -> 1
      [] pc[c] \in Over -> 0

CallsLeft(c) ==
    CASE pc[c] = "call" -> HeadAt(NumLayers) + 1 - at[c]
      [] pc[c] = "end" -> Cardinality(ending[c])
      [] OTHER -> 0

Left(c) ==
    <<MaxFailovers - attempt[c], PhasesLeft(c), MaxNew[c] - Len(tokens[c]), CallsLeft(c)>>

\* Nothing sends a request back: each step of its driver leaves it less to do, and
\* what other requests, nodes and failures do leaves it no more.
RequestsAdvance ==
    [][\A c \in Client :
        /\ Left(c)' = Left(c) \/ Less(Left(c)', Left(c))
        /\ Drive(c) \/ GiveUp(c) => Less(Left(c)', Left(c))]_vars

\* Whoever asks gets an answer or an error, or dies.
EveryRequestEnds ==
    \A c \in Client : (pc[c] \in {"cover"} \cup Running) ~> (pc[c] \in Over)

=============================================================================
