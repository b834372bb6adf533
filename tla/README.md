# eujeno: a TLA+ model of the swarm

Eujeno serves one language model from many machines. Each machine holds some
*stages* of the model (the embedding, ranges of decoder layers, the head), and a
token is one pass of an activation over a *chain* of machines that together hold
all of it. This directory models how the swarm assembles itself, how a request
survives machines that come and go, what is logged of it, how the
decentralised nodes learn of each other, and what the front-ends make of it. Paths below are relative to the
repository's source tree; lines are those of the commit the model was written from.

Contents: [inventory](#inventory) - [modules](#modules) - [runs](#runs) -
[findings](#findings) - [fairness](#fairness) - [proofs](#proofs) -
[what is not modelled](#what-is-not-modelled) - [plan](#plan)

## Inventory

| component | state | operations | interacts with |
|---|---|---|---|
| **Coordinator relay** `eujeno/net/coordinator.py` | `conns` (sockets, announced stages, load, reputation, pending futures), the id counter, one asyncio task per request | `node_ws`, `infer`, `chat_completions`, `_generate_with_failover`, `_await_coverage`, `_run_generation`, `_call` | workers over a websocket, job store, chain building |
| **Job store** `eujeno/net/jobstore.py` | SQLite tables `jobs` and `receipts` | `create_job`, `append_token`, `set_status`, `finish`, `fail`, `recover`, `add_receipts` | coordinator, P2P server |
| **Worker node** `eujeno/net/node.py`, `node_exec.py` | KV caches per job and block | ops `embed`, `decode`, `head`, `chain`, `end` | coordinator |
| **Chain building** `discovery.py:55-90` | none | `build_chain` | everyone who routes |
| **Coverage and allocation** `discovery.py:93-118`, `allocator.py`, `capacity.py`, `cli.py:74-93,344-421` | what each `serve --auto` has claimed | `coverage_gaps`, `choose_stages`, `plan_auto_stages` | a registry |
| **Gossip registry** `discovery.py:7-52`, `server.py:29-59,106-142,295-329` | `entries` (url, advert with heartbeat, expiry) of every node, the gossip thread | `upsert`, `merge`, `prune`, a gossip round, `POST /registry`, restart | other nodes over HTTP |
| **P2P block server and chat entry** `server.py`, `generation.py` | `jobs` (KV caches), its own job store, metrics | `/embed`, `/decode`, `/head`, `DELETE /job`, `v1_chat` | other block servers |
| **Resilient client** `orchestrator.py` | one generation | `distributed_generate_resilient` | block servers, a registry |
| Model blocks, masks, caches `eujeno/model` | tensors | `run_block` | workers, block servers |
| MLX backend `model/mlx_backend.py` | one cache per job | the node ops | coordinator |
| Metrics `metrics.py` | moving averages, a throughput window | `observe_*`, `record_job`, `retain`, `speed_map` | P2P server |
| **Node configuration** `nodeconfig.py` | `_data` (identity and settings) and a JSON file | start, `get`, `update`, `_save` | P2P server, settings page |
| MCP configuration `mcp_config.py` | a shared JSON file | add, remove | UI, CLI |
| UI backend `eujeno/ui` | the node process, MCP clients | start, stop, the tool loop | block server, MCP servers |
| Sampling, tools, framing, wire, payload, topology, config, loader | none | pure functions and I/O | |
| Command line `cli.py` | none | starts the above | |
| **Go launcher** `launcher/main.go` | the launcher, uv, the virtualenv and the stamp, as files | `run`, `bootstrap`, `selfUpdate` | GitHub releases, uv |
| **Dashboard of a node** `app/src` | React state of the app and of one page at a time, timers, calls under way, `localStorage` | polls of `/api/node`, `/api/metrics`, `/api/peers`; chat, settings, restart button, animation, theme | P2P server over HTTP |
| **Landing page** `web/src` | the section, the chosen system, the copy button, the animation | links, tiles, copying | the browser |

### What is hard, and what makes each part correct

* **Relay.** Many requests share few workers; any worker may go between a send and
  its reply, between two hops, or be dead without `node_ws` knowing. A failover must
  leave out the node that failed, resume from the tokens already logged, feed them at
  the right cache positions of nodes that may hold caches of the failed attempt, and
  give back exactly the load it took. Correct: a greedy answer is the one an
  uninterrupted run gives; loads are exact; failed nodes stay out; nobody waits for a
  node that is not there; every request ends.
* **Job log.** Writes are best effort (`_store_safe`), the process may crash between
  any two, and the ids of jobs start again with it. Correct: the row tracks the
  request, terminal rows are frozen, nothing is left in progress after a restart,
  receipts name the nodes that did the work.
* **Allocation.** A node claims what looked free when it read the registry, loads for
  minutes, and announces after that. Correct: claims fit the machine, do not overlap,
  and what covers the model also serves it.
* **Gossip.** Copies of an entry are relayed and expire by clocks read at different
  times; rounds take as long as their slowest call; two threads of a node stamp and list its
  adverts, with a lock around the stamp only. Correct: whoever is up is found,
  whoever is gone is forgotten, a node never loses its own entry.
* **P2P generation.** A chat entry or a client drives other nodes' caches by job id, and those
  nodes may stop, answer late or restart. Correct: answers are those of an uninterrupted run,
  ids are fresh, an answered request leaves no cache, the log says what happened.
* **Dashboard.** A call outlives the page that made it; polls overlap and are applied as they
  arrive; timers are never cancelled; a page is mounted again while its predecessor's calls are
  still out; the node stops, forgets what it could not write, and comes back. Correct: an answer
  is never under another question, nothing typed or saved is lost without a failure, every wait
  and every message ends, the animation moves along the mesh it drew, and the page comes to show
  what is the case.
* **Launcher.** Files are downloaded, written, removed and renamed without a lock, and any step
  may be cut half way. Correct: the launcher itself never goes missing, the stamp names what
  is installed, commands run their own release, a retry heals what a cut left.

`PROJECT.json` lists each hazard at its line with the properties that catch it.

## Modules

```
Discovery   JobStore                    GenerationService (abstract)
    |    \     |                               ^
    |     \    |                               | refinement
    |     Coordinator  <-- MCCoordinator ------+
    |          ^
    |          +---------- CoordinatorProofs <- GenerationProofs
    +--------------------- DiscoveryProofs (used by the proofs of everyone who routes; on Progress)
AutoAllocation <---------- MCAutoAllocation,  AllocationProofs
Gossip         <---------- MCGossip,          GossipProofs
PeerInference  <---------- MCPeerInference,   PeerInferenceProofs   (on Discovery, JobStore and Progress)
Launcher       <---------- LauncherProofs

NodeConfig <--- SettingsPage <-----+
     ^                             |
     +--------- NetworkPage <------+--- NodeApp <--+
SwarmCanvas <---+                  |               +--- FrontEnds <--- MCFrontEnds
     ^          ChatPage <---------+               |        ^
     +----------------------------------- Site <---+  FrontEndProofs
```

### `Coordinator` (with `JobStore` and `Discovery`)

The coordinator is one asyncio event loop, so an action is the code a task runs from
one `await` to the next; a worker's computation and its reply are one action too,
because nobody else sees the worker's caches of that job.

| model | code |
|---|---|
| `conn[c]` = off, up, lost, gone | a worker before it announces; in `conns` and alive; in `conns` but dead; popped by `node_ws` |
| `load`, `reputation` | the fields of `_Conn` (reputation in halves) |
| `pc[r]` = cover, parked | the loop of `_await_coverage`, before the first and between later polls |
| `pc[r]` = call, down, choose, end | in `_call`; after its `_NodeFailure`; at lines 198-204; sending the end ops |
| `pc[r]` = done, refused, broken, cut | answered; an error answer; a 500; cut by a crash |
| `tokens`, `at`, `prefill`, `acked`, `excluded`, `attempt`, `chain` | the locals of `_generate_with_failover` and `_run_generation` |
| `kv[<<c, r, a, x>>]` | the length of worker `c`'s cache for attempt `a` of `r` and the block at `x` (node job ids carry the attempt, lines 252-254) |
| `h[r]` | which context lengths the activation was computed with: how the model tells a right token from a wrong one |
| `rows`, `receipts` | the tables of the job log |

`Connect`/`Lose`/`Disconnect` are a worker's life (`node_ws`; a worker process exits when
its socket closes, so a worker that returns is a new `Conn`). `Submit`, `Route`,
`RouteInvalid`, `Park`, `GiveUp` are the handler until an attempt begins; `Reply`,
`SendFails`, `Stop`, `Emit` a pass over the chain; `EndServed`, `EndSkipped`, `Answer`,
`FailOver` its ends; `Crash` is a crash and restart of the coordinator with `recover()`.
Every write goes through `Write`, which may be lost as `_store_safe` loses it.

The data is abstracted to what the properties tell apart. A token is
`[request, index, seeded]`: token `index` of the request's reference output, for a
sampled request with the attempt whose generator drew it. `Produced` yields it from
what the caches really held, so a pass over caches of the wrong length yields a wrong
token. `BuildChain` breaks ties in every way. Sampling values are either accepted or
rejected by `float()` (`Invalid`).

`GenerationService` is what a client is promised: one uninterrupted generation that ends.
`Coordinator!Service` maps the detailed state to it (`phase` forgets where a task is,
`output` is `tokens`), and the run *service* checks `ImplementsService`, liveness included.

### `AutoAllocation`

`Read` is `plan_auto_stages` on the registry (coverage gaps, then `ChooseStages`);
`ReadFails` the path that claims "from RAM only" after five failed reads; `Announce` the
end of loading; `Leave` any exit. The registry is exact: its own delays are `Gossip`'s
subject. `orderly` is a history variable: whether every claim so far was computed when
nobody was loading. `Fits` stands for `capacity.py` (a number of layers per machine).

### `Gossip`

Discrete time: `Tick` passes one unit while every thread sleeps or waits. `Begin`, `List`, `Pull`,
`Push`, `Prune` are the steps of the gossip thread's round, with the round's clock read once
(`elapsed`); `GivenUp` is a call to a node that runs but answers too late, whose push is
handled later (`HandleLate`); `CallFails` a call to a node that is gone, refused at once or
timed out (`Silent`). `Refresh` is `POST /api/node/restart`, on the event loop's thread, at any time of a round.
Both threads stamp an advert (`StampIn`, lines 115 and 302) in one step and list it in another (`List`, lines 116 and 303); what is in
between is `pending`. So the older of two stamps may be listed last, and stays until the next round. Meanwhile a thread with a
pending advert does nothing else (`Free`): its round makes no call, its event loop serves nobody (`Serves`). A heartbeat is held as the number
of stamps its origin has made since, an expiry as the time left; both are what the code
compares, and make the state finite without a clock.

### `PeerInference`

Generation without a coordinator: the block servers of `server.py`, the chat entry every node
has (`Entry`, driving a chain from its own registry at `Home`), and `infer --peer`. A server
handles a call without an `await` between reading and writing a cache, so a hop is one
action (`Hop`); `HopFails` is a hop at a node that is gone, one that times out at a node that
runs (computed or not), or one answered with an error.

| model | code |
|---|---|
| `kv[<<n, j, x>>]` | `jobs[j][block]` of node `n`, as the length of its cache |
| `pc[c]` = cover, call, choose, end | `_resolve_chain`; awaiting a hop; the head's answer is there; the DELETE calls |
| `JobOf(c)` | `entry-<uuid>-<n>` of a chat, `job<attempt>` of a client |
| `known`, `excluded`, `attempt`, `chain`, `tokens` | the locals of `distributed_generate_resilient` |
| `acked`, `rows`, `receipts` | `receipts` of `v1_chat` and the tables of the node's job log (a log on disk, `serve --db`) |

`Chat` takes any registry that lists its own node, `Infer` and `Refresh` any registry: dead nodes
may be listed still and live ones not yet, which is what `Gossip` says of one. `StopNode` loses the
caches and the requests the node drives; `StartNode` recovers the log. `forgot` is a history
variable: a node that held caches of the running attempt stopped.

### `Launcher`

A file is absent (`None`), written in part (`Partial`), or what it should be: a release for the
launcher, its `.new` and `.old`, the virtualenv and the stamp. `pc[c]` is where command `c` is in
`run` (`start`, `exec`), in `bootstrap` (`uv`, `extract`, `wipe`, `venv`, `pip`, then `stamp`) or in
`selfUpdate` (`get`, `got`, `replace`, and on Windows `swap`). `CutBootstrap` and `CutUpdate` end a
command anywhere, with any part of the step at hand done. `UVFails` is what follows from a uv
that is not whole. Commands run side by side without a lock; only two updates at a time
are left out (they would share `.new`). `spoiled` and `overlapped` are history: what the code does
not guard against (a forced bootstrap that is cut, two at a time) is modelled, and the
properties except it by these names.

### The front-ends

An action of a page is a handler up to its `await`, what follows one, a timeout, or a frame;
JavaScript runs nothing else in between. A call is a step at the node (`NodeSaves`, `NodeReads`,
`NodeAnswers`, `NodeLists`) and a step at the page, each at any time and in any order, so calls
overlap and are late; a step `...Fails` ends one at any time without an answer. A page that is
mounted anew is a new *instance*: calls name the instance that made them, and those of an
instance that is gone are what its cleanup makes of them.

| module | models | state |
|---|---|---|
| `NodeConfig` | `NodeConfig` of a node: start, `update`, `_save` in one step or not at all, a file that becomes unreadable | `config` = `_data`, `file`, `identities` made |
| `SettingsPage` | the form, its controls, load, save, copy | `form` = `s`, `loading`, `saving`, `saved`, `copied`, the timers, `reads` and `puts` under way |
| `ChatPage` | `sendText`, `newChat`, mounting, `localStorage` | `chat`, `sending`, `stored`, `asked` (questions under way, with the list they were asked on) |
| `SwarmCanvas` | `init` and `draw` of both canvases: the nearest-two mesh, the pulses, re-initialisation | a record `[frame, count, drawn, mesh, pulse]` |
| `NetworkPage` | the poll of the peers, the restart button, badge, cards and table; of the node's registry, which peers it lists, with which status, and its own entry | `swarm`, `ownListed`, `peers`, `leftOver`, `restartMsg`, `msgTimers`, `restarts`, `peerPolls`, `canvas` |
| `NodeApp` | `App.jsx`, `Sidebar.jsx`, `theme.js`: one page at a time, the poll of the node, the theme, a reload of the tab, and the node and its swarm around them | `node`, `metrics`, `polls`, `prefs`, `storedPrefs`, `collapsed` |
| `Site` | the landing page: links, tiles, commands, copy button, canvas | `section`, `osId`, `justCopied`, `timer`, `clipboard`, `heroCanvas` |
| `FrontEnds` | both side by side, and the properties about both | |

What the data loses: a chat text is opaque and its answer is named by it; tokens, latencies,
uptimes, memory and layers, which are only printed, are left out, as are colours; the mesh is the
one of the places the peers were given (they drift, the edges stay); one pulse stands for all.
What React leaves open is left open: after a page is gone, the function that computes its next
chat, and stores it, may or may not have been run (`ReceiveLate`).

The table of the peers is a sequence of rows in any order (`Orders`: it is sorted by latencies, which are not modelled),
and React finds the rows again by their keys, the announced names. `PeerName` gives each peer a name, and peers may share
one: `LeftBehind` is what React's reconciliation of a list does not remove then, `leftOver` what it has left on the page so far. A
peer keeps its name while a tab is open (with a rename a row gets a new key, which no property tells
apart). `/api/metrics` takes one off the number of all entries (`ConnectedCount`), also while the node's own one has
expired (`OwnEntryLapses`, `OwnEntryReturns`: a round of the gossip that takes longer than the ttl, and the next one). A node that starts has an
empty registry but for itself (`RegistryBlank`).

`left` and `failed` are not in the code. `left` is the *session*: which pages its user goes to,
how many polls may overlap, and how many clicks, failed steps and changes around the dashboard
are left. `failed` remembers that some step failed, for `SettingsAreKept`.

Operators named as a *slip* of another one (`CutAtCapacity`, `UpsertOnce`, `NotReleased`, ...)
are used by no action. Each is the way a plausible bug would change the operator after it;
substituting it must make a property fail.

## Runs

| run | instance | checks | distinct states |
|---|---|---|---|
| `failover` | 1 greedy request, 3 workers (two halves and a whole), 3 tokens with a stop token as the third, 2 failovers | `TypeOK`, `FailedNodesStayOut`, `AwaitedNodesPresent`, `CachesFollowPositions`, `GreedyAnswerIsReference`, `WinnerCachesReleased` | 36 k |
| `concurrent` | a greedy and a sampled request, 2 workers, 1 failover each | `LoadAccounting`, `LogTracksRequest`, `TerminalRowsFrozen` | 328 k |
| `restart` | 2 requests (one with rejected sampling) on 1 job id, 1 crash, 1 lost access to the log | `GreedyAnswerIsReference`, `NoOrphanRow` | 190 k |
| `service` | 1 greedy request, 2 workers, 1 failover, 1 crash, fair | `ImplementsService` | 5 k |
| `joins` | 4 machines of 3 sizes, 4 layers, target 1 | `TypeOK` (claims fit their machines), `OrderlyJoinsServe`, `TurnedAwayOnlyIfOperational`, `ChainsRunWholeModel` | 149 k |
| `seed_gossip` | 3 nodes with one seed, one of them mortal with its host, 1 upset, fair | `TypeOK`, `OwnEntryHeld`, `LiveNodesFound`, `DeadNodesForgotten` | 317 k |
| `peers` | a chat of one token and an `infer --peer` of two, 2 nodes that hold the layer, 1 failover, 1 stop, 1 upset, 1 lost write, fair | `TypeOK`, `AnswerIsReference`, `FailedPeersStayOut`, `LogTellsOutcome`, `AnsweredLeaveNoCache`, `RequestsAdvance`, `EveryRequestEnds` | 173 k |
| `installs` | 2 commands at a time, 2 releases, Unix and Windows, 1 cut, fair | `TypeOK`, `LauncherStays`, `StampNamesRuntime`, `CommandsRunTheirRelease`, `RetriesHeal` | 199 k |
| `front_ends` | 13 sessions, 2 texts, 3 peers with 2 names, 2 placements, fair | `TypeOK`, `PulsesFollowEdges`, `AnswersUnderTheirQuestion`, `AskingIsShown`, `SettingsAreKept`, `TypedEditsStay`, `RequestsEnd`, `DashboardConverges` | 147 k |
| `ghost_gossip` | finding 1 | `DeadNodesForgotten` | |
| `shared_job_ids` | finding 2 | `JobIdsAreFresh` | |
| `canvas_stops` | finding 3 | `CountsAreDrawn` | |

**Why the bounds are enough.** *failover*: the split chain gives hops between different
workers, the whole worker fuses its stages into one `chain` call, so every kind of hop
fails at every place; the third pass is the first that resumes from more than one token;
two failovers reach the refusal as well as the third attempt. *concurrent*: two requests on
two workers are the least in which a load of 2, crossing exclusions, and a row written by
the other request could be confused. *restart*: one job id makes the two requests reuse a
row whenever a crash lies between them; three tokens let a lost append be followed by a
kept one and a failover. *joins*: machines that hold all, half and a quarter of the model make
every kind of gap (whole, prefix, suffix, hole). *seed_gossip*: a ttl of four units against
an interval and a timeout of one lets an entry miss a round and survive, and expire within
two; the code's 30, 2 and 5 seconds differ in scale, not in order. A call that is given up is handled within one
more unit (`MaxBusy`), in which its round may be over or not. *peers*: two holders of the layer let a failover change the
node or meet it again as the only end; two tokens and a stop after the first make the resumed
attempt prefill with a token and stop, and a stop and an upset exhaust one failover.
*installs*: two commands are the least that overlap, and two releases make an update and a
launcher older than the runtime; a second cut was run once (666 k states) and changed nothing.
*front_ends*: the pages share almost no state, so one session leads through one or two of them;
a session for each pair that does interact (a poll and the canvas, the settings and the poll that
shows them, the chat and the network page it is left for) gives what the product of all pages
would, without its size. Six clicks reach a chat that is left while it waits, opened, asked
on, and opened again; two polls overlap in both orders; up to two changes of the swarm or the node
make an answer stale before it arrives; three peers, two of them with one name, are the least that leave a row behind (`[x, e, e]`
answered after a departure by `[e, e]`); one failure hits any of its steps. Widths of the
landing page's canvas below and above 2 pixels, and both placements, reach every branch of `Frames`.
`MaxUpsets` bounds restarts, re-registrations and given-up
calls together; `MaxCrashes`, `MaxLosses`, `MaxFailovers` are named for what they bound.

Deadlock is checked in every run but *front_ends* and *canvas_stops*: there a session's clicks
are used up and its user leaves it at that. `Quiescent` is the only place where the relay, or the block servers, may rest.

## Findings

1. **Ghosts** (`ghost_gossip`). `merge` adopts an entry it does not hold whatever its heartbeat.
   Two live nodes that list each other and drop a dead node's entry at different times
   learn it again from each other, with a full ttl, for ever. One call that timed out is
   enough to bring them out of step. In *seed_gossip* nobody but the seed relays, and the
   property holds.
2. **Shared job ids** (`shared_job_ids`). Every `infer --peer` names its attempts `job0`, `job1`, ...
   (`orchestrator.py:91`; `cli.py:592-594` passes no prefix). A second client, or one that follows
   a client that was interrupted, prefills into the caches of the first. In *peers*, with one
   client, the answers are right.

3. **The canvas stops** (`canvas_stops`). Until the first metrics are in, and whenever the node has no
   peers, the dashboard asks for a canvas of one peer. `init(1)` looks for its second nearest,
   `order[1]` is undefined (`app/src/SwarmCanvas.jsx:35`), and the exception leaves `draw` before line 141
   requests the next frame. A later count sets `N = 0` "to force re-init on next frame" (line
   151), but there is none: the canvas stays empty until the page is mounted again. The
   landing page draws six peers at least and is not concerned.

More disagreements were met while modelling and have no run of their own.

*Relay and log.* `_next_id` counts from 0 in every process and `create_job` is `INSERT OR REPLACE`: the
first job after a restart overwrites the `DONE` row of an earlier one, of which the job-log design
(line 15) says that it remains readable (`coordinator.py:67`). A sampling value that is no
number makes `float()` raise in `_run_generation`, where only `_NodeFailure` is caught
(`coordinator.py:125`): the client gets a 500, its row stays `RUNNING` until the next restart, and the
job-log design's "`fail` on error" (line 30) does not hold; the load is given back
(`LoadIsAccounted`). The two failures compound: when the `create_job` of a request that got a used id is
lost, `get_job` gives its failover the tokens of the earlier request, and the answer is wrong
(`coordinator.py:266-268`; that is why the theorem `AnswerIsReference` excepts a restart together with a lost
write. *restart* passes because its other request is one that the sampling values refuse). After one lost
`append_token` every later position is past the end of the stored list and ignored, so the
`DONE` row of a right answer lacks its tail (`jobstore.py:78`; that is why `LogTracksRequest`
is checked where no write is lost).

*Allocation and peers.* Two nodes that read the registry before either announces may claim ranges that
overlap: `coverage_gaps` is content, the greedy scan of `build_chain` finds no chain, and no node
gives way, although `specs/decisions/ADR-0003-capacity-aware-allocation.md:79` has a deterministic
tie-break (`cli.py:360`). With `--target 2` even orderly joins can cover every
layer with blocks the greedy scan cannot tile (`discovery.py:73`; that is why
`OrderlyJoinsServe` is stated for one replica). And a block server that stops and is back before
the next hop of an attempt makes an empty cache for it (`server.py:357`) and answers: the output
is wrong and nobody notices, which `AnswerIsReference` excepts by name.

*Launcher.* In the launcher, a uv that
was written in part is taken for a whole one by every later bootstrap, forced ones included
(`main.go:273`), and a forced bootstrap that is cut leaves the old stamp beside a virtualenv
that is gone, so the next command finds nothing to run (`main.go:278`).

*Dashboard.* "Saved" is shown after a PUT that failed as well (`SettingsPage.jsx:230-234`). A save
before the settings are loaded sends the browser's defaults, port 9000 and an empty name among them, and
what is typed before is overwritten (line 181). An answer that arrives after its page is gone may be stored or
not, may bring a cleared conversation back, and leaves its placeholder pulsing in the page that shows the
stored copy (`ChatPage.jsx:116`). The rows of the table are keyed by `peerId` (`NetworkPage.jsx:285`), which is the announced name
(`server.py:261`) and the same for every node that was given none (`nodeconfig.py:10`): with three such peers an answer in another order
leaves rows behind that no later answer removes, where the plan of the page has "Peers table <- `getPeers()` rows"
(`specs/superpowers/plans/2026-06-21-node-ui.md:533`). `PeersAreShown` excepts such rows, and `LeftOversAreNamesakes` proves that
there are no others. `connectedPeers` is one short while the node's own entry has expired (`server.py:231`). The sidebar says "Connected" and the badge "Online" of a node
that is gone, as no failed poll clears them (`Sidebar.jsx:149`, `App.jsx:35`).

## Fairness

* `Coordinator`: weak fairness of each request's task (asyncio runs every task that can go
  on; a live worker finishes what it computes: `_call` has no timeout, so without this
  assumption the code promises nothing), and of `Disconnect` (the websocket's ping notices
  a dead peer). `GiveUp` is among the task's steps: parking is bounded by
  `coverage_timeout`. No fairness for connecting workers, losses and crashes.
* `Gossip`: weak fairness of "some thread takes its step, lists what it stamped, a server handles a call it got, or
  time passes". `Tick` waits for everyone who is due, so no node lags behind for ever.
  Starting, stopping, given-up calls have none.
* `PeerInference`: weak fairness of each driver's steps (its HTTP calls have timeouts, and
  `HopFails` is among them) and of `GiveUp` (the deadline of `--wait-coverage` passes). None for
  new requests, refreshed registries, stops, starts and interruptions.
* `Launcher`: weak fairness of each command's steps; none for commands that start, are cut, or
  for new releases.
* `NodeApp`: weak fairness of the intervals together with what a node that runs makes of their calls, of
  each kind of call's end (a call to a node that is gone is refused, `J` rejects an error status), of
  frames, of the timers that take the restart button's message away (a browser fires them), and of the gossip round that lists
  the node's own entry again (`RoundsGoOn`; a lapse counts as a change of the swarm, so a swarm whose every round outlasts the ttl never comes to rest). None for clicks, failures, the node's stops and starts and the swarm's changes.
  `RequestsEnd` assumes what `fetch` without a timeout needs: that a running node answers.

## Proofs

Every theorem is of the specification the runs check, for all values of its constants: any
number of nodes, workers, requests, layers, commands, releases and texts, and any of the
bounds. The ASSUMEs of the modules say what the constants are; what a theorem assumes beyond
them is in its statement, and below.

All safety properties that the passing runs check are theorems; some hold under conditions, which
the tables name. `IdentityKept` and `FlashesHaveTimers` of the front-ends and `RequestsAdvance` of the relay are theorems without a run.

### Chain building: `DiscoveryProofs`

| theorem | states |
|---|---|
| `ChainWhenPossible` | `build_chain` returns a chain exactly when `HasChain` says that the greedy tiling gets through |
| `ChainsServe` | a chain runs every layer once, in order, on nodes that announce what they run |

For any table of nodes whose blocks are finite sets, and any ranking, ties included. `Cursor` is recursive;
`LeastExists` stands in for induction (see *Allocation*); it is here, with `LessWellFounded`, for all the proofs.
Who routes cites the two theorems, so that each component also has the property where it matters:
`RequestsRunWholeModel` of the relay and of the peers (the chain of a request that runs is the whole model, whoever
left meanwhile), `EveryChainIsWhole` of the allocation.

### The relay: `CoordinatorProofs`, `GenerationProofs`

| theorem | states |
|---|---|
| `TypeCorrect`, `NoAbandonedCall`, `FailedNodesNeverReused`, `LoadIsAccounted` | `Spec => []TypeOK`, `[]AwaitedNodesPresent`, `[]FailedNodesStayOut`, `[]LoadAccounting` |
| `CachesAgree`, `WinnersRelease` | `Spec => []CachesFollowPositions`, `[]WinnerCachesReleased` |
| `AnswerIsReference` | `Spec => [](crashes = 0 \/ losses = 0 => GreedyAnswerIsReference)` |
| `NoRowIsOrphaned` | `Spec => []NoOrphanRow` |
| `TerminalRowsStay`, `RowsFreeze` | no terminal row is rewritten before the coordinator restarts, and `Spec => TerminalRowsFrozen` where `MaxCrashes = 0` |
| `LogFollowsRequests` | `Spec => [](crashes = 0 /\ losses = 0 => LogTracksRequest)` |
| `RequestsRunWholeModel` | the chain of a running request is the whole model, each layer once |
| `NoStepIsWasted` | `Spec => RequestsAdvance`: a step of a request's task leaves it less to do, no other step more |
| `StepsServe`, `ServiceRefined` | a step that loses no write is a `Service!Next` step or a stutter; all of them are where `MaxLosses = 0` |

*The argument.* `TypeOK` is not inductive: that a route's ends exist and that a task which
runs has a job and a chain of workers that did connect is nowhere a type. `TasksWellFormed`
says so, and `Shape == TypeOK /\ TasksWellFormed` is inductive (`ShapeInit`, `ShapeNext`, one
lemma per group of actions). The other invariants are proved relative to `Shape`.
`AwaitedNodesPresent` rests on `PcAfterDisconnect` and `Awaiting`: a call begins only at a node
of `conns`, and a node leaves `conns` together with its futures. `FailedNodesStayOut` rests on
`ChainShape` (a chain is made of candidates, and these exclude the failed): the node that fails
is new to `excluded`, so its size follows `attempt`. `LoadAccounting` needs
`Loads == OffUnloaded /\ LoadAccounting` (a worker that has not connected has no load) and
counts the set `Users(c)` of attempts through a worker: every action adds one request to it,
removes one, or leaves it (`LoadsRoute`, `LoadsReleased`, `LoadsKept`), and the guard
`load > 0` of the release is shown to be implied.

`CachesFollowPositions` and `WinnerCachesReleased` share `CacheInv`. What they leave unsaid is why a new attempt
finds empty caches: no node has seen the ids of the attempts to come (`NextAttemptsEmpty`), and a worker
that is not connected has none (`CachesOfTheDead`). `PassInStep` then follows a pass: the blocks behind it hold the whole
context, those before it what the last pass left, and the activation saw nothing else. The
answer rests on it: a token is computed from caches of the right length, so
`OnTrack` grows by the right one, in the task and in its row, from which the next attempt resumes
(`AnswerInv`). The row is the request's own because one counter names the jobs of a life
(`JobsDistinct`); after a restart it names them again, and then only `create_job` makes the row
the request's own. Hence the condition of the theorem, which is needed: see *Findings*.
`LogInv` adds the receipts, of the running attempt and of all of its nodes once a
pass is over. The refinement has no invariant of its own: `AnswerInv` tells that `Answer` answers
what the service does, `RowsInv` (a row has the tokens of its task) that a failover takes none
back, so that `FailOver`, parking and every hop leave the service as it is.

`RequestsAdvance` is as near to liveness as a proof here comes. `Left` is what a request still has to do at most:
failovers, phases, tokens, calls. Its task's every step makes it less, nobody else's makes it more (`NobodyGoesBack`),
and it cannot get less for ever (`LessWellFounded`: of any set of fourfold counts one has none below it). With
`AwaitedNodesPresent` (a call is awaited only from a node that can still answer, or whose disconnect fails it) a task that
is scheduled comes to its end; that one which is not done has a step to take is `ENABLED`, and TLC's.

### Generation without a coordinator: `PeerInferenceProofs`

| theorem | states |
|---|---|
| `TypeCorrect` | `Spec => []TypeOK`, and that a task which runs stands in its chain |
| `PeersStayOut` | `Spec => []FailedPeersStayOut` |
| `AloneIsServed` | a request that shares its ids with nobody is answered rightly and leaves no cache |
| `AnswersAreReference`, `AnsweredLeaveNothing` | with at most one `infer --peer`: `Spec => []AnswerIsReference`, `[]AnsweredLeaveNoCache` |
| `LogTellsTruth` | `Spec => []LogTellsOutcome` |
| `RequestsRunWholeModel` | the chain of a running request is the whole model, each layer once |
| `NoStepIsWasted` | `Spec => RequestsAdvance` |

*The argument.* As for the relay, but the nodes serve whoever names a job. `JobsApart` says
whose ids nobody else uses: a chat's (it draws a uuid) and those of a client without another one.
For these, `CachesRight` follows the pass; `OwnCaches` adds that the chain's nodes are the only ones
with a cache of the job, without which the DELETE calls would not reach them all. The hypothesis
of the two theorems is that of the run; finding 2 is what happens without it. For the log, receipts
are counted: `Passes` times the stages a node holds, and those before the current one again (`CountsTell`).

`RequestsAdvance` says of a driver what it says of the relay's tasks (see above). So a driver that is
scheduled brings its request to an end; that a driver which is not done has a step to take is `ENABLED`, and TLC's (`EveryRequestEnds`).

### Allocation: `AllocationProofs`

| theorem | states |
|---|---|
| `ClaimsAlwaysFit` | `Spec => []TypeOK`, whose part `ClaimsFit` is the point |
| `OrderlyJoinsClaimInMeasure` | `Spec => [](orderly => ClaimedInMeasure)`: no layer has more claimants than `Target`, for every target |
| `OrderlyJoins` | `Spec => []OrderlyJoinsServe` |
| `EveryChainIsWhole` | `Spec => []ChainsRunWholeModel`, whoever joined in whatever order |
| `OperationalIsCovered` | a swarm that serves has all layers and both ends announced |
| `TurnedAwayByServingSwarm` | `Spec => TurnedAwayOnlyIfOperational`, for every target |

*The argument.* `OrderlyInv`: only who loads or is in the swarm claims anything, a claim is one
block, and claims are in measure. When nobody loads, everything claimed is announced and counted
(`ClaimantsAreCounted`), so a gap has room for one more claimant. That `build_chain` then serves what is covered is
`FollowOnTiles`: the greedy tiling gets through when some block starts at 0 and, wherever one ends before the last
layer, another starts (`FollowOn`). It is a condition that orderly joins meet in two ways. For one replica, blocks are
disjoint and cover the model, so the block of the next layer can only start there (`CoverFollowsOn`). For any number,
blocks may cross and covered does not mean operational (see *Findings*); but a machine that could hold the model is turned away only
when nothing is short of replicas (`ShortLayerHasGap`, `NothingLeftToClaim`), and then every layer is claimed by exactly
`Target` machines: where one block ends, as many must start (`FullSwarmFollowsOn`).

The library's induction theorems take an operator as a parameter, which the provers here cannot
instantiate. The recursion of `Cursor` is reasoned about by a least counterexample
instead: `LeastExists` (every set of naturals has a least element, from `WFMin`) is enough to show that
the recursive function exists (`IteratesExist`) and what its values are. The urgency of gaps and the replicas
of a gap are minima of the same kind.

### Gossip: `GossipProofs`

`GossipTypes` states `Spec => []TypeOK` for every network. `Tick` lets nothing expire by more than `LongestRound(n)`, the time
that all calls of a round take when all time out; that no round lasts longer is part of `TypeOK`, and `InTime`
is why: what a round has lasted and what its call may still take is within the timeouts of the calls it has made
(`Waited`). A use of `/api/node/restart` within a round makes its advert one stamp older; `InTime` counts these.

`OwnEntryStays` states `Spec => []OwnEntryHeld` for swarms with `RoundsFitTtl` (the longest round,
`Interval + 2 * Len(Peers[n]) * Timeout`, is below `Ttl`), whoever lists whom, itself included. Nothing is promised about which stamp
the own entry has: the two threads may list theirs in the other order. What lasts is its *time*: `Paced` bounds how much of its life the
own entry can have spent (`Spent`) by how long the round has waited and slept, and counts a round whose advert is stamped and not yet
listed to the one before. What a push to itself or a merge puts there instead
never expires before that. `RoundsFitTtl` is tight:
in *seed_gossip* with a ttl one shorter and a seed whose host may vanish, TLC finds an own entry that expired. With the code's 2, 5 and 30 seconds it holds for up to two
`--peers`; three that are silent make a round of 32 seconds, at whose end the node's own entry is
expired until the next one begins (`server.py:108`).

### Launcher: `LauncherProofs`

| theorem | states |
|---|---|
| `LauncherTypes` | `Spec => []TypeOK` |
| `LauncherSurvives` | `Spec => [](LauncherStays /\ NeverOlder)` |
| `StampsAreTrue`, `CommandsRunTheirs` | `Spec => []StampNamesRuntime`, `[]CommandsRunTheirRelease` |

*The argument.* `Installed`: an update takes the launcher away only when it has a whole one to put in its place, and
nothing stamped or running is newer than it. That matters to the stamp: the next bootstrap is by a command
that is older than no stamp. `BootstrapAlone` follows a bootstrap that overlaps with nothing through its steps, and
`StampHolds` is what the stamp promises when nobody installs. `FileAssumption` says that the
model values for "no file" and the like are no releases.

### The front-ends: `FrontEndProofs`

| theorem | states |
|---|---|
| `ChatInvariant` | `ChatSpec => []ChatInv`, the chat page alone |
| `FrontEndsImplementChat` | `FrontEndsSpec => ChatSpec` |
| `AnswersStayPaired`, `OneQuestionAtATime` | `FrontEndsSpec => []AnswersUnderTheirQuestion`, `[]AskingIsShown` |
| `IdentityStaysKept`, `SettingsStayKept` | `FrontEndsSpec => IdentityKept`, `[]SettingsAreKept` |
| `FlashesFade` | `FrontEndsSpec => []FlashesHaveTimers` |
| `EditsStay` | `FrontEndsSpec => TypedEditsStay` |
| `PulsesStayOnEdges` | `FrontEndsSpec => []PulsesFollowEdges` |
| `LeftOversAreNamesakes` | `FrontEndsSpec => [](leftOver \subseteq Namesakes)`: rows are left behind of peers that share a name only |
| `FrontEndTypes` | `FrontEndsSpec => []TypeOK` |

*The argument.* That an answer lands under its own question needs to know where the last placeholder
is: `ChatInv` adds to the two properties that every list under way ends with the placeholder of
its own question and that lists are sequences of messages. Then `Settled` changes the
last position only (`SettledPairs`), whichever placeholders of earlier pages are above it. What
the other pages do leaves `chatVars` alone, and a view that changes mounts or unmounts the chat, so the
whole dashboard refines the chat page, and the two properties carry over. `SettingsAreKept` and
`IdentityKept` rest on `KeptInv` (a readable file has the node's identity; without a failure it is all of
`config`, and so is what is stored of the theme), `FlashesHaveTimers` on `FlashInv` (which adds that
timers are counted by natural numbers, so that starting one leaves at least one).

`TypedEditsStay` rests on `ReadsAreAwaited`: a page asks for the settings once, and a loaded form awaits
nothing, so an answer that is still under way belongs to a page that is gone. `PulsesFollowEdges` rests on `CanvasTypes`:
a canvas that is animated counts as many peers as there are places for, and a frame that finds another count
makes mesh and pulse together, before it moves the pulse. That the swarm's peers and the hero's have room in every placement
is `PeersAssumption` and `SiteAssumption`. `DrawnInv` puts the pages' parts together and gives `TypeOK`.
`LeftOversAreNamesakes` rests on `TableInv`: every answer to the poll of the peers, shown or under way, has one row for each, so two
rows of one key are of two peers.

### What stays with TLC

* Liveness, and with it the fairness of the refinement: `EveryRequestEnds`, `ImplementsService` (its
  safety half is `StepsServe`), `LiveNodesFound`, `DeadNodesForgotten`, `RetriesHeal`, `RequestsEnd`,
  `DashboardConverges`. The provers here do not know `ENABLED`.

## What is not modelled

* Tensors, masks, sampling, templates, tool-call extraction, streaming and encodings: the
  relay treats them as data, and a token's identity is all the properties need.
* Timeouts of the relay that do not exist in the code (a worker that never answers), see
  *Fairness*.
* Within the gossip thread, `peer_status`, `peer_fail` and the metrics: they feed displays (where `NetworkPage!PingedTo` lets a
  status change in every way they allow) and the `speed` ranking, which `Discovery!Outranks` takes as an input.
* `reset_progress` of the job store: nothing calls it.
* Of the front-ends: a second tab over the same `localStorage`, storage that fails for the chat, the routing
  footer, the model name on the settings page (read once and printed), and the sections of the landing page that only
  show text (`HowItWorks`, `WhyP2P`, `UseCases`). Styles are presentation throughout.
* The model loader, configuration parsing: I/O.
* `distributed_generate` (a static topology, no failover), sampling at the chat entry, which
  changes what token is chosen and no call, and the read-only endpoints of `server.py`.
* MCP configuration, the UI backend's process
  and tool loop, the MLX cache: they have state and hazards, and are
  the plan.

## Plan

Done, in this order: `Discovery`, `JobStore`, `Coordinator`, `GenerationService`,
`CoordinatorProofs`, `AutoAllocation`, `Gossip`, `PeerInference`,
`Launcher`, `NodeConfig` and the front-ends, `FrontEndProofs`; then
`GenerationProofs`, `PeerInferenceProofs`, `LauncherProofs`, `GossipProofs`, `AllocationProofs`, `DiscoveryProofs`.

1. Theorems: the safety of a chat entry against `GenerationService` (it promises less than the relay: no
   failover); what a registry entry of another
   node can be (`lag` and `left` against its origin), which bounds how long a node that is gone is listed
   where nobody relays it; the wait conditions that `RequestsEnd` and `EveryRequestEnds` rest on, as invariants
   (`RequestsAdvance` is their other half).
2. `McpConfig`: a file read, changed and written back by two writers.
3. `NodeManager`, `ToolLoop`: the UI backend's process handle and bounded tool rounds.
4. The MLX node as a variant of the worker actions; `Metrics` with the ranking it feeds.
