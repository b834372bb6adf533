---------------------------- MODULE NetworkPage ----------------------------
(***************************************************************************)
(* The network page of the node's dashboard (app/src/NetworkPage.jsx): the *)
(* peers it polls, the restart button, the canvas, and what it shows of    *)
(* the node and the metrics that App.jsx polls for it.                     *)
(*                                                                         *)
(* Peers and their states are what the node's registry and its pings say   *)
(* (server.py:145-161, 242-278).  Of an instance that is gone nothing is   *)
(* left: its polls are cancelled, its timers change nothing, and a restart *)
(* that it asked for only announces the node again.                        *)
(***************************************************************************)
EXTENDS NodeConfig, SwarmCanvas

CONSTANTS
    Peers,     \* nodes that may be in the registry of this one
    PeerName   \* the name each announces; nodes may share one

\* The placements have room for all of them and this node.
ASSUME PeersAssumption ==
    /\ IsFiniteSet(Peers)
    /\ \A at \in Places : Cardinality(Peers) < Len(at)

VARIABLES
    swarm,         \* "gone", or the status /api/peers gives a listed peer
    ownListed,     \* the entry of this node has not expired
    networkShown,  \* the page is mounted
    peers,         \* the rows it shows; Unanswered until the first poll ended
    leftOver,      \* peers of which a row was left behind on the page
    restartMsg,    \* what the restart button says, if not its name
    msgTimers,     \* timeouts that will give it its name back
    restarts,      \* POST /api/node/restart under way
    peerPolls,     \* GET /api/peers under way, in the order they began
    canvas

registryVars == <<swarm, ownListed>>
tableVars == <<peers, leftOver>>
networkVars == <<networkShown, tableVars, restartMsg, msgTimers, restarts, peerPolls, canvas>>

Statuses == {"online", "syncing", "offline"}

Listed == {p \in Peers : swarm[p] # "gone"}

\* GET /api/peers: by latency and throughput, which may order them in any way.
Orders(nodes) ==
    {order \in [1 .. Cardinality(nodes) -> nodes] :
        \A i, j \in DOMAIN order : order[i] = order[j] => i = j}

Rows == {[i \in DOMAIN order |-> [peer |-> order[i], status |-> swarm[order[i]]]] :
            order \in Orders(Listed)}

\* GET /api/metrics: all entries but one, which is taken for that of this node.
ConnectedCount ==
    LET entries == Cardinality(Listed) + (IF ownListed THEN 1 ELSE 0)
    IN  IF entries = 0 THEN 0 ELSE entries - 1

NoMsg == "none"

Without(seq, i) == SubSeq(seq, 1, i - 1) \o SubSeq(seq, i + 1, Len(seq))

-----------------------------------------------------------------------------
(* Mounting *)

NetworkBlank ==
    /\ peers' = Unanswered /\ leftOver' = {}
    /\ restartMsg' = NoMsg /\ msgTimers' = 0 /\ restarts' = 0
    /\ peerPolls' = <<>>

\* The peers are asked for at once; the canvas counts this node and the
\* peers that the metrics name so far.
MountNetwork(count) ==
    /\ networkShown' = TRUE
    /\ peers' = Unanswered /\ leftOver' = {}
    /\ restartMsg' = NoMsg /\ msgTimers' = 0 /\ restarts' = 0
    /\ peerPolls' = <<Unanswered>>
    /\ canvas' = Mounted(count)

UnmountNetwork ==
    /\ networkShown
    /\ networkShown' = FALSE
    /\ NetworkBlank
    /\ canvas' = NoCanvas

-----------------------------------------------------------------------------
(* The poll of the peers, every three seconds *)

PollPeers ==
    /\ networkShown
    /\ peerPolls' = Append(peerPolls, Unanswered)
    /\ UNCHANGED <<networkShown, tableVars, restartMsg, msgTimers, restarts, canvas>>

\* Rows as they are, or none when the node fails to make them.
NodeLists(i, rows) ==
    /\ up
    /\ i \in DOMAIN peerPolls
    /\ peerPolls[i] = Unanswered
    /\ peerPolls' = [peerPolls EXCEPT ![i] = rows]
    /\ UNCHANGED <<networkShown, tableVars, restartMsg, msgTimers, restarts, canvas>>

\* The page keys its rows by name.  React updates the first rows in place, as long
\* as their keys agree; of the others it finds the last one of each key, and what
\* it does not find it does not remove.
LeftBehind(old, new) ==
    {old[i].peer : i \in {j \in DOMAIN old :
        /\ \E k \in 1 .. j : k \in DOMAIN new /\ PeerName[old[k].peer] # PeerName[new[k].peer]
        /\ \E k \in (j + 1) .. Len(old) : PeerName[old[k].peer] = PeerName[old[j].peer]}}

\* An answer replaces what is shown, whichever poll it is of.
PeersArrive(i) ==
    /\ i \in DOMAIN peerPolls
    /\ peerPolls[i] # Unanswered
    /\ peers' = peerPolls[i]
    /\ leftOver' = IF peers = Unanswered THEN {} ELSE leftOver \union LeftBehind(peers, peers')
    /\ peerPolls' = Without(peerPolls, i)
    /\ UNCHANGED <<networkShown, restartMsg, msgTimers, restarts, canvas>>

PeersFail(i) ==
    /\ i \in DOMAIN peerPolls
    /\ peerPolls' = Without(peerPolls, i)
    /\ UNCHANGED <<networkShown, tableVars, restartMsg, msgTimers, restarts, canvas>>

-----------------------------------------------------------------------------
(* The restart button *)

\* Nothing keeps a second click from asking again.
ClickRestart ==
    /\ networkShown
    /\ restarts' = restarts + 1
    /\ UNCHANGED <<networkShown, tableVars, restartMsg, msgTimers, peerPolls, canvas>>

\* A slip: only the message of a success is taken back.
RestartReturnsOnce(ok) ==
    /\ restarts > 0
    /\ restarts' = restarts - 1
    /\ restartMsg' = IF ok THEN "Restarting" ELSE "Restart failed"
    /\ msgTimers' = msgTimers + (IF ok THEN 1 ELSE 0)
    /\ UNCHANGED <<networkShown, tableVars, peerPolls, canvas>>

\* Either way the button says so for three seconds.
RestartReturns(ok) ==
    /\ restarts > 0
    /\ restarts' = restarts - 1
    /\ restartMsg' = IF ok THEN "Restarting" ELSE "Restart failed"
    /\ msgTimers' = msgTimers + 1
    /\ UNCHANGED <<networkShown, tableVars, peerPolls, canvas>>

\* The timeout of any message takes back the one that is shown.
MsgFades ==
    /\ msgTimers > 0
    /\ msgTimers' = msgTimers - 1
    /\ restartMsg' = NoMsg
    /\ UNCHANGED <<networkShown, tableVars, restarts, peerPolls, canvas>>

CanvasFrame(width) ==
    /\ canvas' \in Frames(canvas, 1, width)
    /\ UNCHANGED <<networkShown, tableVars, restartMsg, msgTimers, restarts, peerPolls>>

-----------------------------------------------------------------------------
(* The peers of the swarm *)

\* A ping that is answered shows a peer online, one that is not syncing; the
\* third in a row, offline.  Any may leave the registry; one that comes back soon
\* is what it was, and else, like one that is new, syncing until it is pinged.
PingedTo ==
    LET states == Statuses \union {"gone"}
    IN  {step \in states \X states : step[1] # step[2]} \ {<<"online", "offline">>}

PeerBecomes(p, status) ==
    /\ up
    /\ <<swarm[p], status>> \in PingedTo
    /\ swarm' = [swarm EXCEPT ![p] = status]
    /\ UNCHANGED ownListed

\* The own entry expires in a round that takes longer than the ttl, and is back
\* with the next round.
OwnEntryLapses ==
    /\ up /\ ownListed
    /\ ownListed' = FALSE
    /\ UNCHANGED swarm

OwnEntryReturns ==
    /\ up /\ ~ownListed
    /\ ownListed' = TRUE
    /\ UNCHANGED swarm

\* create_app: a node that starts knows itself and nobody else.
RegistryBlank ==
    /\ swarm' = [p \in Peers |-> "gone"]
    /\ ownListed' = TRUE

-----------------------------------------------------------------------------
(* What is displayed *)

StatusLabel(status) ==
    IF status \in {"online", "serving"} THEN "online"
    ELSE IF status = "syncing" THEN "syncing" ELSE "offline"

\* The badge of the header, of the node that App.jsx polled.
Badge(node) ==
    CASE node = Unanswered -> "Loading"
      [] node # Unanswered /\ node.status \in {"serving", "online"} -> "Online"
      [] OTHER -> "Offline"

\* The first stat card, and the size of the swarm on the canvas.
ConnectedPeers(metrics) == IF metrics = Unanswered THEN "none" ELSE metrics
SwarmCount(metrics) == IF metrics = Unanswered THEN 1 ELSE metrics + 1

\* The panel of this node: its status and the button.
NodePanel(node) ==
    [status |-> IF node = Unanswered THEN "none" ELSE node.status,
     button |-> IF restartMsg = NoMsg THEN "Restart node" ELSE restartMsg]

PeersTable ==
    LET rows == IF peers = Unanswered THEN <<>> ELSE peers
    IN  [note |-> CASE peers = Unanswered -> "Loading peers"
                    [] peers # Unanswered /\ rows = <<>> -> "No peers connected yet"
                    [] OTHER -> "none",
         rows |-> [i \in DOMAIN rows |->
                    [peer |-> rows[i].peer, status |-> StatusLabel(rows[i].status)]],
         leftOver |-> leftOver]

=============================================================================
