-------------------------------- MODULE Gossip --------------------------------
(***************************************************************************)
(* The gossip of the decentralised nodes: the Registry of                  *)
(* eujeno/net/discovery.py, and the thread and the /registry handlers of   *)
(* eujeno/net/server.py that feed it.                                      *)
(*                                                                         *)
(* Time is discrete.  A call takes no time, except one to a silent host,   *)
(* which takes Timeout; Tick is the passing of one unit while every thread *)
(* sleeps or waits.                                                        *)
(*                                                                         *)
(* A heartbeat is the time at which its origin stamped it.  All the code   *)
(* does is compare heartbeats of one origin, so an entry holds the number  *)
(* of stamps its origin has made since (0 for the newest), and instead of  *)
(* its expiry the time that is left until then.                            *)
(***************************************************************************)
EXTENDS Integers, Sequences, FiniteSets

CONSTANTS
    Node,       \* the decentralised nodes, by url
    Peers,      \* --peers of each node, a sequence
    Mortal,     \* the nodes that may stop
    Silent,     \* the nodes whose host goes with them: calls to them time out
    Interval,   \* gossip_interval, 2 seconds in the code
    Timeout,    \* of an HTTP call, 5 seconds in the code
    Ttl,        \* ttl, 30 seconds in the code
    MaxBusy,    \* bound: how long a node that runs keeps a call waiting
    MaxUpsets   \* bound: restarts of a node, uses of /api/node/restart, and
                \* calls that time out at a node that runs

ASSUME NodeAssumption ==
    /\ IsFiniteSet(Node)
    /\ Peers \in [Node -> Seq(Node)]
    /\ Mortal \subseteq Node
    /\ Silent \subseteq Node

ASSUME TimeAssumption ==
    /\ Interval \in Nat \ {0}
    /\ Timeout \in Nat
    /\ Ttl \in Nat \ {0}
    /\ MaxBusy \in Nat
    /\ MaxUpsets \in Nat

\* Operators named as a slip of another one are used by no action: they show
\* that the properties notice the slip.

VARIABLES
    up,         \* the nodes that run
    pending,    \* own adverts that a thread has stamped and not yet listed
    entries,    \* the registry of each node: url -> [lag, left]
    busy,       \* the gossip thread is in a round, not asleep
    calls,      \* the HTTP calls the round still has to make
    timer,      \* time until the thread goes on
    elapsed,    \* time since the round read its clock
    advLag,     \* how many stamps old the advert of the round is
    late,       \* pushes that no one waits for any more
    started,    \* the nodes that ran already
    upsets      \* bound

threadVars == <<busy, calls, timer, elapsed>>
vars == <<up, entries, threadVars, advLag, late, pending, started, upsets>>

Upset == upsets < MaxUpsets /\ upsets' = upsets + 1

-----------------------------------------------------------------------------
(* Registry *)

\* upsert: whatever was there is replaced.
UpsertOnce(registry, url, entry) ==
    [u \in DOMAIN registry \cup {url} |-> IF u \in DOMAIN registry THEN registry[u] ELSE entry]
UpsertExtends(registry, url, entry) ==
    [u \in DOMAIN registry \cup {url} |->
        IF u # url THEN registry[u]
        ELSE IF u \in DOMAIN registry THEN [entry EXCEPT !.left = @ + registry[u].left]
        ELSE entry]
Upsert(registry, url, entry) ==
    [u \in DOMAIN registry \cup {url} |-> IF u = url THEN entry ELSE registry[u]]

\* merge: what is not held is adopted, what is held only when it is older.
HbNewer(theirs, mine) == theirs.lag < mine.lag

Merge(registry, learned, left) ==
    [u \in DOMAIN registry \cup DOMAIN learned |->
        IF u \in DOMAIN learned
               /\ (u \in DOMAIN registry => HbNewer(learned[u], registry[u]))
        THEN [lag |-> learned[u].lag, left |-> left]
        ELSE registry[u]]

\* prune and stages_by_url, by a clock read passed units of time ago.
FreshEver(registry, passed) == registry
FreshSince(registry, passed) ==
    [u \in {v \in DOMAIN registry : registry[v].left + passed > 0} |-> registry[u]]

Visible(n) == FreshSince(entries[n], 0)

-----------------------------------------------------------------------------
(* Heartbeats *)

\* A new stamp of url makes every copy of its adverts one stamp older.
Aged(registry, url) ==
    [u \in DOMAIN registry |->
        IF u = url THEN [registry[u] EXCEPT !.lag = @ + 1] ELSE registry[u]]

\* _next_hb: n stamps an advert; carried is the stamp age of the advert that its
\* gossip round carries then.
Stamp(n, carried) ==
    /\ advLag' = [advLag EXCEPT ![n] = carried]
    /\ late' = {IF x.from = n THEN [x EXCEPT !.lag = @ + 1] ELSE x : x \in late}

\* The gossip thread or the event loop stamps an advert; listing it is a step of
\* its own, and the lock covers only the stamp.
StampIn(n, thread, carried) ==
    /\ Stamp(n, carried)
    /\ entries' = [m \in Node |-> Aged(entries[m], n)]
    /\ pending' = {IF x.node = n THEN [x EXCEPT !.lag = @ + 1] ELSE x : x \in pending}
                    \cup {[node |-> n, thread |-> thread, lag |-> 0]}

\* What its thread stamped goes into the node's own registry, even over a newer
\* one that the other thread has listed in the meantime.
List(x) ==
    /\ x \in pending
    /\ pending' = pending \ {x}
    /\ entries' = [entries EXCEPT ![x.node] =
                    Upsert(@, x.node, [lag |-> x.lag, left |-> Ttl])]
    /\ UNCHANGED <<up, threadVars, advLag, late, started, upsets>>

\* No advert of n waits in this thread: its round may go on, its event loop is free.
Free(n, thread) == \A x \in pending : ~(x.node = n /\ x.thread = thread)

Serves(p) == p \in up /\ Free(p, "server")

-----------------------------------------------------------------------------
(* The life of a node *)

Empty == [u \in {} |-> 0]

Init ==
    /\ up = {}
    /\ entries = [n \in Node |-> Empty]
    /\ busy = [n \in Node |-> FALSE]
    /\ calls = [n \in Node |-> <<>>]
    /\ timer = [n \in Node |-> 0]
    /\ elapsed = [n \in Node |-> 0]
    /\ advLag = [n \in Node |-> 0]
    /\ late = {}
    /\ pending = {}
    /\ started = {}
    /\ upsets = 0

\* create_app, before any thread runs: the node knows itself; its clock makes it
\* newer than it ever was.
Start(n) ==
    /\ n \notin up
    /\ IF n \in started THEN Upset ELSE UNCHANGED upsets
    /\ started' = started \cup {n}
    /\ up' = up \cup {n}
    /\ Stamp(n, 0)
    /\ entries' = [m \in Node |->
                    IF m = n THEN Upsert(entries[n], n, [lag |-> 0, left |-> Ttl])
                    ELSE Aged(entries[m], n)]
    /\ UNCHANGED <<threadVars, pending>>

Stop(n) ==
    /\ n \in up \cap Mortal
    /\ up' = up \ {n}
    /\ entries' = [entries EXCEPT ![n] = Empty]
    /\ busy' = [busy EXCEPT ![n] = FALSE]
    /\ calls' = [calls EXCEPT ![n] = <<>>]
    /\ timer' = [timer EXCEPT ![n] = 0]
    /\ elapsed' = [elapsed EXCEPT ![n] = 0]
    /\ advLag' = [advLag EXCEPT ![n] = 0]
    /\ late' = {x \in late : x.to # n}
    /\ pending' = {x \in pending : x.node # n}
    /\ UNCHANGED <<started, upsets>>

\* POST /api/node/restart: a new stamp at any time, also within a round.
Refresh(n) ==
    /\ Serves(n)
    /\ Upset
    /\ StampIn(n, "server", IF busy[n] THEN advLag[n] + 1 ELSE 0)
    /\ UNCHANGED <<up, threadVars, started>>

-----------------------------------------------------------------------------
(* A round of the gossip thread *)

\* For every peer a pull and then a push.
PullsOnly(n) == [i \in DOMAIN Peers[n] |-> [op |-> "pull", peer |-> Peers[n][i]]]
Calls(n) ==
    [i \in 1 .. 2 * Len(Peers[n]) |->
        [op |-> IF i % 2 = 1 THEN "pull" ELSE "push", peer |-> Peers[n][(i + 1) \div 2]]]

\* The round reads the clock and stamps its advert, which it lists first.
Begin(n) ==
    /\ n \in up /\ ~busy[n] /\ timer[n] = 0
    /\ busy' = [busy EXCEPT ![n] = TRUE]
    /\ calls' = [calls EXCEPT ![n] = Calls(n)]
    /\ StampIn(n, "gossip", 0)
    /\ UNCHANGED <<up, timer, elapsed, started, upsets>>

\* The next call of the round is op on peer p.
Due(n, op, p) ==
    /\ n \in up /\ busy[n] /\ timer[n] = 0 /\ Free(n, "gossip")
    /\ calls[n] # <<>>
    /\ Head(calls[n]) = [op |-> op, peer |-> p]
    /\ calls' = [calls EXCEPT ![n] = Tail(@)]

\* GET /registry of a peer that answers; what is adopted expires by the clock
\* of the round.
Pull(n, p) ==
    /\ Due(n, "pull", p)
    /\ Serves(p)
    /\ entries' = [entries EXCEPT ![n] = Merge(@, Visible(p), Ttl - elapsed[n])]
    /\ UNCHANGED <<up, busy, timer, elapsed, advLag, late, pending, started, upsets>>

\* POST /registry: the peer replaces its entry, by its own clock.
Push(n, p) ==
    /\ Due(n, "push", p)
    /\ Serves(p)
    /\ entries' = [entries EXCEPT ![p] = Upsert(@, n, [lag |-> advLag[n], left |-> Ttl])]
    /\ UNCHANGED <<up, busy, timer, elapsed, advLag, late, pending, started, upsets>>

\* The peer runs, but its event loop is busy computing for longer than the
\* caller waits.  It handles a push when it gets round to it.
GivenUp(n, p) ==
    /\ Due(n, "pull", p) \/ Due(n, "push", p)
    /\ p \in up
    /\ Upset
    /\ IF Head(calls[n]).op = "pull" THEN UNCHANGED late
       ELSE \E wait \in Timeout .. MaxBusy :
            late' = late \cup {[from |-> n, to |-> p, lag |-> advLag[n], wait |-> wait]}
    /\ timer' = [timer EXCEPT ![n] = Timeout]
    /\ UNCHANGED <<up, entries, busy, elapsed, advLag, pending, started>>

HandleLate(x) ==
    /\ x \in late
    /\ x.wait = 0 /\ Free(x.to, "server")
    /\ late' = late \ {x}
    /\ entries' = [entries EXCEPT ![x.to] =
                    Upsert(@, x.from, [lag |-> x.lag, left |-> Ttl])]
    /\ UNCHANGED <<up, threadVars, advLag, pending, started, upsets>>

\* A call to a node that does not run is refused, or waits for its timeout.
CallFails(n, p) ==
    /\ Due(n, "pull", p) \/ Due(n, "push", p)
    /\ p \notin up
    /\ timer' = [timer EXCEPT ![n] = IF p \in Silent THEN Timeout ELSE 0]
    /\ UNCHANGED <<up, entries, busy, elapsed, advLag, late, pending, started, upsets>>

\* prune by the clock of the round, and sleep.
Prune(n) ==
    /\ n \in up /\ busy[n] /\ timer[n] = 0 /\ Free(n, "gossip")
    /\ calls[n] = <<>>
    /\ entries' = [entries EXCEPT ![n] = FreshSince(@, elapsed[n])]
    /\ busy' = [busy EXCEPT ![n] = FALSE]
    /\ timer' = [timer EXCEPT ![n] = Interval]
    /\ elapsed' = [elapsed EXCEPT ![n] = 0]
    /\ advLag' = [advLag EXCEPT ![n] = 0]
    /\ UNCHANGED <<up, calls, late, pending, started, upsets>>

-----------------------------------------------------------------------------
(* Time *)

\* No round of n is longer, so entries that n holds and that have expired for
\* longer need no more detail.
LongestRound(n) == (2 * Len(Peers[n])) * Timeout

Tick ==
    /\ pending = {}
    /\ \A n \in up : timer[n] > 0
    /\ \A x \in late : x.wait > 0
    /\ late' = {[x EXCEPT !.wait = @ - 1] : x \in late}
    /\ timer' = [n \in Node |-> IF n \in up THEN timer[n] - 1 ELSE 0]
    /\ elapsed' = [n \in Node |-> IF busy[n] THEN elapsed[n] + 1 ELSE 0]
    /\ entries' = [n \in Node |->
                    [u \in DOMAIN entries[n] |->
                        [entries[n][u] EXCEPT
                            !.left = IF @ > -LongestRound(n) THEN @ - 1 ELSE @]]]
    /\ UNCHANGED <<up, busy, calls, advLag, pending, started, upsets>>

Round(n) ==
    \/ Begin(n) \/ Prune(n)
    \/ \E p \in Node : Pull(n, p) \/ Push(n, p) \/ GivenUp(n, p) \/ CallFails(n, p)

Next ==
    \/ \E n \in Node : Start(n) \/ Stop(n) \/ Refresh(n) \/ Round(n)
    \/ \E x \in pending : List(x)
    \/ \E x \in late : HandleLate(x)
    \/ Tick

\* The threads of the nodes run, servers get round to every call, and time passes.
Fairness ==
    WF_vars(\/ Tick
            \/ \E n \in Node : Round(n)
            \/ \E x \in pending : List(x)
            \/ \E x \in late : HandleLate(x))

Spec == Init /\ [][Next]_vars

FairSpec == Spec /\ Fairness

-----------------------------------------------------------------------------
(* Properties *)

\* Every variable holds what its comment says; in particular no round is longer
\* than Tick takes for granted, and no entry is good for more than a ttl.
TypeOK ==
    /\ up \subseteq Node /\ started \subseteq Node
    /\ DOMAIN entries = Node
    /\ \A n \in Node :
        /\ DOMAIN entries[n] \subseteq Node
        /\ entries[n] \in [DOMAIN entries[n] -> [lag : Nat, left : -LongestRound(n) .. Ttl]]
        /\ elapsed[n] \in 0 .. LongestRound(n)
    /\ busy \in [Node -> BOOLEAN]
    /\ calls \in [Node -> Seq([op : {"pull", "push"}, peer : Node])]
    /\ timer \in [Node -> 0 .. (Interval + Timeout)]
    /\ elapsed \in [Node -> Nat]
    /\ advLag \in [Node -> 0 .. MaxUpsets]
    /\ late \subseteq [from : Node, to : Node, lag : Nat, wait : 0 .. MaxBusy]
    /\ pending \subseteq [node : up, thread : {"gossip", "server"}, lag : Nat]
    /\ upsets \in 0 .. MaxUpsets

Knows(n) == DOMAIN Visible(n)

\* A node that runs always finds itself in its registry, however long its rounds
\* wait and in whatever order its two threads list what they stamped: the chat
\* entry and the peers build chains from it, and /api/metrics counts it
\* (server.py:59, 106-116, 132, 231, 302-303).
OwnEntryHeld == \A n \in up : n \in Knows(n)

\* The nodes to which n announces itself and from which m learns.
Hubs(m, n) ==
    {x \in Node : /\ x = n \/ \E i \in DOMAIN Peers[n] : Peers[n][i] = x
                  /\ x = m \/ \E i \in DOMAIN Peers[m] : Peers[m][i] = x}

\* Two nodes that stay up next to a hub know each other and never forget again,
\* in whatever order they started and whatever ran there before.
LiveNodesFound ==
    \A m \in Node : \A n \in Node \ {m} : \A x \in Hubs(m, n) :
        <>[]({m, n, x} \subseteq up) => <>[](n \in Knows(m))

\* A relay "must NOT keep extending an entry's expiry on every round - otherwise
\* a dead node gossiped back and forth between two live peers never ages out";
\* "a frozen hb (dead origin) is left to expire" (discovery.py:34-39).
DeadNodesForgotten ==
    \A m \in Node : \A n \in Node \ {m} : <>[](m \in up /\ n \notin up) => <>[](n \notin Knows(m))

=============================================================================
