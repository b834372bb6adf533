---------------------------- MODULE GossipProofs ----------------------------
(***************************************************************************)
(* Types and times of the gossip for any network, and that a node that     *)
(* runs never loses its own registry entry, for any number of nodes, any   *)
(* peers, any restarts, refused calls and late pushes, and whichever of    *)
(* its two threads lists its stamp last.                                   *)
(***************************************************************************)
EXTENDS Gossip, TLAPS

-----------------------------------------------------------------------------
(* Type correctness *)

LEMMA TimeIsNatural ==
    ASSUME NEW n \in Node
    PROVE  /\ Len(Peers[n]) \in Nat /\ 2 * Len(Peers[n]) \in Nat
           /\ (2 * Len(Peers[n])) * Timeout \in Nat
           /\ Timeout \in Nat /\ Interval \in Nat /\ Ttl \in Nat
<1>1. /\ Len(Peers[n]) \in Nat
      /\ Timeout \in Nat /\ Interval \in Nat /\ Ttl \in Nat
  BY NodeAssumption, TimeAssumption
<1>2. \A a, t \in Nat : a * t \in Nat
  OBVIOUS
<1> QED
  BY <1>1, <1>2

EntryOf(n) == [lag : Nat, left : -LongestRound(n) .. Ttl]

\* A registry that n may hold.
Held(n, r) == DOMAIN r \subseteq Node /\ r \in [DOMAIN r -> EntryOf(n)]

Adverts(nodes) == [node : nodes, thread : {"gossip", "server"}, lag : Nat]

Registered ==
    /\ DOMAIN entries = Node
    /\ \A n \in Node : Held(n, entries[n])

Call == [op : {"pull", "push"}, peer : Node]

Pushes == [from : Node, to : Node, lag : Nat, wait : 0 .. MaxBusy]

\* The longest time for which a round of n can have waited for its calls so far.
Waited(n) == (2 * Len(Peers[n]) - Len(calls[n])) * Timeout

\* A round has lasted no longer than its calls may take, and its advert has been
\* overtaken by no more stamps than there were uses of /api/node/restart.  No
\* time passes before the advert is listed.
InTime(n) ==
    /\ ~busy[n] => elapsed[n] = 0 /\ advLag[n] = 0 /\ timer[n] <= Interval
    /\ busy[n] => /\ n \in up
                  /\ Len(calls[n]) <= 2 * Len(Peers[n])
                  /\ elapsed[n] + timer[n] <= Waited(n)
                  /\ advLag[n] <= upsets
    /\ ~Free(n, "gossip") => busy[n] /\ timer[n] = 0 /\ elapsed[n] = 0

RoundsInTime == TypeOK /\ \A n \in Node : InTime(n)

ThreadTypes ==
    /\ busy \in [Node -> BOOLEAN]
    /\ calls \in [Node -> Seq(Call)]
    /\ timer \in [Node -> 0 .. (Interval + Timeout)]
    /\ elapsed \in [Node -> Nat]
    /\ advLag \in [Node -> 0 .. MaxUpsets]

TypeParts ==
    /\ up \subseteq Node /\ started \subseteq Node
    /\ Registered /\ ThreadTypes
    /\ \A n \in Node : elapsed[n] \in 0 .. LongestRound(n)
    /\ late \subseteq Pushes
    /\ pending \subseteq Adverts(up)
    /\ upsets \in 0 .. MaxUpsets

LEMMA PartsOfTypes == (TypeOK <=> TypeParts) /\ (TypeOK' <=> TypeParts')
BY DEF TypeOK, TypeParts, Registered, Held, EntryOf, ThreadTypes, Call, Pushes, Adverts

LEMMA RoundIsNatural == \A n \in Node : LongestRound(n) \in Nat /\ 0 \in 0 .. LongestRound(n)
BY TimeIsNatural DEF LongestRound

LEMMA RoundTime ==
    ASSUME NEW n \in Node, NEW k \in Nat
    PROVE  /\ LongestRound(n) \in Nat
           /\ (2 * Len(Peers[n]) - k) * Timeout \in Int
           /\ (2 * Len(Peers[n]) - k) * Timeout <= LongestRound(n)
           /\ (2 * Len(Peers[n]) - (k - 1)) * Timeout = (2 * Len(Peers[n]) - k) * Timeout + Timeout
           /\ k = 2 * Len(Peers[n]) => (2 * Len(Peers[n]) - k) * Timeout = 0
<1> DEFINE a == 2 * Len(Peers[n])
           t == Timeout
<1>1. a \in Nat /\ t \in Nat /\ LongestRound(n) = a * t
  BY TimeIsNatural DEF LongestRound
<1> HIDE DEF a, t
<1>2. a * t \in Nat /\ k * t \in Nat /\ (a - k) * t = a * t - k * t
  BY <1>1
<1>3. (a - (k - 1)) * t = (a - k) * t + t
  BY <1>1
<1>4. k = a => (a - k) * t = 0
  BY <1>1
<1>5. (a - k) * t \in Int /\ (a - k) * t <= a * t
  BY <1>1, <1>2
<1> QED
  BY <1>1, <1>2, <1>3, <1>4, <1>5 DEF a, t

\* Registries change one at a time, or all of them age.
LEMMA OneRegistry ==
    ASSUME Registered, NEW n \in Node, NEW r, Held(n, r), entries' = [entries EXCEPT ![n] = r]
    PROVE  Registered'
BY DEF Registered, Held, EntryOf

LEMMA HeldAfterUpsert ==
    ASSUME NEW n \in Node, NEW r, Held(n, r), NEW u \in Node, NEW age \in Nat
    PROVE  Held(n, Upsert(r, u, [lag |-> age, left |-> Ttl]))
<1>1. [lag |-> age, left |-> Ttl] \in EntryOf(n)
  BY TimeAssumption, RoundTime DEF EntryOf
<1> QED
  BY <1>1 DEF Held, Upsert

LEMMA HeldAfterMerge ==
    ASSUME NEW n \in Node, NEW r, Held(n, r), NEW m \in Node, NEW learned, Held(m, learned),
           NEW left \in -LongestRound(n) .. Ttl
    PROVE  Held(n, Merge(r, learned, left))
<1>1. \A u \in DOMAIN learned : [lag |-> learned[u].lag, left |-> left] \in EntryOf(n)
  BY DEF Held, EntryOf
<1>2. \A u \in DOMAIN r : r[u] \in EntryOf(n)
  BY DEF Held
<1> QED
  BY <1>1, <1>2 DEF Held, Merge

LEMMA HeldWhileFresh ==
    ASSUME NEW n \in Node, NEW r, Held(n, r), NEW passed
    PROVE  Held(n, FreshSince(r, passed))
BY DEF Held, FreshSince

LEMMA HeldAfterStamp ==
    ASSUME NEW n \in Node, NEW r, Held(n, r), NEW u
    PROVE  Held(n, Aged(r, u))
<1>1. \A e \in EntryOf(n) : [e EXCEPT !.lag = @ + 1] \in EntryOf(n)
  BY DEF EntryOf
<1> QED
  BY <1>1 DEF Held, Aged

LEMMA AgedTypes ==
    ASSUME Registered, NEW n \in Node, entries' = [m \in Node |-> Aged(entries[m], n)]
    PROVE  Registered'
<1>1. \A m \in Node : Held(m, entries'[m])
  BY HeldAfterStamp DEF Registered
<1> QED
  BY <1>1 DEF Registered

LEMMA StampTypes ==
    ASSUME late \subseteq Pushes, NEW n \in Node, NEW carried, Stamp(n, carried)
    PROVE  late' \subseteq Pushes
<1>1. \A x \in Pushes : [x EXCEPT !.lag = @ + 1] \in Pushes
  BY DEF Pushes
<1> QED
  BY <1>1 DEF Stamp

\* A stamp that waits to be listed waits in the thread that made it.
LEMMA StampWaits ==
    ASSUME pending \subseteq Adverts(up), NEW n \in up, NEW thread \in {"gossip", "server"},
           NEW carried, StampIn(n, thread, carried)
    PROVE  /\ pending' \subseteq Adverts(up)
           /\ \A m : m # n \/ thread # "gossip" => (Free(m, "gossip")' <=> Free(m, "gossip"))
           /\ thread = "gossip" => ~Free(n, "gossip")'
<1> DEFINE older(x) == IF x.node = n THEN [x EXCEPT !.lag = @ + 1] ELSE x
           new == [node |-> n, thread |-> thread, lag |-> 0]
<1>1. pending' = {older(x) : x \in pending} \cup {new}
  BY DEF StampIn
<1>2. \A x \in Adverts(up) : /\ older(x) \in Adverts(up)
                             /\ older(x).node = x.node /\ older(x).thread = x.thread
  BY DEF Adverts
<1>3. new \in Adverts(up) /\ new.node = n /\ new.thread = thread
  BY DEF Adverts
<1> HIDE DEF older, new
<1>4. pending' \subseteq Adverts(up)
  BY <1>1, <1>2, <1>3
<1>5. ASSUME NEW m, m # n \/ thread # "gossip" PROVE Free(m, "gossip")' <=> Free(m, "gossip")
  <2>1. ASSUME NEW x \in pending, x.node = m, x.thread = "gossip"
        PROVE  \E y \in pending' : y.node = m /\ y.thread = "gossip"
    BY <1>1, <1>2, <2>1
  <2>2. ASSUME NEW y \in pending', y.node = m, y.thread = "gossip"
        PROVE  \E x \in pending : x.node = m /\ x.thread = "gossip"
    <3>1. y # new
      BY <1>3, <1>5, <2>2
    <3>2. PICK x \in pending : y = older(x)
      BY <1>1, <3>1
    <3> QED
      BY <1>2, <2>2, <3>2
  <2> QED
    BY <2>1, <2>2 DEF Free
<1>6. thread = "gossip" => ~Free(n, "gossip")'
  BY <1>1, <1>3 DEF Free
<1> QED
  BY <1>4, <1>5, <1>6

\* A thread that stands still is as much in time as before.
LEMMA StillInTime ==
    ASSUME TypeOK, NEW n \in Node, InTime(n), upsets' \in Nat, upsets <= upsets', n \in up => n \in up',
           busy'[n] = busy[n], calls'[n] = calls[n], timer'[n] = timer[n],
           elapsed'[n] = elapsed[n], advLag'[n] = advLag[n],
           Free(n, "gossip") => Free(n, "gossip")'
    PROVE  InTime(n)'
<1>1. advLag[n] \in Nat /\ upsets \in Nat
  BY PartsOfTypes DEF TypeParts, ThreadTypes
<1>2. Waited(n)' = Waited(n)
  BY DEF Waited
<1>3. CASE busy[n]
  <2>1. /\ n \in up /\ Len(calls[n]) <= 2 * Len(Peers[n])
        /\ elapsed[n] + timer[n] <= Waited(n) /\ advLag[n] <= upsets
    BY <1>3 DEF InTime
  <2>2. advLag'[n] <= upsets'
    BY <1>1, <2>1
  <2> QED
    BY <1>2, <1>3, <2>1, <2>2 DEF InTime
<1>4. CASE ~busy[n]
  BY <1>4 DEF InTime
<1> QED
  BY <1>3, <1>4

LEMMA UpsetCounts ==
    ASSUME TypeOK, Upset
    PROVE  upsets' \in 0 .. MaxUpsets /\ upsets' = upsets + 1 /\ upsets \in Nat
BY PartsOfTypes, TimeAssumption DEF TypeParts, Upset

LEMMA LifeTypes ==
    ASSUME RoundsInTime, NEW n \in Node, Start(n) \/ Stop(n) \/ Refresh(n)
    PROVE  RoundsInTime'
<1>0. /\ TypeOK /\ \A m \in Node : InTime(m)
      /\ up \subseteq Node /\ started \subseteq Node /\ Registered /\ ThreadTypes
      /\ \A m \in Node : elapsed[m] \in 0 .. LongestRound(m)
      /\ late \subseteq Pushes /\ pending \subseteq Adverts(up) /\ upsets \in 0 .. MaxUpsets /\ upsets \in Nat /\ MaxUpsets \in Nat
  BY PartsOfTypes, TimeAssumption DEF TypeParts, RoundsInTime
<1>1. CASE Start(n)
  <2>1. /\ n \notin up /\ up' = up \cup {n} /\ started' = started \cup {n} /\ Stamp(n, 0)
        /\ busy' = busy /\ calls' = calls /\ timer' = timer /\ elapsed' = elapsed
        /\ pending' = pending
        /\ Upset \/ upsets' = upsets
    BY <1>1 DEF Start, threadVars
  <2>2. Registered' /\ late' \subseteq Pushes /\ pending' \subseteq Adverts(up')
    <3>1. ASSUME NEW m \in Node PROVE Held(m, entries'[m])
      <4>1. Held(m, entries[m])
        BY <1>0 DEF Registered
      <4>2. \/ m = n /\ entries'[m] = Upsert(entries[m], n, [lag |-> 0, left |-> Ttl])
            \/ m # n /\ entries'[m] = Aged(entries[m], n)
        BY <1>1 DEF Start
      <4> QED
        BY <4>1, <4>2, HeldAfterUpsert, HeldAfterStamp
    <3>2. DOMAIN entries' = Node
      BY <1>1 DEF Start
    <3>3. pending' \subseteq Adverts(up')
      BY <1>0, <2>1 DEF Adverts
    <3> QED
      BY <1>0, <2>1, <3>1, <3>2, <3>3, StampTypes DEF Registered
  <2>3. upsets' \in 0 .. MaxUpsets /\ upsets <= upsets' /\ upsets' \in Nat
    BY <1>0, <2>1, UpsetCounts
  <2>4. ~busy[n] /\ advLag[n] = 0
    BY <1>0, <2>1 DEF InTime
  <2>5. advLag' = [advLag EXCEPT ![n] = 0]
    BY <2>1 DEF Stamp
  <2>6. ThreadTypes' /\ \A m \in Node : advLag'[m] = advLag[m]
    BY <1>0, <2>1, <2>4, <2>5 DEF ThreadTypes
  <2>7. \A m \in Node : InTime(m)'
    BY <1>0, <2>1, <2>3, <2>6, StillInTime DEF Free
  <2>8. TypeOK'
    BY <1>0, <2>1, <2>2, <2>3, <2>6, PartsOfTypes DEF TypeParts
  <2> QED
    BY <2>7, <2>8 DEF RoundsInTime
<1>2. CASE Stop(n)
  <2>1. /\ up' = up \ {n} /\ UNCHANGED <<started, upsets>>
        /\ entries' = [entries EXCEPT ![n] = Empty] /\ busy' = [busy EXCEPT ![n] = FALSE]
        /\ calls' = [calls EXCEPT ![n] = <<>>] /\ timer' = [timer EXCEPT ![n] = 0]
        /\ elapsed' = [elapsed EXCEPT ![n] = 0] /\ advLag' = [advLag EXCEPT ![n] = 0]
        /\ late' \subseteq late
        /\ pending' = {x \in pending : x.node # n}
    BY <1>2 DEF Stop
  <2>a. pending' \subseteq Adverts(up') /\ Free(n, "gossip")'
        /\ \A m \in Node : Free(m, "gossip") => Free(m, "gossip")'
    BY <1>0, <2>1 DEF Adverts, Free
  <2>2. Registered'
    <3>1. Held(n, Empty)
      BY DEF Held, Empty
    <3> QED
      BY <1>0, <2>1, <3>1, OneRegistry
  <2>3. ThreadTypes'
    <3>1. /\ calls \in [Node -> Seq(Call)] /\ <<>> \in Seq(Call)
          /\ 0 \in 0 .. (Interval + Timeout) /\ 0 \in 0 .. MaxUpsets
      BY <1>0, TimeAssumption DEF ThreadTypes
    <3>2. calls' \in [Node -> Seq(Call)]
      BY <2>1, <3>1
    <3> QED
      BY <1>0, <2>1, <3>1, <3>2 DEF ThreadTypes
  <2>4. ~busy'[n] /\ elapsed'[n] = 0 /\ advLag'[n] = 0 /\ timer'[n] = 0
    BY <1>0, <2>1 DEF ThreadTypes
  <2>5. \A m \in Node : elapsed'[m] \in 0 .. LongestRound(m)
    BY <1>0, <2>1, RoundIsNatural DEF ThreadTypes
  <2>6. ASSUME NEW m \in Node PROVE InTime(m)'
    <3>1. CASE m = n
      BY <2>4, <2>a, <3>1, TimeAssumption DEF InTime
    <3>2. CASE m # n
      <4>1. /\ busy'[m] = busy[m] /\ calls'[m] = calls[m] /\ timer'[m] = timer[m]
            /\ elapsed'[m] = elapsed[m] /\ advLag'[m] = advLag[m]
            /\ m \in up => m \in up'
        BY <1>0, <2>1, <3>2 DEF ThreadTypes
      <4>2. upsets' \in Nat /\ upsets <= upsets'
        BY <1>0, <2>1
      <4> QED
        BY <1>0, <2>a, <4>1, <4>2, StillInTime
    <3> QED
      BY <3>1, <3>2
  <2>7. TypeOK'
    BY <1>0, <2>1, <2>a, <2>2, <2>3, <2>5, PartsOfTypes DEF TypeParts
  <2> QED
    BY <2>6, <2>7 DEF RoundsInTime
<1>3. CASE Refresh(n)
  <2>1. /\ n \in up /\ Upset /\ UNCHANGED <<up, started>>
        /\ StampIn(n, "server", IF busy[n] THEN advLag[n] + 1 ELSE 0)
        /\ busy' = busy /\ calls' = calls /\ timer' = timer /\ elapsed' = elapsed
    BY <1>3 DEF Refresh, Serves, threadVars
  <2>2. Registered' /\ late' \subseteq Pushes
    BY <1>0, <2>1, StampTypes, AgedTypes DEF StampIn
  <2>a. pending' \subseteq Adverts(up') /\ \A m \in Node : Free(m, "gossip")' <=> Free(m, "gossip")
    BY <1>0, <2>1, StampWaits
  <2>3. upsets' \in 0 .. MaxUpsets /\ upsets' = upsets + 1 /\ upsets <= upsets' /\ upsets' \in Nat
    BY <1>0, <2>1, UpsetCounts
  <2> DEFINE carried == IF busy[n] THEN advLag[n] + 1 ELSE 0
  <2>4. /\ carried \in 0 .. MaxUpsets /\ carried <= upsets'
        /\ ~busy[n] => carried = 0
    <3>1. advLag[n] \in Nat /\ (busy[n] => advLag[n] <= upsets)
      BY <1>0 DEF ThreadTypes, InTime
    <3> QED
      BY <1>0, <2>3, <3>1
  <2>5. advLag' = [advLag EXCEPT ![n] = carried]
    BY <2>1 DEF Stamp, StampIn
  <2> HIDE DEF carried
  <2>6. /\ ThreadTypes' /\ advLag'[n] = carried
        /\ \A m \in Node \ {n} : advLag'[m] = advLag[m]
    BY <1>0, <2>1, <2>4, <2>5 DEF ThreadTypes
  <2>7. ASSUME NEW m \in Node PROVE InTime(m)'
    <3>1. CASE m = n
      <4>1. InTime(m) /\ Waited(m)' = Waited(m) /\ (Free(m, "gossip")' <=> Free(m, "gossip"))
        BY <1>0, <2>1, <2>a DEF Waited
      <4> QED
        BY <2>1, <2>4, <2>6, <3>1, <4>1 DEF InTime
    <3>2. CASE m # n
      BY <1>0, <2>1, <2>a, <2>3, <2>6, <3>2, StillInTime
    <3> QED
      BY <3>1, <3>2
  <2>8. TypeOK'
    BY <1>0, <2>1, <2>a, <2>2, <2>3, <2>6, PartsOfTypes DEF TypeParts
  <2> QED
    BY <2>7, <2>8 DEF RoundsInTime
<1> QED
  BY <1>1, <1>2, <1>3

\* A round that begins has all of its calls before it.
LEMMA BeginTypes ==
    ASSUME RoundsInTime, NEW n \in Node, Begin(n)
    PROVE  RoundsInTime'
<1>0. /\ TypeOK /\ \A m \in Node : InTime(m)
      /\ up \subseteq Node /\ started \subseteq Node /\ Registered /\ ThreadTypes
      /\ \A m \in Node : elapsed[m] \in 0 .. LongestRound(m)
      /\ late \subseteq Pushes /\ pending \subseteq Adverts(up) /\ upsets \in 0 .. MaxUpsets /\ upsets \in Nat /\ MaxUpsets \in Nat
  BY PartsOfTypes, TimeAssumption DEF TypeParts, RoundsInTime
<1>1. /\ n \in up /\ ~busy[n] /\ timer[n] = 0
      /\ busy' = [busy EXCEPT ![n] = TRUE] /\ calls' = [calls EXCEPT ![n] = Calls(n)]
      /\ StampIn(n, "gossip", 0) /\ UNCHANGED <<up, timer, elapsed, started, upsets>>
  BY DEF Begin
<1>2. Registered' /\ late' \subseteq Pushes
  BY <1>0, <1>1, StampTypes, AgedTypes DEF StampIn
<1>a. /\ pending' \subseteq Adverts(up')
      /\ \A m \in Node \ {n} : Free(m, "gossip")' <=> Free(m, "gossip")
  BY <1>0, <1>1, StampWaits
<1>3. Calls(n) \in Seq(Call) /\ Len(Calls(n)) = 2 * Len(Peers[n])
  <2>1. Peers[n] \in Seq(Node) /\ Len(Peers[n]) \in Nat
    BY NodeAssumption
  <2>2. \A i \in 1 .. 2 * Len(Peers[n]) : (i + 1) \div 2 \in 1 .. Len(Peers[n])
    BY <2>1
  <2>3. \A i \in 1 .. 2 * Len(Peers[n]) : Calls(n)[i] \in Call
    BY <2>1, <2>2 DEF Calls, Call
  <2> DEFINE m == 2 * Len(Peers[n])
  <2>4. m \in Nat
    BY <2>1
  <2>5. Calls(n) = [i \in 1 .. m |-> Calls(n)[i]] /\ \A i \in 1 .. m : Calls(n)[i] \in Call
    BY <2>3 DEF Calls
  <2> HIDE DEF m
  <2>6. Calls(n) \in [1 .. m -> Call]
    BY <2>5
  <2>7. Calls(n) \in Seq(Call) /\ Len(Calls(n)) = m
    BY <2>4, <2>6
  <2> QED
    BY <2>7 DEF m
<1>4. advLag' = [advLag EXCEPT ![n] = 0]
  BY <1>1 DEF Stamp, StampIn
<1>5. ThreadTypes'
  <2>1. calls' \in [Node -> Seq(Call)]
    BY <1>0, <1>1, <1>3 DEF ThreadTypes
  <2> QED
    BY <1>0, <1>1, <1>4, <2>1 DEF ThreadTypes
<1>6. busy'[n] /\ calls'[n] = Calls(n) /\ advLag'[n] = 0 /\ elapsed'[n] = 0 /\ timer'[n] = 0
  BY <1>0, <1>1, <1>4 DEF ThreadTypes, InTime
<1>7. Waited(n)' = 0
  <2>1. Waited(n)' = (2 * Len(Peers[n]) - Len(calls'[n])) * Timeout /\ Len(calls'[n]) = 2 * Len(Peers[n])
    BY <1>3, <1>6 DEF Waited
  <2>2. Len(calls'[n]) \in Nat
    BY <2>1, TimeIsNatural
  <2> QED
    BY <2>1, <2>2, RoundTime
<1>8. ASSUME NEW m \in Node PROVE InTime(m)'
  <2>1. CASE m = n
    <3>1. Len(calls'[n]) <= 2 * Len(Peers[n])
      BY <1>3, <1>6, TimeIsNatural
    <3> QED
      BY <1>0, <1>1, <1>6, <1>7, <2>1, <3>1 DEF InTime
  <2>2. CASE m # n
    <3>1. /\ busy'[m] = busy[m] /\ calls'[m] = calls[m] /\ timer'[m] = timer[m]
          /\ elapsed'[m] = elapsed[m] /\ advLag'[m] = advLag[m] /\ up' = up
      BY <1>0, <1>1, <1>4, <2>2 DEF ThreadTypes
    <3>2. upsets' \in Nat /\ upsets <= upsets'
      BY <1>0, <1>1
    <3> QED
      BY <1>0, <1>a, <2>2, <3>1, <3>2, StillInTime
  <2> QED
    BY <2>1, <2>2
<1>9. TypeOK'
  BY <1>0, <1>1, <1>a, <1>2, <1>5, PartsOfTypes DEF TypeParts
<1> QED
  BY <1>8, <1>9 DEF RoundsInTime

LEMMA ListTypes ==
    ASSUME RoundsInTime, NEW x \in pending, List(x)
    PROVE  RoundsInTime'
<1>0. /\ TypeOK /\ \A m \in Node : InTime(m)
      /\ up \subseteq Node /\ started \subseteq Node /\ Registered /\ ThreadTypes
      /\ \A m \in Node : elapsed[m] \in 0 .. LongestRound(m)
      /\ late \subseteq Pushes /\ pending \subseteq Adverts(up) /\ upsets \in 0 .. MaxUpsets /\ upsets \in Nat
  BY PartsOfTypes, TimeAssumption DEF TypeParts, RoundsInTime
<1>1. /\ pending' = pending \ {x}
      /\ entries' = [entries EXCEPT ![x.node] =
                        Upsert(entries[x.node], x.node, [lag |-> x.lag, left |-> Ttl])]
      /\ UNCHANGED <<up, busy, calls, timer, elapsed, advLag, late, started, upsets>>
  BY DEF List, threadVars
<1>2. x.node \in Node /\ x.lag \in Nat
  BY <1>0 DEF Adverts
<1>3. Registered'
  <2>1. Held(x.node, Upsert(entries[x.node], x.node, [lag |-> x.lag, left |-> Ttl]))
    BY <1>0, <1>2, HeldAfterUpsert DEF Registered
  <2> QED
    BY <1>0, <1>1, <1>2, <2>1, OneRegistry
<1>4. \A m \in Node : Free(m, "gossip") => Free(m, "gossip")'
  BY <1>1 DEF Free
<1>5. \A m \in Node : InTime(m)'
  BY <1>0, <1>1, <1>4, StillInTime
<1>6. TypeOK'
  <2>1. ThreadTypes' /\ pending' \subseteq Adverts(up')
    BY <1>0, <1>1 DEF ThreadTypes
  <2> QED
    BY <1>0, <1>1, <1>3, <2>1, PartsOfTypes DEF TypeParts
<1> QED
  BY <1>5, <1>6 DEF RoundsInTime

\* A call takes a timeout at most.
LEMMA CallTypes ==
    ASSUME RoundsInTime, NEW n \in Node, NEW p \in Node, NEW op, Due(n, op, p),
           UNCHANGED <<up, busy, elapsed, advLag, pending, started>>,
           NEW wait \in {0, Timeout}, timer' = [timer EXCEPT ![n] = wait],
           Registered', late' \subseteq Pushes, upsets' = upsets \/ Upset
    PROVE  RoundsInTime'
<1>0. /\ TypeOK /\ \A m \in Node : InTime(m)
      /\ up \subseteq Node /\ started \subseteq Node /\ ThreadTypes
      /\ \A m \in Node : elapsed[m] \in 0 .. LongestRound(m)
      /\ upsets \in 0 .. MaxUpsets /\ upsets \in Nat /\ MaxUpsets \in Nat
  BY PartsOfTypes, TimeAssumption DEF TypeParts, RoundsInTime
<1>1. /\ n \in up /\ busy[n] /\ timer[n] = 0 /\ Free(n, "gossip") /\ calls[n] # <<>>
      /\ calls' = [calls EXCEPT ![n] = Tail(@)]
  BY DEF Due
<1>a. \A m \in Node : Free(m, "gossip")' <=> Free(m, "gossip")
  BY DEF Free
<1>2. upsets' \in 0 .. MaxUpsets /\ upsets <= upsets' /\ upsets' \in Nat
  BY <1>0, UpsetCounts
<1>3. calls[n] \in Seq(Call) /\ Tail(calls[n]) \in Seq(Call)
      /\ Len(Tail(calls[n])) = Len(calls[n]) - 1 /\ Len(calls[n]) \in Nat
  BY <1>0, <1>1 DEF ThreadTypes
<1>4. /\ calls' \in [Node -> Seq(Call)] /\ calls'[n] = Tail(calls[n])
      /\ \A m \in Node \ {n} : calls'[m] = calls[m]
  BY <1>0, <1>1, <1>3 DEF ThreadTypes
<1>5. /\ timer' \in [Node -> 0 .. (Interval + Timeout)] /\ timer'[n] = wait
      /\ \A m \in Node \ {n} : timer'[m] = timer[m]
  BY <1>0, TimeAssumption DEF ThreadTypes
<1>6. ThreadTypes'
  BY <1>0, <1>4, <1>5 DEF ThreadTypes
<1>7. Waited(n)' = Waited(n) + Timeout /\ Waited(n) \in Int
  <2>1. Waited(n)' = (2 * Len(Peers[n]) - (Len(calls[n]) - 1)) * Timeout
    BY <1>3, <1>4 DEF Waited
  <2> QED
    BY <1>3, <2>1, RoundTime DEF Waited
<1>8. InTime(n)'
  <2>1. /\ Len(calls[n]) <= 2 * Len(Peers[n]) /\ elapsed[n] + timer[n] <= Waited(n)
        /\ advLag[n] <= upsets /\ elapsed[n] \in Nat /\ advLag[n] \in Nat
    BY <1>0, <1>1 DEF InTime, ThreadTypes
  <2>2. wait \in Nat /\ wait <= Timeout /\ Timeout \in Nat
    BY TimeAssumption
  <2>3. elapsed'[n] + timer'[n] <= Waited(n)'
    BY <1>1, <1>5, <1>7, <2>1, <2>2
  <2>4. Len(calls'[n]) <= 2 * Len(Peers[n])
    BY <1>3, <1>4, <2>1, TimeIsNatural
  <2>5. advLag'[n] <= upsets'
    BY <1>0, <1>2, <2>1
  <2> QED
    BY <1>1, <1>a, <2>3, <2>4, <2>5 DEF InTime
<1>9. \A m \in Node \ {n} : InTime(m)'
  BY <1>0, <1>a, <1>2, <1>4, <1>5, StillInTime
<1>10. TypeOK'
  BY <1>0, <1>2, <1>6, PartsOfTypes DEF TypeParts
<1> QED
  BY <1>8, <1>9, <1>10 DEF RoundsInTime

LEMMA RoundTypes ==
    ASSUME RoundsInTime, NEW n \in Node, NEW p \in Node,
           Pull(n, p) \/ Push(n, p) \/ GivenUp(n, p) \/ CallFails(n, p)
    PROVE  RoundsInTime'
<1>0. Registered /\ ThreadTypes /\ late \subseteq Pushes /\ elapsed[n] \in 0 .. LongestRound(n)
  BY PartsOfTypes DEF TypeParts, RoundsInTime
<1>1. timer[n] = 0 => timer = [timer EXCEPT ![n] = 0]
  BY <1>0 DEF ThreadTypes
<1>2. CASE Pull(n, p)
  <2>1. /\ Due(n, "pull", p) /\ UNCHANGED <<up, busy, timer, elapsed, advLag, late, pending, started, upsets>>
        /\ entries' = [entries EXCEPT ![n] = Merge(entries[n], Visible(p), Ttl - elapsed[n])]
        /\ timer[n] = 0
    BY <1>2 DEF Pull, Due
  <2>2. Ttl - elapsed[n] \in -LongestRound(n) .. Ttl
    <3>1. LongestRound(n) \in Nat /\ Ttl \in Nat
      BY RoundTime, TimeIsNatural
    <3> QED
      BY <1>0, <3>1
  <2>3. Held(n, entries[n]) /\ Held(p, Visible(p))
    BY <1>0, HeldWhileFresh DEF Registered, Visible
  <2>4. Registered'
    BY <1>0, <2>1, <2>2, <2>3, HeldAfterMerge, OneRegistry
  <2>5. timer' = [timer EXCEPT ![n] = 0] /\ 0 \in {0, Timeout}
    BY <1>1, <2>1
  <2> QED
    BY <1>0, <2>1, <2>4, <2>5, CallTypes
<1>3. CASE Push(n, p)
  <2>1. /\ Due(n, "push", p) /\ UNCHANGED <<up, busy, timer, elapsed, advLag, late, pending, started, upsets>>
        /\ entries' = [entries EXCEPT ![p] = Upsert(entries[p], n, [lag |-> advLag[n], left |-> Ttl])]
        /\ timer[n] = 0
    BY <1>3 DEF Push, Due
  <2>2. Held(p, entries[p]) /\ advLag[n] \in Nat
    BY <1>0 DEF Registered, ThreadTypes
  <2>3. Registered'
    BY <1>0, <2>1, <2>2, HeldAfterUpsert, OneRegistry
  <2>4. timer' = [timer EXCEPT ![n] = 0] /\ 0 \in {0, Timeout}
    BY <1>1, <2>1
  <2> QED
    BY <1>0, <2>1, <2>3, <2>4, CallTypes
<1>4. CASE GivenUp(n, p)
  <2>1. /\ UNCHANGED <<up, entries, busy, elapsed, advLag, pending, started>> /\ Upset
        /\ timer' = [timer EXCEPT ![n] = Timeout]
    BY <1>4 DEF GivenUp
  <2>2. PICK op \in {"pull", "push"} : Due(n, op, p)
    BY <1>4 DEF GivenUp
  <2>3. late' \subseteq Pushes
    <3>1. advLag[n] \in Nat
      BY <1>0 DEF ThreadTypes
    <3>2. \A wait \in Timeout .. MaxBusy :
            [from |-> n, to |-> p, lag |-> advLag[n], wait |-> wait] \in Pushes
      BY <3>1, TimeAssumption DEF Pushes
    <3> QED
      BY <1>0, <1>4, <3>2 DEF GivenUp
  <2>4. Registered'
    BY <1>0, <2>1 DEF Registered
  <2>5. Timeout \in {0, Timeout}
    OBVIOUS
  <2> QED
    BY <2>1, <2>2, <2>3, <2>4, <2>5, CallTypes
<1>5. CASE CallFails(n, p)
  <2>1. /\ UNCHANGED <<up, entries, busy, elapsed, advLag, late, pending, started, upsets>>
        /\ timer' = [timer EXCEPT ![n] = IF p \in Silent THEN Timeout ELSE 0]
    BY <1>5 DEF CallFails
  <2>2. PICK op \in {"pull", "push"} : Due(n, op, p)
    BY <1>5 DEF CallFails
  <2>3. Registered'
    BY <1>0, <2>1 DEF Registered
  <2>4. (IF p \in Silent THEN Timeout ELSE 0) \in {0, Timeout}
    OBVIOUS
  <2> QED
    BY <1>0, <2>1, <2>2, <2>3, <2>4, CallTypes
<1> QED
  BY <1>2, <1>3, <1>4, <1>5

LEMMA PruneTypes ==
    ASSUME RoundsInTime, NEW n \in Node, Prune(n)
    PROVE  RoundsInTime'
<1>0. /\ TypeOK /\ \A m \in Node : InTime(m)
      /\ up \subseteq Node /\ started \subseteq Node /\ Registered /\ ThreadTypes
      /\ \A m \in Node : elapsed[m] \in 0 .. LongestRound(m)
      /\ late \subseteq Pushes /\ pending \subseteq Adverts(up) /\ upsets \in 0 .. MaxUpsets /\ upsets \in Nat /\ MaxUpsets \in Nat
  BY PartsOfTypes, TimeAssumption DEF TypeParts, RoundsInTime
<1>1. /\ entries' = [entries EXCEPT ![n] = FreshSince(entries[n], elapsed[n])]
      /\ busy' = [busy EXCEPT ![n] = FALSE] /\ timer' = [timer EXCEPT ![n] = Interval]
      /\ elapsed' = [elapsed EXCEPT ![n] = 0] /\ advLag' = [advLag EXCEPT ![n] = 0]
      /\ UNCHANGED <<up, calls, late, pending, started, upsets>> /\ Free(n, "gossip")
  BY DEF Prune
<1>a. \A m \in Node : Free(m, "gossip")' <=> Free(m, "gossip")
  BY <1>1 DEF Free
<1>2. Registered'
  <2>1. Held(n, FreshSince(entries[n], elapsed[n]))
    BY <1>0, HeldWhileFresh DEF Registered
  <2> QED
    BY <1>0, <1>1, <2>1, OneRegistry
<1>3. ThreadTypes'
  <2>1. Interval \in 0 .. (Interval + Timeout) /\ 0 \in 0 .. MaxUpsets
    BY <1>0, TimeAssumption
  <2> QED
    BY <1>0, <1>1, <2>1 DEF ThreadTypes
<1>4. ~busy'[n] /\ elapsed'[n] = 0 /\ advLag'[n] = 0 /\ timer'[n] = Interval /\ Interval \in Nat
  BY <1>0, <1>1, TimeAssumption DEF ThreadTypes
<1>5. \A m \in Node : elapsed'[m] \in 0 .. LongestRound(m)
  BY <1>0, <1>1, RoundIsNatural DEF ThreadTypes
<1>6. ASSUME NEW m \in Node PROVE InTime(m)'
  <2>1. CASE m = n
    BY <1>1, <1>a, <1>4, <2>1 DEF InTime
  <2>2. CASE m # n
    <3>1. /\ busy'[m] = busy[m] /\ calls'[m] = calls[m] /\ timer'[m] = timer[m]
          /\ elapsed'[m] = elapsed[m] /\ advLag'[m] = advLag[m] /\ up' = up
      BY <1>0, <1>1, <2>2 DEF ThreadTypes
    <3>2. upsets' \in Nat /\ upsets <= upsets'
      BY <1>0, <1>1
    <3> QED
      BY <1>0, <1>a, <3>1, <3>2, StillInTime
  <2> QED
    BY <2>1, <2>2
<1>7. TypeOK'
  BY <1>0, <1>1, <1>2, <1>3, <1>5, PartsOfTypes DEF TypeParts
<1> QED
  BY <1>6, <1>7 DEF RoundsInTime

LEMMA LateTypes ==
    ASSUME RoundsInTime, NEW x \in late, HandleLate(x)
    PROVE  RoundsInTime'
<1>0. /\ TypeOK /\ \A m \in Node : InTime(m)
      /\ up \subseteq Node /\ started \subseteq Node /\ Registered /\ ThreadTypes
      /\ \A m \in Node : elapsed[m] \in 0 .. LongestRound(m)
      /\ late \subseteq Pushes /\ pending \subseteq Adverts(up) /\ upsets \in 0 .. MaxUpsets /\ upsets \in Nat
  BY PartsOfTypes, TimeAssumption DEF TypeParts, RoundsInTime
<1>1. /\ late' = late \ {x}
      /\ entries' = [entries EXCEPT ![x.to] =
                        Upsert(entries[x.to], x.from, [lag |-> x.lag, left |-> Ttl])]
      /\ UNCHANGED <<up, busy, calls, timer, elapsed, advLag, pending, started, upsets>>
  BY DEF HandleLate, threadVars
<1>2. x.to \in Node /\ x.from \in Node /\ x.lag \in Nat
  BY <1>0 DEF Pushes
<1>3. Registered'
  <2>1. Held(x.to, Upsert(entries[x.to], x.from, [lag |-> x.lag, left |-> Ttl]))
    BY <1>0, <1>2, HeldAfterUpsert DEF Registered
  <2> QED
    BY <1>0, <1>1, <1>2, <2>1, OneRegistry
<1>4. \A m \in Node : InTime(m)'
  BY <1>0, <1>1, StillInTime DEF Free
<1>5. TypeOK'
  <2>1. ThreadTypes'
    BY <1>0, <1>1 DEF ThreadTypes
  <2> QED
    BY <1>0, <1>1, <1>3, <2>1, PartsOfTypes DEF TypeParts
<1> QED
  BY <1>4, <1>5 DEF RoundsInTime

\* A unit of time is one more that a round lasts and one less that its call takes.
LEMMA TickTypes ==
    ASSUME RoundsInTime, Tick
    PROVE  RoundsInTime'
<1>0. /\ TypeOK /\ \A m \in Node : InTime(m)
      /\ up \subseteq Node /\ started \subseteq Node /\ Registered /\ ThreadTypes
      /\ \A m \in Node : elapsed[m] \in 0 .. LongestRound(m)
      /\ late \subseteq Pushes /\ pending \subseteq Adverts(up) /\ upsets \in 0 .. MaxUpsets /\ upsets \in Nat
  BY PartsOfTypes, TimeAssumption DEF TypeParts, RoundsInTime
<1> DEFINE Older(n, e) == [e EXCEPT !.left = IF @ > -LongestRound(n) THEN @ - 1 ELSE @]
<1>1. /\ pending = {}
      /\ \A n \in up : timer[n] > 0
      /\ \A x \in late : x.wait > 0
      /\ late' = {[x EXCEPT !.wait = @ - 1] : x \in late}
      /\ timer' = [n \in Node |-> IF n \in up THEN timer[n] - 1 ELSE 0]
      /\ elapsed' = [n \in Node |-> IF busy[n] THEN elapsed[n] + 1 ELSE 0]
      /\ entries' = [n \in Node |-> [u \in DOMAIN entries[n] |-> Older(n, entries[n][u])]]
      /\ UNCHANGED <<up, busy, calls, advLag, pending, started, upsets>>
  BY DEF Tick
<1>2. \A n \in Node : \A e \in EntryOf(n) : Older(n, e) \in EntryOf(n)
  <2> SUFFICES ASSUME NEW n \in Node, NEW e \in EntryOf(n) PROVE Older(n, e) \in EntryOf(n)
    OBVIOUS
  <2>1. LongestRound(n) \in Nat /\ Ttl \in Nat
    BY RoundTime, TimeIsNatural
  <2>2. (IF e.left > -LongestRound(n) THEN e.left - 1 ELSE e.left) \in -LongestRound(n) .. Ttl
    BY <2>1 DEF EntryOf
  <2> QED
    BY <2>2 DEF EntryOf
<1> HIDE DEF Older
<1>3. Registered'
  <2>1. ASSUME NEW n \in Node PROVE Held(n, entries'[n])
    <3>1. entries'[n] = [u \in DOMAIN entries[n] |-> Older(n, entries[n][u])]
      BY <1>1
    <3>2. DOMAIN entries[n] \subseteq Node /\ \A u \in DOMAIN entries[n] : entries[n][u] \in EntryOf(n)
      BY <1>0 DEF Registered, Held
    <3> QED
      BY <1>2, <3>1, <3>2 DEF Held
  <2> QED
    BY <1>1, <2>1 DEF Registered
<1>4. late' \subseteq Pushes
  <2>1. \A x \in late : [x EXCEPT !.wait = @ - 1] \in Pushes
    BY <1>0, <1>1, TimeAssumption DEF Pushes
  <2> QED
    BY <1>1, <2>1
<1>5. ASSUME NEW n \in Node
      PROVE  /\ timer'[n] \in 0 .. (Interval + Timeout)
             /\ elapsed'[n] \in 0 .. LongestRound(n)
             /\ InTime(n)'
  <2>1. /\ timer[n] \in 0 .. (Interval + Timeout) /\ elapsed[n] \in Nat /\ Len(calls[n]) \in Nat
        /\ calls[n] \in Seq(Call) /\ Interval + Timeout \in Nat /\ LongestRound(n) \in Nat
    BY <1>0, TimeAssumption, RoundTime DEF ThreadTypes
  <2>2. timer'[n] = (IF n \in up THEN timer[n] - 1 ELSE 0) /\ (n \in up => timer[n] > 0)
    BY <1>1
  <2>3. timer'[n] \in 0 .. (Interval + Timeout)
    BY <2>1, <2>2
  <2>4. Waited(n) \in Int /\ Waited(n) <= LongestRound(n) /\ Waited(n)' = Waited(n)
    BY <1>1, <2>1, RoundTime DEF Waited
  <2>a. Free(n, "gossip")'
    BY <1>1 DEF Free
  <2>5. CASE busy[n]
    <3>1. /\ n \in up /\ Len(calls[n]) <= 2 * Len(Peers[n])
          /\ elapsed[n] + timer[n] <= Waited(n) /\ advLag[n] <= upsets
      BY <1>0, <2>5 DEF InTime
    <3>2. elapsed'[n] = elapsed[n] + 1 /\ timer'[n] = timer[n] - 1 /\ timer[n] > 0
      BY <1>1, <2>2, <2>5, <3>1
    <3>3. elapsed'[n] + timer'[n] <= Waited(n) /\ elapsed'[n] \in 0 .. LongestRound(n)
      BY <2>1, <2>4, <3>1, <3>2
    <3> QED
      BY <1>1, <2>a, <2>3, <2>4, <2>5, <3>1, <3>3 DEF InTime
  <2>6. CASE ~busy[n]
    <3>1. elapsed'[n] = 0 /\ advLag'[n] = 0 /\ timer[n] <= Interval
      BY <1>0, <1>1, <2>6 DEF InTime
    <3>2. timer'[n] <= Interval
      BY <2>1, <2>2, <3>1, TimeAssumption
    <3> QED
      BY <1>1, <2>1, <2>a, <2>3, <2>6, <3>1, <3>2 DEF InTime
  <2> QED
    BY <2>5, <2>6
<1>6. ThreadTypes'
  <2>1. elapsed' \in [Node -> Nat] /\ timer' \in [Node -> 0 .. (Interval + Timeout)]
    BY <1>0, <1>1, <1>5 DEF ThreadTypes
  <2> QED
    BY <1>0, <1>1, <2>1 DEF ThreadTypes
<1>7. TypeOK'
  BY <1>0, <1>1, <1>3, <1>4, <1>5, <1>6, PartsOfTypes DEF TypeParts
<1> QED
  BY <1>5, <1>7 DEF RoundsInTime

LEMMA TypesInit == Init => RoundsInTime
<1> SUFFICES ASSUME Init PROVE RoundsInTime
  OBVIOUS
<1>1. Registered
  BY DEF Init, Registered, Held, Empty
<1>2. ThreadTypes /\ upsets \in 0 .. MaxUpsets
  BY TimeAssumption DEF Init, ThreadTypes
<1>3. \A n \in Node : elapsed[n] \in 0 .. LongestRound(n) /\ InTime(n)
  <2> TAKE n \in Node
  <2>1. LongestRound(n) \in Nat
    BY RoundTime
  <2> QED
    BY <2>1, TimeAssumption DEF Init, InTime, Free
<1> QED
  BY <1>1, <1>2, <1>3, PartsOfTypes DEF RoundsInTime, TypeParts, Init

LEMMA TypesNext == RoundsInTime /\ [Next]_vars => RoundsInTime'
<1> SUFFICES ASSUME RoundsInTime, [Next]_vars PROVE RoundsInTime'
  OBVIOUS
<1>1. CASE UNCHANGED vars
  BY <1>1 DEF vars, threadVars, RoundsInTime, TypeOK, InTime, Waited, LongestRound, Free
<1>2. ASSUME NEW n \in Node, Round(n) PROVE RoundsInTime'
  BY <1>2, BeginTypes, PruneTypes, RoundTypes DEF Round
<1> QED
  BY <1>1, <1>2, LifeTypes, ListTypes, LateTypes, TickTypes DEF Next

\* TypeOK, for any network and any peers: what Tick takes for granted, that no
\* round is longer than its calls may take, is so.
THEOREM GossipTypes == Spec => []TypeOK
<1>1. RoundsInTime => TypeOK
  BY DEF RoundsInTime
<1> QED
  BY <1>1, TypesInit, TypesNext, PTL DEF Spec

-----------------------------------------------------------------------------
(* The own entry of every node that runs *)

\* The longest round, in which every pull and every push times out, ends and is
\* slept off before an entry listed at its beginning expires (server.py:106-142).
RoundsFitTtl == \A n \in Node : Interval + LongestRound(n) < Ttl

\* How much of its life the own entry of n can have spent, at most: what the
\* round waited, but for what is left of its current call; before the round has
\* listed its advert, what the last one may have waited, and what it slept.
Spent(n) ==
    IF busy[n] /\ Free(n, "gossip") THEN Waited(n) - timer[n]
    ELSE LongestRound(n) + Interval - timer[n]

Paced(n) == n \in DOMAIN entries[n] /\ entries[n][n].left >= Ttl - Spent(n)

\* The inductive invariant.
OwnEntriesPaced == RoundsInTime /\ \A n \in up : Paced(n)

\* What is used of the types, in one place.
LEMMA TimesOf ==
    ASSUME RoundsInTime, NEW n \in Node
    PROVE  /\ up \subseteq Node /\ Registered
           /\ LongestRound(n) \in Nat /\ Waited(n) \in Int /\ Waited(n) <= LongestRound(n)
           /\ timer[n] \in Nat /\ elapsed[n] \in Nat
           /\ Interval \in Nat /\ Timeout \in Nat /\ Ttl \in Nat
           /\ calls[n] = <<>> => Waited(n) = LongestRound(n)
           /\ \A u \in DOMAIN entries[n] : entries[n][u].left \in Int /\ entries[n][u].left <= Ttl
<1>1. up \subseteq Node /\ Registered /\ ThreadTypes
  BY PartsOfTypes DEF TypeParts, RoundsInTime
<1>2. Len(calls[n]) \in Nat /\ (calls[n] = <<>> => Len(calls[n]) = 0)
  BY <1>1 DEF ThreadTypes
<1>3. LongestRound(n) \in Nat /\ Waited(n) \in Int /\ Waited(n) <= LongestRound(n)
  BY <1>2, RoundTime DEF Waited
<1>4. calls[n] = <<>> => Waited(n) = LongestRound(n)
  <2>1. (2 * Len(Peers[n]) - 0) * Timeout = (2 * Len(Peers[n])) * Timeout
    BY TimeIsNatural
  <2> QED
    BY <1>2, <2>1 DEF Waited, LongestRound
<1>5. timer[n] \in Nat /\ elapsed[n] \in Nat
  BY <1>1, TimeAssumption DEF ThreadTypes
<1>6. \A u \in DOMAIN entries[n] : entries[n][u].left \in Int /\ entries[n][u].left <= Ttl
  <2>1. \A e \in EntryOf(n) : e.left \in Int /\ e.left <= Ttl
    BY <1>3, TimeIsNatural DEF EntryOf
  <2> QED
    BY <1>1, <2>1 DEF Registered, Held
<1> QED
  BY <1>1, <1>3, <1>4, <1>5, <1>6, TimeIsNatural

\* An entry is never older than its round, and never outlives the longest one.
LEMMA SpentInTime ==
    ASSUME RoundsInTime, NEW n \in Node
    PROVE  /\ Spent(n) \in Int /\ elapsed[n] <= Spent(n)
           /\ RoundsFitTtl => Spent(n) < Ttl
<1>1. /\ InTime(n)
      /\ LongestRound(n) \in Nat /\ Waited(n) \in Int /\ Waited(n) <= LongestRound(n)
      /\ timer[n] \in Nat /\ elapsed[n] \in Nat /\ Interval \in Nat /\ Ttl \in Nat
  BY TimesOf DEF RoundsInTime
<1>2. RoundsFitTtl => Interval + LongestRound(n) < Ttl
  BY DEF RoundsFitTtl
<1>3. CASE busy[n] /\ Free(n, "gossip")
  <2>1. Spent(n) = Waited(n) - timer[n] /\ elapsed[n] + timer[n] <= Waited(n)
    BY <1>1, <1>3 DEF Spent, InTime
  <2> QED
    BY <1>1, <1>2, <2>1
<1>4. CASE ~(busy[n] /\ Free(n, "gossip"))
  <2>1. /\ Spent(n) = LongestRound(n) + Interval - timer[n]
        /\ elapsed[n] = 0 /\ timer[n] <= Interval
    BY <1>1, <1>4 DEF Spent, InTime
  <2> QED
    BY <1>1, <1>2, <2>1
<1> QED
  BY <1>3, <1>4

\* The same of the next state.
LaterTimes(n) ==
    /\ Spent(n) \in Int /\ elapsed[n] <= Spent(n)
    /\ timer[n] \in Nat /\ elapsed[n] \in Nat
    /\ \A u \in DOMAIN entries[n] : entries[n][u].left \in Int

LEMMA NextTimes == RoundsInTime' => (\A n \in Node : LaterTimes(n))'
<1>1. RoundsInTime => \A n \in Node : LaterTimes(n)
  BY TimesOf, SpentInTime DEF LaterTimes
<1> QED
  BY <1>1, PTL

\* The own entry of n lives at least as long as it did.
OwnEntryKept(n) ==
    n \in DOMAIN entries[n] =>
        n \in DOMAIN entries'[n] /\ entries'[n][n].left >= entries[n][n].left

LEMMA KeptIsPaced ==
    ASSUME RoundsInTime, RoundsInTime', NEW n \in Node, Paced(n), OwnEntryKept(n), Spent(n)' >= Spent(n)
    PROVE  Paced(n)'
<1>1. /\ n \in DOMAIN entries[n] /\ n \in DOMAIN entries'[n]
      /\ entries[n][n].left >= Ttl - Spent(n) /\ entries'[n][n].left >= entries[n][n].left
  BY DEF Paced, OwnEntryKept
<1>2. entries[n][n].left \in Int /\ Ttl \in Nat /\ Spent(n) \in Int
  BY <1>1, TimesOf, SpentInTime
<1>3. entries'[n][n].left \in Int /\ Spent(n)' \in Int
  BY <1>1, NextTimes DEF LaterTimes
<1> QED
  BY <1>1, <1>2, <1>3 DEF Paced

\* What is good for a ttl from the clock of the round lives long enough.
LEMMA RenewedIsPaced ==
    ASSUME RoundsInTime', NEW n \in Node,
           n \in DOMAIN entries'[n], entries'[n][n].left >= Ttl - elapsed'[n]
    PROVE  Paced(n)'
<1>1. /\ entries'[n][n].left \in Int /\ Ttl \in Nat /\ elapsed'[n] \in Nat
      /\ Spent(n)' \in Int /\ elapsed'[n] <= Spent(n)'
  BY NextTimes, TimeAssumption DEF LaterTimes
<1> QED
  BY <1>1 DEF Paced

\* A thread that stands still spends no more of its entry.
StandsStill(n) ==
    /\ busy'[n] = busy[n] /\ calls'[n] = calls[n] /\ timer'[n] = timer[n]
    /\ Free(n, "gossip")' <=> Free(n, "gossip")

LEMMA StillIsPaced ==
    ASSUME RoundsInTime, RoundsInTime', NEW n \in Node, Paced(n), OwnEntryKept(n), StandsStill(n)
    PROVE  Paced(n)'
<1>1. Spent(n)' = Spent(n) /\ Spent(n) \in Int
  BY SpentInTime DEF StandsStill, Spent, Waited, LongestRound
<1> QED
  BY <1>1, KeptIsPaced

\* What is listed is good for a whole ttl, and a stamp only makes a copy older.
LEMMA UpsertKeeps ==
    ASSUME RoundsInTime, NEW p \in Node, NEW n, NEW age,
           entries' = [entries EXCEPT ![p] = Upsert(entries[p], n, [lag |-> age, left |-> Ttl])]
    PROVE  \A m \in Node : OwnEntryKept(m)
<1>1. Registered /\ \A m \in Node : \A u \in DOMAIN entries[m] : entries[m][u].left \in Int /\ entries[m][u].left <= Ttl
  BY TimesOf
<1> DEFINE e == [lag |-> age, left |-> Ttl]
           r == entries[p]
<1>2. /\ \A m \in Node \ {p} : entries'[m] = entries[m]
      /\ entries'[p] = Upsert(r, n, e)
      /\ e.left = Ttl
  BY <1>1 DEF Registered
<1> HIDE DEF e
<1>3. \A u \in DOMAIN r : u \in DOMAIN Upsert(r, n, e) /\ (Upsert(r, n, e)[u] = r[u] \/ Upsert(r, n, e)[u] = e)
  BY DEF Upsert
<1>4. ASSUME NEW m \in Node PROVE OwnEntryKept(m)
  <2>1. CASE m = p
    BY <1>1, <1>2, <1>3, <2>1, TimeAssumption DEF OwnEntryKept
  <2>2. CASE m # p
    BY <1>1, <1>2, <2>2 DEF OwnEntryKept
  <2> QED
    BY <2>1, <2>2
<1> QED
  BY <1>4

LEMMA AgedKeeps ==
    ASSUME RoundsInTime, NEW m \in Node, NEW n, entries'[m] = Aged(entries[m], n)
    PROVE  OwnEntryKept(m)
<1>1. Registered /\ \A u \in DOMAIN entries[m] : entries[m][u].left \in Int
  BY TimesOf
<1>2. \A u \in DOMAIN entries[m] : u \in DOMAIN Aged(entries[m], n) /\ Aged(entries[m], n)[u].left = entries[m][u].left
  <2>1. \A e \in EntryOf(m) : [e EXCEPT !.lag = @ + 1].left = e.left
    BY DEF EntryOf
  <2> QED
    BY <1>1, <2>1 DEF Aged, Registered, Held
<1> QED
  BY <1>1, <1>2 DEF OwnEntryKept

-----------------------------------------------------------------------------
(* The life of a node, and what it lists *)

LEMMA StartPaces ==
    ASSUME OwnEntriesPaced, RoundsInTime', NEW n \in Node, Start(n) PROVE OwnEntriesPaced'
<1>1. /\ RoundsInTime /\ \A m \in up : Paced(m)
      /\ up' = up \cup {n} /\ up \subseteq Node /\ n \notin up
      /\ UNCHANGED <<busy, calls, timer, elapsed, pending>>
      /\ entries'[n] = Upsert(entries[n], n, [lag |-> 0, left |-> Ttl])
      /\ \A m \in Node \ {n} : entries'[m] = Aged(entries[m], n)
  BY TimesOf DEF OwnEntriesPaced, Start, threadVars
<1>2. Paced(n)'
  <2>1. n \in DOMAIN entries'[n] /\ entries'[n][n].left = Ttl
    BY <1>1 DEF Upsert
  <2>2. Ttl \in Nat /\ elapsed'[n] \in Nat
    BY NextTimes, TimeAssumption DEF LaterTimes
  <2> QED
    BY <2>1, <2>2, RenewedIsPaced
<1>3. ASSUME NEW m \in up PROVE Paced(m)'
  <2>1. m \in Node /\ Paced(m) /\ OwnEntryKept(m)
    BY <1>1, AgedKeeps
  <2>2. StandsStill(m)
    BY <1>1 DEF StandsStill, Free
  <2> QED
    BY <1>1, <2>1, <2>2, StillIsPaced
<1> QED
  BY <1>1, <1>2, <1>3 DEF OwnEntriesPaced

LEMMA StopPaces ==
    ASSUME OwnEntriesPaced, RoundsInTime', NEW n \in Node, Stop(n) PROVE OwnEntriesPaced'
<1>1. /\ RoundsInTime /\ \A m \in up : Paced(m)
      /\ up' = up \ {n} /\ up \subseteq Node /\ Registered
      /\ \A m \in Node : \A u \in DOMAIN entries[m] : entries[m][u].left \in Int
      /\ entries' = [entries EXCEPT ![n] = Empty]
      /\ busy' = [busy EXCEPT ![n] = FALSE] /\ calls' = [calls EXCEPT ![n] = <<>>]
      /\ timer' = [timer EXCEPT ![n] = 0]
      /\ pending' = {x \in pending : x.node # n}
  BY TimesOf DEF OwnEntriesPaced, Stop
<1>2. ThreadTypes
  BY <1>1, PartsOfTypes DEF TypeParts, RoundsInTime
<1>3. ASSUME NEW m \in up' PROVE Paced(m)'
  <2>1. m \in Node /\ m # n /\ Paced(m)
    BY <1>1
  <2>2. OwnEntryKept(m)
    BY <1>1, <2>1 DEF OwnEntryKept, Registered
  <2>3. StandsStill(m)
    BY <1>1, <1>2, <2>1 DEF StandsStill, Free, ThreadTypes
  <2> QED
    BY <1>1, <2>1, <2>2, <2>3, StillIsPaced
<1> QED
  BY <1>3 DEF OwnEntriesPaced

LEMMA RefreshPaces ==
    ASSUME OwnEntriesPaced, RoundsInTime', NEW n \in Node, Refresh(n) PROVE OwnEntriesPaced'
<1>1. /\ RoundsInTime /\ \A m \in up : Paced(m)
      /\ up' = up /\ up \subseteq Node /\ n \in up
      /\ UNCHANGED <<busy, calls, timer, elapsed>>
      /\ \A m \in Node : entries'[m] = Aged(entries[m], n)
  BY TimesOf DEF OwnEntriesPaced, Refresh, Serves, StampIn, threadVars
<1>2. \A m \in Node : Free(m, "gossip")' <=> Free(m, "gossip")
  <2>1. pending \subseteq Adverts(up)
    BY <1>1, PartsOfTypes DEF TypeParts, RoundsInTime
  <2>2. StampIn(n, "server", IF busy[n] THEN advLag[n] + 1 ELSE 0)
    BY DEF Refresh
  <2> QED
    BY <1>1, <2>1, <2>2, StampWaits
<1>3. ASSUME NEW m \in up' PROVE Paced(m)'
  <2>1. m \in Node /\ Paced(m) /\ OwnEntryKept(m)
    BY <1>1, AgedKeeps
  <2>2. StandsStill(m)
    BY <1>1, <1>2, <2>1 DEF StandsStill
  <2> QED
    BY <1>1, <2>1, <2>2, StillIsPaced
<1> QED
  BY <1>3 DEF OwnEntriesPaced

\* Listing an own advert renews the own entry, in whatever order it comes.
LEMMA ListPaces ==
    ASSUME OwnEntriesPaced, RoundsInTime', NEW x \in pending, List(x) PROVE OwnEntriesPaced'
<1>1. /\ RoundsInTime /\ \A m \in up : Paced(m)
      /\ pending \subseteq Adverts(up) /\ up' = up /\ up \subseteq Node
      /\ UNCHANGED <<busy, calls, timer, elapsed>> /\ pending' = pending \ {x}
      /\ entries' = [entries EXCEPT ![x.node] =
                        Upsert(entries[x.node], x.node, [lag |-> x.lag, left |-> Ttl])]
  BY PartsOfTypes DEF TypeParts, OwnEntriesPaced, RoundsInTime, List, threadVars
<1>2. x.node \in Node
  BY <1>1 DEF Adverts
<1>3. ASSUME NEW m \in up' PROVE Paced(m)'
  <2>1. CASE m = x.node
    <3>1. m \in DOMAIN entries'[m] /\ entries'[m][m].left = Ttl
      <4>1. m \in DOMAIN entries
        BY <1>1, <1>2, <2>1, TimesOf DEF Registered
      <4>2. entries'[m] = Upsert(entries[m], m, [lag |-> x.lag, left |-> Ttl])
        BY <1>1, <2>1, <4>1
      <4> QED
        BY <4>2 DEF Upsert
    <3>2. Ttl \in Nat /\ elapsed'[m] \in Nat
      BY <1>2, <2>1, NextTimes, TimeAssumption DEF LaterTimes
    <3> QED
      BY <1>2, <2>1, <3>1, <3>2, RenewedIsPaced
  <2>2. CASE m # x.node
    <3>1. m \in Node /\ Paced(m) /\ OwnEntryKept(m)
      BY <1>1, <1>2, UpsertKeeps
    <3>2. StandsStill(m)
      BY <1>1, <2>2 DEF StandsStill, Free
    <3> QED
      BY <1>1, <3>1, <3>2, StillIsPaced
  <2> QED
    BY <2>1, <2>2
<1> QED
  BY <1>3 DEF OwnEntriesPaced

LEMMA HandleLatePaces ==
    ASSUME OwnEntriesPaced, RoundsInTime', NEW x \in late, HandleLate(x) PROVE OwnEntriesPaced'
<1>1. /\ RoundsInTime /\ \A m \in up : Paced(m)
      /\ late \subseteq Pushes /\ up' = up /\ up \subseteq Node
      /\ UNCHANGED <<busy, calls, timer, pending>>
      /\ entries' = [entries EXCEPT ![x.to] =
                        Upsert(entries[x.to], x.from, [lag |-> x.lag, left |-> Ttl])]
  BY PartsOfTypes DEF TypeParts, OwnEntriesPaced, RoundsInTime, HandleLate, threadVars
<1>2. x.to \in Node
  BY <1>1 DEF Pushes
<1>3. ASSUME NEW m \in up' PROVE Paced(m)'
  <2>1. m \in Node /\ Paced(m) /\ OwnEntryKept(m)
    BY <1>1, <1>2, UpsertKeeps
  <2>2. StandsStill(m)
    BY <1>1 DEF StandsStill, Free
  <2> QED
    BY <1>1, <2>1, <2>2, StillIsPaced
<1> QED
  BY <1>3 DEF OwnEntriesPaced

-----------------------------------------------------------------------------
(* A round *)

\* The old entry lasts until the round has listed its advert.
LEMMA BeginPaces ==
    ASSUME OwnEntriesPaced, RoundsInTime', NEW n \in Node, Begin(n) PROVE OwnEntriesPaced'
<1>1. /\ RoundsInTime /\ \A m \in up : Paced(m)
      /\ up' = up /\ up \subseteq Node /\ n \in up /\ ~busy[n]
      /\ busy' = [busy EXCEPT ![n] = TRUE] /\ calls' = [calls EXCEPT ![n] = Calls(n)]
      /\ timer' = timer
      /\ \A m \in Node : entries'[m] = Aged(entries[m], n)
      /\ StampIn(n, "gossip", 0) /\ ThreadTypes /\ pending \subseteq Adverts(up)
  BY TimesOf, PartsOfTypes DEF TypeParts, RoundsInTime, OwnEntriesPaced, Begin, StampIn
<1>2. /\ ~Free(n, "gossip")'
      /\ \A m \in Node \ {n} : Free(m, "gossip")' <=> Free(m, "gossip")
  BY <1>1, StampWaits
<1>3. ASSUME NEW m \in up' PROVE Paced(m)'
  <2>1. m \in Node /\ Paced(m) /\ OwnEntryKept(m)
    BY <1>1, AgedKeeps
  <2>2. CASE m = n
    <3>1. Spent(n)' = Spent(n) /\ Spent(n) \in Int
      BY <1>1, <1>2, SpentInTime DEF Spent, LongestRound
    <3> QED
      BY <1>1, <2>1, <2>2, <3>1, KeptIsPaced
  <2>3. CASE m # n
    <3>1. StandsStill(m)
      BY <1>1, <1>2, <2>1, <2>3 DEF StandsStill, ThreadTypes
    <3> QED
      BY <1>1, <2>1, <3>1, StillIsPaced
  <2> QED
    BY <2>2, <2>3
<1> QED
  BY <1>3 DEF OwnEntriesPaced

\* A call takes a timeout at most, which the round has waited for then.
LEMMA CallPaces ==
    ASSUME OwnEntriesPaced, RoundsInTime', NEW n \in Node, NEW p \in Node, NEW op, Due(n, op, p),
           up' = up, busy' = busy, elapsed' = elapsed, pending' = pending,
           \A m \in Node \ {n} : timer'[m] = timer[m],
           timer'[n] <= Timeout,
           \A m \in Node \ {n} : OwnEntryKept(m),
           \/ OwnEntryKept(n)
           \/ n \in DOMAIN entries'[n] /\ entries'[n][n].left = Ttl - elapsed[n]
    PROVE  OwnEntriesPaced'
<1>1. /\ RoundsInTime /\ \A m \in up : Paced(m) /\ up \subseteq Node
      /\ busy[n] /\ timer[n] = 0 /\ Free(n, "gossip") /\ calls[n] # <<>>
      /\ calls' = [calls EXCEPT ![n] = Tail(@)] /\ ThreadTypes
  BY TimesOf, PartsOfTypes DEF TypeParts, RoundsInTime, OwnEntriesPaced, Due
<1>2. /\ \A m \in Node \ {n} : calls'[m] = calls[m]
      /\ Len(calls[n]) \in Nat /\ Len(calls'[n]) = Len(calls[n]) - 1
  BY <1>1 DEF ThreadTypes
<1>3. \A m : Free(m, "gossip")' <=> Free(m, "gossip")
  BY DEF Free
<1>4. Paced(n) => Paced(n)'
  <2>1. CASE OwnEntryKept(n)
    <3>1. Waited(n)' = Waited(n) + Timeout /\ Waited(n) \in Int /\ Timeout \in Nat
      BY <1>2, RoundTime, TimeAssumption DEF Waited
    <3>2. Spent(n) = Waited(n) - timer[n] /\ Spent(n)' = Waited(n)' - timer'[n]
      BY <1>1, <1>3 DEF Spent
    <3>3. timer'[n] \in Nat
      BY NextTimes DEF LaterTimes
    <3>4. Spent(n)' >= Spent(n)
      BY <1>1, <3>1, <3>2, <3>3
    <3> QED
      BY <1>1, <2>1, <3>4, KeptIsPaced
  <2>2. CASE n \in DOMAIN entries'[n] /\ entries'[n][n].left = Ttl - elapsed[n]
    <3>1. Ttl \in Nat /\ elapsed[n] \in Nat
      BY <1>1, TimesOf
    <3> QED
      BY <2>2, <3>1, RenewedIsPaced
  <2> QED
    BY <2>1, <2>2
<1>5. ASSUME NEW m \in up, m # n PROVE Paced(m)'
  <2>1. m \in Node /\ Paced(m) /\ OwnEntryKept(m) /\ StandsStill(m)
    BY <1>1, <1>2, <1>3, <1>5 DEF StandsStill
  <2> QED
    BY <1>1, <2>1, StillIsPaced
<1> QED
  BY <1>1, <1>4, <1>5 DEF OwnEntriesPaced

\* A pull may bring the newer of two own adverts back that the older one replaced.
LEMMA PullPaces ==
    ASSUME OwnEntriesPaced, RoundsInTime', NEW n \in Node, NEW p \in Node, Pull(n, p)
    PROVE  OwnEntriesPaced'
<1>1. /\ Due(n, "pull", p) /\ timer[n] = 0
      /\ UNCHANGED <<up, busy, timer, elapsed, pending>>
      /\ entries' = [entries EXCEPT ![n] = Merge(entries[n], Visible(p), Ttl - elapsed[n])]
  BY DEF Pull, Due
<1>2. RoundsInTime /\ Registered /\ Timeout \in Nat /\ elapsed[n] \in Nat /\ Ttl \in Nat
      /\ \A m \in Node : \A u \in DOMAIN entries[m] : entries[m][u].left \in Int
  BY TimesOf DEF OwnEntriesPaced
<1> DEFINE r == entries[n]
           l == Visible(p)
           t == Ttl - elapsed[n]
<1>3. entries'[n] = Merge(r, l, t) /\ \A m \in Node \ {n} : entries'[m] = entries[m]
  BY <1>1, <1>2 DEF Registered
<1>4. \A m \in Node \ {n} : OwnEntryKept(m)
  BY <1>2, <1>3 DEF OwnEntryKept
<1>5. \/ OwnEntryKept(n)
      \/ n \in DOMAIN entries'[n] /\ entries'[n][n].left = Ttl - elapsed[n]
  <2>1. ASSUME n \in DOMAIN r
        PROVE  n \in DOMAIN Merge(r, l, t) /\ (Merge(r, l, t)[n] = r[n] \/ Merge(r, l, t)[n].left = t)
    <3> HIDE DEF r, l, t
    <3> QED
      BY <2>1 DEF Merge
  <2> QED
    BY <1>2, <1>3, <2>1 DEF OwnEntryKept
<1> HIDE DEF r, l, t
<1>6. \A m \in Node \ {n} : timer'[m] = timer[m]
  BY <1>1
<1>7. timer'[n] <= Timeout
  BY <1>1, <1>2
<1>8. up' = up /\ busy' = busy /\ elapsed' = elapsed /\ pending' = pending
  BY <1>1
<1> QED
  BY <1>1, <1>4, <1>5, <1>6, <1>7, <1>8, CallPaces

LEMMA PushPaces ==
    ASSUME OwnEntriesPaced, RoundsInTime', NEW n \in Node, NEW p \in Node, Push(n, p)
    PROVE  OwnEntriesPaced'
<1>1. /\ Due(n, "push", p) /\ timer[n] = 0
      /\ UNCHANGED <<up, busy, timer, elapsed, pending>>
      /\ entries' = [entries EXCEPT ![p] = Upsert(entries[p], n, [lag |-> advLag[n], left |-> Ttl])]
  BY DEF Push, Due
<1>2. RoundsInTime /\ Timeout \in Nat
  BY TimesOf DEF OwnEntriesPaced
<1>3. \A m \in Node : OwnEntryKept(m)
  BY <1>1, <1>2, UpsertKeeps
<1>4. timer'[n] <= Timeout /\ \A m \in Node \ {n} : timer'[m] = timer[m]
  BY <1>1, <1>2
<1> QED
  BY <1>1, <1>3, <1>4, CallPaces

LEMMA WaitPaces ==
    ASSUME OwnEntriesPaced, RoundsInTime', NEW n \in Node, NEW p \in Node, GivenUp(n, p) \/ CallFails(n, p)
    PROVE  OwnEntriesPaced'
<1>1. PICK op \in {"pull", "push"} : Due(n, op, p)
  BY DEF GivenUp, CallFails
<1>2. /\ UNCHANGED <<up, entries, busy, elapsed, pending>>
      /\ \E wait \in {0, Timeout} : timer' = [timer EXCEPT ![n] = wait]
  BY DEF GivenUp, CallFails
<1>3. RoundsInTime /\ ThreadTypes /\ Timeout \in Nat
      /\ \A m \in Node : \A u \in DOMAIN entries[m] : entries[m][u].left \in Int
  BY TimesOf, PartsOfTypes DEF TypeParts, RoundsInTime, OwnEntriesPaced
<1>4. \A m \in Node : OwnEntryKept(m)
  BY <1>2, <1>3 DEF OwnEntryKept
<1>5. timer'[n] <= Timeout /\ \A m \in Node \ {n} : timer'[m] = timer[m]
  BY <1>2, <1>3 DEF ThreadTypes
<1> QED
  BY <1>1, <1>2, <1>4, <1>5, CallPaces

\* The round ends before its own entry expires, which is pruned by the clock of
\* its beginning, and sleeps for an interval.
LEMMA PrunePaces ==
    ASSUME RoundsFitTtl, OwnEntriesPaced, RoundsInTime', NEW n \in Node, Prune(n)
    PROVE  OwnEntriesPaced'
<1>1. /\ RoundsInTime /\ \A m \in up : Paced(m)
      /\ up' = up /\ up \subseteq Node /\ n \in up /\ busy[n] /\ timer[n] = 0
      /\ calls[n] = <<>> /\ Free(n, "gossip")
      /\ entries' = [entries EXCEPT ![n] = FreshSince(entries[n], elapsed[n])]
      /\ busy' = [busy EXCEPT ![n] = FALSE] /\ timer' = [timer EXCEPT ![n] = Interval]
      /\ calls' = calls /\ pending' = pending /\ ThreadTypes /\ Registered
  BY TimesOf, PartsOfTypes DEF TypeParts, RoundsInTime, OwnEntriesPaced, Prune
<1>2. \A m : Free(m, "gossip")' <=> Free(m, "gossip")
  BY <1>1 DEF Free
<1>3. /\ entries[n][n].left \in Int /\ elapsed[n] \in Nat /\ Ttl \in Nat /\ Interval \in Nat
      /\ LongestRound(n) \in Nat /\ Waited(n) = LongestRound(n) /\ n \in DOMAIN entries[n]
  BY <1>1, TimesOf DEF Paced
<1>4. entries[n][n].left + elapsed[n] > 0
  <2>1. Spent(n) < Ttl /\ Spent(n) \in Int /\ entries[n][n].left >= Ttl - Spent(n)
    BY <1>1, SpentInTime DEF Paced
  <2> QED
    BY <1>3, <2>1
<1>5. OwnEntryKept(n)
  <2>1. n \in DOMAIN FreshSince(entries[n], elapsed[n])
        /\ FreshSince(entries[n], elapsed[n])[n] = entries[n][n]
    BY <1>3, <1>4 DEF FreshSince
  <2>2. entries'[n] = FreshSince(entries[n], elapsed[n])
    BY <1>1 DEF Registered
  <2> QED
    BY <1>3, <2>1, <2>2 DEF OwnEntryKept
<1>6. Spent(n)' >= Spent(n)
  <2>1. Spent(n) = LongestRound(n) - 0
    BY <1>1, <1>3 DEF Spent
  <2>2. Spent(n)' = LongestRound(n) + Interval - Interval
    BY <1>1 DEF Spent, ThreadTypes, LongestRound
  <2> QED
    BY <1>3, <2>1, <2>2
<1>7. ASSUME NEW m \in up' PROVE Paced(m)'
  <2>1. CASE m = n
    BY <1>1, <1>5, <1>6, <2>1, KeptIsPaced
  <2>2. CASE m # n
    <3>1. m \in Node /\ Paced(m) /\ StandsStill(m)
      BY <1>1, <1>2, <2>2 DEF StandsStill, ThreadTypes
    <3>2. OwnEntryKept(m)
      <4>1. entries'[m] = entries[m] /\ \A u \in DOMAIN entries[m] : entries[m][u].left \in Int
        BY <1>1, <2>2, <3>1, TimesOf DEF Registered
      <4> QED
        BY <4>1 DEF OwnEntryKept
    <3> QED
      BY <1>1, <3>1, <3>2, StillIsPaced
  <2> QED
    BY <2>1, <2>2
<1> QED
  BY <1>7 DEF OwnEntriesPaced

\* A unit of time comes off the entry and off what its node waits for.
LEMMA TickPaces ==
    ASSUME OwnEntriesPaced, RoundsInTime', Tick PROVE OwnEntriesPaced'
<1> DEFINE Older(n, e) == [e EXCEPT !.left = IF @ > -LongestRound(n) THEN @ - 1 ELSE @]
<1>1. /\ RoundsInTime /\ \A n \in up : Paced(n) /\ timer[n] > 0
      /\ up \subseteq Node /\ up' = up /\ busy' = busy /\ calls' = calls
      /\ pending = {} /\ pending' = pending
      /\ timer' = [n \in Node |-> IF n \in up THEN timer[n] - 1 ELSE 0]
      /\ entries' = [n \in Node |-> [u \in DOMAIN entries[n] |-> Older(n, entries[n][u])]]
  <2>1. RoundsInTime /\ (\A n \in up : Paced(n)) /\ up \subseteq Node
    BY PartsOfTypes DEF TypeParts, RoundsInTime, OwnEntriesPaced
  <2>2. /\ \A n \in up : timer[n] > 0
        /\ up' = up /\ busy' = busy /\ calls' = calls
        /\ pending = {} /\ pending' = pending
        /\ timer' = [n \in Node |-> IF n \in up THEN timer[n] - 1 ELSE 0]
        /\ entries' = [n \in Node |-> [u \in DOMAIN entries[n] |-> Older(n, entries[n][u])]]
    BY DEF Tick
  <2> HIDE DEF Older
  <2> QED
    BY <2>1, <2>2
<1>2. ASSUME NEW n \in up PROVE Paced(n)'
  <2>1. /\ n \in Node /\ n \in DOMAIN entries[n] /\ entries[n][n].left >= Ttl - Spent(n)
        /\ entries[n][n] \in EntryOf(n)
    BY <1>1, TimesOf DEF Paced, Registered, Held
  <2>2. entries[n][n].left \in Int /\ Ttl \in Nat /\ Interval \in Nat /\ timer[n] \in Nat
        /\ Waited(n) \in Int /\ LongestRound(n) \in Nat /\ Spent(n) \in Int
    BY <1>1, <2>1, TimesOf, SpentInTime
  <2>3. n \in DOMAIN entries'[n] /\ entries'[n][n] = Older(n, entries[n][n])
    BY <1>1, <2>1
  <2>4. entries'[n][n].left >= entries[n][n].left - 1 /\ entries'[n][n].left \in Int
    <3>1. \A e \in EntryOf(n) : e.left \in Int =>
            Older(n, e).left = (IF e.left > -LongestRound(n) THEN e.left - 1 ELSE e.left)
      BY DEF EntryOf
    <3> HIDE DEF Older
    <3> QED
      BY <2>1, <2>2, <2>3, <3>1
  <2>5. Free(n, "gossip") /\ Free(n, "gossip")'
    BY <1>1 DEF Free
  <2>6. timer'[n] = timer[n] - 1 /\ Waited(n)' = Waited(n) /\ LongestRound(n)' = LongestRound(n)
    BY <1>1, <2>1 DEF Waited, LongestRound
  <2>7. Spent(n)' = Spent(n) + 1
    <3>1. CASE busy[n]
      BY <1>1, <2>2, <2>5, <2>6, <3>1 DEF Spent
    <3>2. CASE ~busy[n]
      BY <1>1, <2>2, <2>6, <3>2 DEF Spent
    <3> QED
      BY <3>1, <3>2
  <2> QED
    BY <2>1, <2>2, <2>3, <2>4, <2>7 DEF Paced
<1> QED
  BY <1>1, <1>2 DEF OwnEntriesPaced

-----------------------------------------------------------------------------
LEMMA PacedInit == Init => OwnEntriesPaced
BY TypesInit DEF Init, OwnEntriesPaced

LEMMA PacedNext ==
    ASSUME RoundsFitTtl PROVE OwnEntriesPaced /\ [Next]_vars => OwnEntriesPaced'
<1> SUFFICES ASSUME OwnEntriesPaced, [Next]_vars PROVE OwnEntriesPaced'
  OBVIOUS
<1>0. RoundsInTime'
  BY TypesNext DEF OwnEntriesPaced
<1>1. CASE UNCHANGED vars
  BY <1>0, <1>1 DEF vars, threadVars, OwnEntriesPaced, Paced, Spent, Waited, LongestRound, Free
<1>2. ASSUME NEW n \in Node, Round(n) PROVE OwnEntriesPaced'
  BY <1>0, <1>2, BeginPaces, PrunePaces, PullPaces, PushPaces, WaitPaces DEF Round
<1> QED
  BY <1>0, <1>1, <1>2, StartPaces, StopPaces, RefreshPaces, ListPaces, HandleLatePaces, TickPaces DEF Next

\* OwnEntryHeld: in a swarm whose longest round ends before an entry listed at its
\* beginning expires, a node that runs always finds itself in its own registry,
\* whatever stops, restarts, times out or arrives late, and also when its two
\* threads list their adverts in the other order than they stamped them.
THEOREM OwnEntryStays ==
    ASSUME RoundsFitTtl PROVE Spec => []OwnEntryHeld
<1>1. OwnEntriesPaced => OwnEntryHeld
  <2> SUFFICES ASSUME OwnEntriesPaced, NEW n \in up PROVE n \in Knows(n)
    BY DEF OwnEntryHeld
  <2>1. RoundsInTime /\ n \in Node /\ n \in DOMAIN entries[n] /\ entries[n][n].left >= Ttl - Spent(n)
    BY PartsOfTypes DEF OwnEntriesPaced, RoundsInTime, TypeParts, Paced
  <2>2. entries[n][n].left \in Int /\ Ttl \in Nat /\ Spent(n) \in Int /\ Spent(n) < Ttl
    BY <2>1, TimesOf, SpentInTime
  <2>3. entries[n][n].left + 0 > 0
    BY <2>1, <2>2
  <2> QED
    BY <2>1, <2>3 DEF Knows, Visible, FreshSince
<1> QED
  BY <1>1, PacedInit, PacedNext, PTL DEF Spec

=============================================================================
