---------------------------- MODULE SwarmCanvas ----------------------------
(***************************************************************************)
(* The animated mesh of peers, drawn by the dashboard's network page       *)
(* (app/src/SwarmCanvas.jsx) and by the landing page                       *)
(* (web/src/components/SwarmCanvas.jsx), which differ in the least number  *)
(* of peers they draw.  A canvas is a record; a frame of its animation     *)
(* maps it to what it may be afterwards.                                   *)
(*                                                                         *)
(* Peers are placed at random and drift, but the edges are those of the    *)
(* places they were given.  One pulse stands for the three and more: they  *)
(* move alike and apart.  Colours and speeds are left out.                 *)
(***************************************************************************)
EXTENDS Integers, Sequences, FiniteSets

CONSTANTS Places  \* placements tried, of equally many peers: sequences of points <<x, y>>

ASSUME PlacesAssumption ==
    /\ Places # {}
    /\ \A at \in Places : at \in Seq(Int \X Int)
    /\ \A at, to \in Places : Len(at) = Len(to)

Least(floor, n) == IF n < floor THEN floor ELSE n

\* What a frame finds when nothing was drawn yet.
Undrawn == [width |-> 0, n |-> 0]
Pulseless == <<0, 0>>

NoCanvas ==
    [frame |-> FALSE, count |-> 0, drawn |-> Undrawn, mesh |-> {}, pulse |-> Pulseless]

\* The effects of a mount: a frame is requested, the count is set.
Mounted(count) == [NoCanvas EXCEPT !.frame = TRUE, !.count = count]

\* The effect of a new count: the next frame is to place the peers again.
Counted(c, count) ==
    IF count = c.count THEN c
    ELSE [c EXCEPT !.count = count, !.drawn.n = 0]

-----------------------------------------------------------------------------
(* init() *)

Apart(p, q) == (p[1] - q[1]) * (p[1] - q[1]) + (p[2] - q[2]) * (p[2] - q[2])

\* The order of i's neighbours: by distance, itself last, stable.
Nearer(at, i, j, k) ==
    /\ j # i
    /\ \/ k = i
       \/ Apart(at[i], at[j]) < Apart(at[i], at[k])
       \/ Apart(at[i], at[j]) = Apart(at[i], at[k]) /\ j < k

NearestTwo(at, i) ==
    {j \in DOMAIN at : Cardinality({k \in DOMAIN at : Nearer(at, i, k, j)}) < 2}

\* Whoever is among the nearest two of the other is its neighbour, and
\* between two peers each is also its own second nearest.
Mesh(at) ==
    {e \in (DOMAIN at) \X (DOMAIN at) :
        e[2] \in NearestTwo(at, e[1]) \/ e[1] \in NearestTwo(at, e[2])}

\* The meshes that n peers can make.
Meshes ==
    [n \in 2 .. Len(CHOOSE at \in Places : TRUE) |-> {Mesh(SubSeq(at, 1, n)) : at \in Places}]

\* A slip: the pulses survive the peers they ran between.
PlacedUnderPulses(c, drawn) ==
    {[c EXCEPT !.drawn = drawn, !.mesh = m, !.pulse = IF @ = Pulseless THEN <<1, 2>> ELSE @]
        : m \in Meshes[drawn.n]}

\* New places, new edges, new pulses.
Placed(c, drawn) ==
    UNION {{[c EXCEPT !.drawn = drawn, !.mesh = m, !.pulse = e] : e \in m} : m \in Meshes[drawn.n]}

-----------------------------------------------------------------------------
(* draw() *)

\* A pulse moves on, or has arrived and leaves for a neighbour.
Glides(c) ==
    {c} \union {[c EXCEPT !.pulse = e] : e \in {e \in c.mesh : e[1] = c.pulse[2]}}

\* A frame that finds no room requests the next.  One that places a single
\* peer looks for its second nearest, and the exception it raises there ends
\* the animation before the next frame is requested.
Frames(c, floor, width) ==
    LET drawn == [width |-> width, n |-> Least(floor, c.count)]
    IN  CASE ~c.frame -> {}
          [] c.frame /\ width < 2 -> {c}
          [] c.frame /\ width >= 2 /\ drawn = c.drawn -> Glides(c)
          [] c.frame /\ width >= 2 /\ drawn # c.drawn /\ drawn.n >= 2 -> Placed(c, drawn)
          [] c.frame /\ width >= 2 /\ drawn # c.drawn /\ drawn.n = 1 ->
                {[c EXCEPT !.frame = FALSE, !.drawn = drawn]}

\* What is on its edges: the pulse that is drawn runs along an edge between
\* peers that are drawn.
OnItsEdges(c) ==
    c.frame /\ c.drawn.n > 0 =>
        /\ c.mesh \subseteq (1..c.drawn.n) \X (1..c.drawn.n)
        /\ c.pulse \in c.mesh

=============================================================================
