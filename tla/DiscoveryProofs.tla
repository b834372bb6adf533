--------------------------- MODULE DiscoveryProofs ---------------------------
(***************************************************************************)
(* What build_chain returns is a way through the whole model, and it       *)
(* returns one exactly when the greedy tiling gets through and both ends   *)
(* are announced: for any finite set of blocks, overlapping, empty or past *)
(* the end of the model as they may be, and any ranking of the nodes. The  *)
(* facts on numbers that all the proofs share come first.                  *)
(***************************************************************************)
EXTENDS Discovery, Progress, Integers, FiniteSetTheorems, WellFoundedInduction, TLAPS

\* The blocks of a swarm as its nodes may announce them.
FiniteBlocks(blocks) == IsFiniteSet(blocks) /\ blocks \subseteq Nat \X Nat

Covers(b, i) == b[1] <= i /\ i < b[2]

-----------------------------------------------------------------------------
(* Least elements: induction over numbers, and why nothing gets less for ever *)

\* Every set of natural numbers has a least element.
LEMMA LeastExists ==
    ASSUME NEW S \in SUBSET Nat, S # {}
    PROVE  \E m \in S : \A k \in S : m <= k
<1> DEFINE R == OpToRel(<, Nat)
<1>1. IsWellFoundedOn(R, Nat)
  BY NatLessThanWellFounded
<1>2. \A k, m \in Nat : <<k, m>> \in R <=> k < m
  BY DEF OpToRel
<1> HIDE DEF R
<1>3. PICK m \in S : \A k \in S : ~(<<k, m>> \in R)
  BY <1>1, WFMin
<1>4. ASSUME NEW k \in S PROVE m <= k
  <2>1. k \in Nat /\ m \in Nat
    OBVIOUS
  <2>2. ~(<<k, m>> \in R)
    BY <1>3
  <2>3. ~(k < m)
    BY <1>2, <2>1, <2>2
  <2> QED
    BY <2>1, <2>3
<1> QED
  BY <1>4

Fourfold == Nat \X Nat \X Nat \X Nat

\* Less is decided by the first number that differs.
LEMMA LessAt ==
    ASSUME NEW a1, NEW a2, NEW a3, NEW a4, NEW b1, NEW b2, NEW b3, NEW b4,
           \/ a1 < b1
           \/ a1 = b1 /\ a2 < b2
           \/ a1 = b1 /\ a2 = b2 /\ a3 < b3
           \/ a1 = b1 /\ a2 = b2 /\ a3 = b3 /\ a4 < b4
    PROVE  Less(<<a1, a2, a3, a4>>, <<b1, b2, b3, b4>>)
<1> DEFINE a == <<a1, a2, a3, a4>>
           b == <<b1, b2, b3, b4>>
<1>1. /\ a[1] = a1 /\ a[2] = a2 /\ a[3] = a3 /\ a[4] = a4
      /\ b[1] = b1 /\ b[2] = b2 /\ b[3] = b3 /\ b[4] = b4
  OBVIOUS
<1> HIDE DEF a, b
<1>2. CASE a1 < b1
  <2>1. a[1] < b[1] /\ \A j \in 1 .. (1 - 1) : a[j] = b[j]
    BY <1>1, <1>2
  <2> QED
    BY <2>1 DEF Less, a, b
<1>3. CASE a1 = b1 /\ a2 < b2
  <2>1. a[2] < b[2] /\ \A j \in 1 .. (2 - 1) : a[j] = b[j]
    BY <1>1, <1>3
  <2> QED
    BY <2>1 DEF Less, a, b
<1>4. CASE a1 = b1 /\ a2 = b2 /\ a3 < b3
  <2>1. a[3] < b[3] /\ \A j \in 1 .. (3 - 1) : a[j] = b[j]
    BY <1>1, <1>4
  <2> QED
    BY <2>1 DEF Less, a, b
<1>5. CASE a1 = b1 /\ a2 = b2 /\ a3 = b3 /\ a4 < b4
  <2>1. a[4] < b[4] /\ \A j \in 1 .. (4 - 1) : a[j] = b[j]
    BY <1>1, <1>5
  <2> QED
    BY <2>1 DEF Less, a, b
<1> QED
  BY <1>2, <1>3, <1>4, <1>5

\* Nothing gets less for ever: of any fourfold counts some have none below them.
LEMMA LessWellFounded ==
    ASSUME NEW S \in SUBSET Fourfold, S # {}
    PROVE  \E m \in S : \A k \in S : ~Less(k, m)
<1>1. PICK n1 \in {x[1] : x \in S} : \A k \in {x[1] : x \in S} : n1 <= k
  <2>1. {x[1] : x \in S} \in SUBSET Nat /\ {x[1] : x \in S} # {}
    BY DEF Fourfold
  <2> QED
    BY <2>1, LeastExists
<1> DEFINE S1 == {x \in S : x[1] = n1}
<1>2. PICK n2 \in {x[2] : x \in S1} : \A k \in {x[2] : x \in S1} : n2 <= k
  <2>1. {x[2] : x \in S1} \in SUBSET Nat /\ {x[2] : x \in S1} # {}
    BY <1>1 DEF Fourfold
  <2> HIDE DEF S1
  <2> QED
    BY <2>1, LeastExists
<1> DEFINE S2 == {x \in S1 : x[2] = n2}
<1>3. PICK n3 \in {x[3] : x \in S2} : \A k \in {x[3] : x \in S2} : n3 <= k
  <2>1. {x[3] : x \in S2} \in SUBSET Nat /\ {x[3] : x \in S2} # {}
    BY <1>2 DEF Fourfold
  <2> HIDE DEF S2
  <2> QED
    BY <2>1, LeastExists
<1> DEFINE S3 == {x \in S2 : x[3] = n3}
<1>4. PICK n4 \in {x[4] : x \in S3} : \A k \in {x[4] : x \in S3} : n4 <= k
  <2>1. {x[4] : x \in S3} \in SUBSET Nat /\ {x[4] : x \in S3} # {}
    BY <1>3 DEF Fourfold
  <2> HIDE DEF S3
  <2> QED
    BY <2>1, LeastExists
<1>5. PICK m \in S : m[1] = n1 /\ m[2] = n2 /\ m[3] = n3 /\ m[4] = n4
  BY <1>4
<1>6. ASSUME NEW k \in S, Less(k, m) PROVE FALSE
  <2>1. PICK i \in 1 .. 4 : k[i] < m[i] /\ \A j \in 1 .. (i - 1) : k[j] = m[j]
    BY <1>6 DEF Less
  <2>2. /\ k[1] \in Nat /\ k[2] \in Nat /\ k[3] \in Nat /\ k[4] \in Nat
        /\ m[1] \in Nat /\ m[2] \in Nat /\ m[3] \in Nat /\ m[4] \in Nat
    BY DEF Fourfold
  <2>3. n1 <= k[1]
    BY <1>1
  <2>4. CASE i = 1
    BY <2>1, <2>2, <2>3, <2>4, <1>5
  <2>5. CASE i = 2
    <3>1. k[1] = m[1]
      BY <2>1, <2>5
    <3>2. n2 <= k[2]
      BY <1>2, <1>5, <3>1
    <3> QED
      BY <2>1, <2>2, <2>5, <3>2, <1>5
  <2>6. CASE i = 3
    <3>1. k[1] = m[1] /\ k[2] = m[2]
      BY <2>1, <2>6
    <3>2. n3 <= k[3]
      BY <1>3, <1>5, <3>1
    <3> QED
      BY <2>1, <2>2, <2>6, <3>2, <1>5
  <2>7. CASE i = 4
    <3>1. k[1] = m[1] /\ k[2] = m[2] /\ k[3] = m[3]
      BY <2>1, <2>7
    <3>2. n4 <= k[4]
      BY <1>4, <1>5, <3>1
    <3> QED
      BY <2>1, <2>2, <2>7, <3>2, <1>5
  <2> QED
    BY <2>4, <2>5, <2>6, <2>7
<1> QED
  BY <1>5, <1>6

-----------------------------------------------------------------------------
(* The cursor *)

Iterates(blocks, last, g) ==
    g = [n \in 0 .. last |-> IF n = 0 THEN 0 ELSE Step(blocks, g[n - 1])]

\* The recursion that defines the cursor has a solution: one that is shorter can
\* be continued by a step, so there is no least length without one.
LEMMA IteratesExist ==
    ASSUME NEW blocks, NEW last \in Nat
    PROVE  \E g : Iterates(blocks, last, g)
<1> DEFINE Without1 == {k \in Nat : ~(\E g : Iterates(blocks, k, g))}
<1> SUFFICES ASSUME Without1 # {} PROVE FALSE
  OBVIOUS
<1>1. PICK k \in Without1 : \A j \in Without1 : k <= j
  <2>1. Without1 \in SUBSET Nat
    OBVIOUS
  <2> HIDE DEF Without1
  <2> QED
    BY <2>1, LeastExists
<1>2. k \in Nat /\ ~(\E g : Iterates(blocks, k, g))
  OBVIOUS
<1>3. CASE k = 0
  <2>1. Iterates(blocks, 0, [n \in 0 .. 0 |-> 0])
    BY DEF Iterates
  <2> QED
    BY <1>2, <1>3, <2>1
<1>4. CASE k > 0
  <2>1. k - 1 \in Nat /\ ~(k <= k - 1)
    BY <1>2, <1>4
  <2>2. PICK g : Iterates(blocks, k - 1, g)
    BY <1>1, <2>1
  <2> DEFINE h == [n \in 0 .. k |-> IF n = k THEN Step(blocks, g[k - 1]) ELSE g[n]]
  <2>3. ASSUME NEW n \in 0 .. k PROVE h[n] = IF n = 0 THEN 0 ELSE Step(blocks, h[n - 1])
    <3>1. CASE n = 0
      BY <1>4, <2>1, <2>2, <3>1 DEF Iterates
    <3>2. CASE n > 0 /\ n < k
      <4>1. n \in 0 .. (k - 1) /\ n - 1 \in 0 .. k /\ n - 1 # k /\ n # 0
        BY <1>2, <3>2
      <4>2. h[n] = g[n] /\ h[n - 1] = g[n - 1]
        BY <3>2, <4>1
      <4>3. g[n] = Step(blocks, g[n - 1])
        BY <2>2, <4>1 DEF Iterates
      <4> QED
        BY <4>1, <4>2, <4>3
    <3>3. CASE n = k
      <4>1. k \in 0 .. k /\ k - 1 \in 0 .. k /\ k - 1 # k /\ k # 0
        BY <1>2, <1>4
      <4>2. h[k] = Step(blocks, g[k - 1]) /\ h[k - 1] = g[k - 1]
        BY <4>1
      <4> QED
        BY <3>3, <4>1, <4>2
    <3> QED
      BY <1>2, <3>1, <3>2, <3>3
  <2>4. h = [n \in 0 .. k |-> h[n]]
    OBVIOUS
  <2> HIDE DEF h
  <2>5. Iterates(blocks, k, h)
    BY <2>3, <2>4 DEF Iterates
  <2> QED
    BY <1>2, <2>5
<1> QED
  BY <1>2, <1>3, <1>4

LEMMA CursorIterates ==
    ASSUME NEW blocks, IsFiniteSet(blocks)
    PROVE  LET last == Cardinality(blocks)
           IN  /\ last \in Nat
               /\ DOMAIN Cursor(blocks) = 0 .. last
               /\ Cursor(blocks)[0] = 0
               /\ \A n \in 1 .. last : Cursor(blocks)[n] = Step(blocks, Cursor(blocks)[n - 1])
<1> DEFINE last == Cardinality(blocks)
<1>1. last \in Nat
  BY FS_CardinalityType
<1>2. Cursor(blocks) = CHOOSE g : Iterates(blocks, last, g)
  BY DEF Cursor, Iterates
<1> HIDE DEF last
<1>3. Iterates(blocks, last, Cursor(blocks))
  BY <1>1, <1>2, IteratesExist
<1>4. /\ DOMAIN Cursor(blocks) = 0 .. last
      /\ \A n \in 0 .. last : Cursor(blocks)[n] = IF n = 0 THEN 0 ELSE Step(blocks, Cursor(blocks)[n - 1])
  BY <1>3 DEF Iterates
<1>5. 0 \in 0 .. last /\ \A n \in 1 .. last : n \in 0 .. last /\ n # 0
  BY <1>1
<1>6. Cursor(blocks)[0] = 0 /\ \A n \in 1 .. last : Cursor(blocks)[n] = Step(blocks, Cursor(blocks)[n - 1])
  BY <1>4, <1>5
<1> QED
  BY <1>1, <1>4, <1>6 DEF last


\* A step goes to the nearest end of a block that starts there, or nowhere.
LEMMA StepMoves ==
    ASSUME NEW blocks, FiniteBlocks(blocks), NEW cursor \in Nat
    PROVE  /\ Step(blocks, cursor) \in Nat /\ cursor <= Step(blocks, cursor)
           /\ Step(blocks, cursor) # cursor => <<cursor, Step(blocks, cursor)>> \in blocks
           /\ \A b \in blocks : b[1] = cursor /\ b[2] > cursor =>
                 Step(blocks, cursor) > cursor /\ Step(blocks, cursor) <= b[2]
<1>1. \A b \in blocks : b = <<b[1], b[2]>> /\ b[1] \in Nat /\ b[2] \in Nat
  BY DEF FiniteBlocks
<1>2. Ends(blocks, cursor) \in SUBSET Nat
  BY <1>1 DEF Ends
<1>3. \A b \in blocks : b[1] = cursor /\ b[2] > cursor => b[2] \in Ends(blocks, cursor)
  BY DEF Ends
<1>4. CASE Ends(blocks, cursor) = {}
  <2>1. Step(blocks, cursor) = cursor
    BY <1>4 DEF Step
  <2>2. \A b \in blocks : ~(b[1] = cursor /\ b[2] > cursor)
    BY <1>3, <1>4
  <2> QED
    BY <2>1, <2>2
<1>5. CASE Ends(blocks, cursor) # {}
  <2>1. \E hi \in Ends(blocks, cursor) : \A e \in Ends(blocks, cursor) : hi <= e
    BY <1>2, <1>5, LeastExists
  <2>2. /\ Step(blocks, cursor) \in Ends(blocks, cursor)
        /\ \A e \in Ends(blocks, cursor) : Step(blocks, cursor) <= e
    BY <1>5, <2>1 DEF Step
  <2>3. PICK b \in blocks : b[1] = cursor /\ b[2] > cursor /\ b[2] = Step(blocks, cursor)
    BY <2>2 DEF Ends
  <2>4. <<cursor, Step(blocks, cursor)>> \in blocks
    BY <1>1, <2>3
  <2>5. Step(blocks, cursor) \in Nat /\ cursor < Step(blocks, cursor)
    BY <1>1, <2>3
  <2> QED
    BY <1>3, <2>2, <2>4, <2>5
<1> QED
  BY <1>4, <1>5

\* The cursor never goes back, and where a step does not move it, it stays.
LEMMA CursorClimbs ==
    ASSUME NEW blocks, FiniteBlocks(blocks), NEW n \in DOMAIN Cursor(blocks)
    PROVE  /\ Cursor(blocks)[n] \in Nat
           /\ \A m \in DOMAIN Cursor(blocks) : n <= m =>
                 /\ Cursor(blocks)[m] \in Nat /\ Cursor(blocks)[n] <= Cursor(blocks)[m]
                 /\ Step(blocks, Cursor(blocks)[n]) = Cursor(blocks)[n] => Cursor(blocks)[m] = Cursor(blocks)[n]
<1> DEFINE last == Cardinality(blocks)
           c == Cursor(blocks)
<1>1. /\ last \in Nat /\ DOMAIN c = 0 .. last /\ c[0] = 0
      /\ \A k \in 1 .. last : c[k] = Step(blocks, c[k - 1])
  BY CursorIterates DEF FiniteBlocks
<1> HIDE DEF last, c
<1>2. \A k \in 0 .. last : c[k] \in Nat
  <2> DEFINE Wrong == {k \in 0 .. last : c[k] \notin Nat}
  <2> SUFFICES ASSUME Wrong # {} PROVE FALSE
    OBVIOUS
  <2>1. PICK k \in Wrong : \A j \in Wrong : k <= j
    <3>1. Wrong \in SUBSET Nat
      BY <1>1
    <3> HIDE DEF Wrong
    <3> QED
      BY <3>1, LeastExists
  <2>2. k \in 1 .. last /\ k - 1 \in 0 .. last /\ ~(k <= k - 1)
    BY <1>1, <2>1
  <2>3. c[k - 1] \in Nat
    BY <2>1, <2>2
  <2>4. c[k] \in Nat
    BY <1>1, <2>2, <2>3, StepMoves
  <2> QED
    BY <2>1, <2>4
<1> DEFINE Right(m) == c[n] <= c[m] /\ (Step(blocks, c[n]) = c[n] => c[m] = c[n])
<1>3. \A m \in 0 .. last : n <= m => Right(m)
  <2> DEFINE Wrong == {k \in 0 .. last : n <= k /\ ~Right(k)}
  <2> SUFFICES ASSUME Wrong # {} PROVE FALSE
    OBVIOUS
  <2>0. n \in Nat /\ n \in 0 .. last
    BY <1>1 DEF c
  <2>1. PICK k \in Wrong : \A j \in Wrong : k <= j
    <3>1. Wrong \in SUBSET Nat
      BY <1>1
    <3> HIDE DEF Wrong
    <3> QED
      BY <3>1, LeastExists
  <2>2. k \in 0 .. last /\ n <= k /\ ~Right(k)
    BY <2>1
  <2>3. n # k
    BY <1>2, <2>0, <2>2
  <2>4. k \in 1 .. last /\ k - 1 \in 0 .. last /\ ~(k <= k - 1) /\ n <= k - 1
    BY <1>1, <2>0, <2>2, <2>3
  <2>5. Right(k - 1)
    BY <2>1, <2>4
  <2>6. c[k] = Step(blocks, c[k - 1]) /\ c[k - 1] \in Nat /\ c[n] \in Nat /\ c[k] \in Nat
    BY <1>1, <1>2, <2>0, <2>2, <2>4
  <2>7. c[k - 1] <= c[k]
    BY <2>6, StepMoves
  <2>8. Right(k)
    BY <2>5, <2>6, <2>7
  <2> QED
    BY <2>2, <2>8
<1> QED
  BY <1>1, <1>2, <1>3 DEF c

-----------------------------------------------------------------------------
(* A tiling *)

\* Where the greedy cursor gets through the model, every start of the tiling
\* is followed by a block, up to the next start or to the end of the model, and
\* no other start is inside it.
LEMMA TilingFollows ==
    ASSUME NEW blocks, FiniteBlocks(blocks), NEW numLayers \in Nat \ {0}, Tiles(blocks, numLayers),
           NEW lo \in Starts(blocks, numLayers)
    PROVE  LET hi == Step(blocks, lo)
           IN  /\ lo \in 0 .. (numLayers - 1) /\ hi \in Nat /\ lo < hi
               /\ <<lo, hi>> \in blocks
               /\ hi = numLayers \/ hi \in Starts(blocks, numLayers)
               /\ \A x \in Starts(blocks, numLayers) : x <= lo \/ hi <= x
<1> DEFINE last == Cardinality(blocks)
           c == Cursor(blocks)
           hi == Step(blocks, lo)
<1>1. /\ last \in Nat /\ DOMAIN c = 0 .. last /\ c[0] = 0 /\ c[last] = numLayers
      /\ \A k \in 1 .. last : c[k] = Step(blocks, c[k - 1])
  BY CursorIterates DEF FiniteBlocks, Tiles
<1>2. \A n, m \in DOMAIN c : n <= m =>
         /\ c[n] \in Nat /\ c[m] \in Nat /\ c[n] <= c[m]
         /\ Step(blocks, c[n]) = c[n] => c[m] = c[n]
  BY CursorClimbs
<1>3. \A x \in Starts(blocks, numLayers) : x \in 0 .. (numLayers - 1) /\ \E k \in DOMAIN c : c[k] = x
  <2>1. 0 \in DOMAIN c /\ 0 \in 0 .. (numLayers - 1)
    BY <1>1
  <2>2. \A x \in 1 .. (numLayers - 1) : x \in 0 .. (numLayers - 1)
    OBVIOUS
  <2> QED
    BY <1>1, <2>1, <2>2 DEF Starts
<1>4. \A k \in DOMAIN c : c[k] = numLayers \/ c[k] \in Starts(blocks, numLayers)
  <2> TAKE k \in DOMAIN c
  <2>1. k \in 0 .. last /\ last \in DOMAIN c /\ k <= last
    BY <1>1
  <2>2. c[k] \in Nat /\ c[k] <= numLayers
    BY <1>1, <1>2, <2>1
  <2>3. c[k] = numLayers \/ c[k] = 0 \/ c[k] \in 1 .. (numLayers - 1)
    BY <2>2
  <2> QED
    BY <2>1, <2>3 DEF Starts
<1>5. PICK n \in DOMAIN c : c[n] = lo
  BY <1>3
<1>6. lo \in 0 .. (numLayers - 1) /\ lo \in Nat /\ lo # numLayers
  BY <1>3
<1> HIDE DEF c, last
<1>7. hi # lo
  <2>1. n <= last /\ last \in DOMAIN c
    BY <1>1, <1>5
  <2> QED
    BY <1>1, <1>2, <1>5, <1>6, <2>1
<1>8. hi \in Nat /\ lo < hi /\ <<lo, hi>> \in blocks
  BY <1>6, <1>7, StepMoves
<1>9. n \in 0 .. last /\ n # last
  BY <1>1, <1>5, <1>6
<1>10. n + 1 \in 1 .. last /\ n + 1 \in DOMAIN c /\ (n + 1) - 1 = n
  BY <1>1, <1>9
<1>11. c[n + 1] = hi
  BY <1>1, <1>5, <1>10
<1>12. hi = numLayers \/ hi \in Starts(blocks, numLayers)
  BY <1>4, <1>10, <1>11
<1>13. ASSUME NEW x \in Starts(blocks, numLayers) PROVE x <= lo \/ hi <= x
  <2>1. PICK k \in DOMAIN c : c[k] = x
    BY <1>3
  <2>2. k <= n \/ n + 1 <= k
    BY <1>1, <1>9, <2>1
  <2> QED
    BY <1>2, <1>5, <1>10, <1>11, <2>1, <2>2
<1> QED
  BY <1>6, <1>8, <1>12, <1>13

\* Every layer lies in one block of the tiling.
LEMMA LayerInOneTile ==
    ASSUME NEW blocks, FiniteBlocks(blocks), NEW numLayers \in Nat \ {0}, Tiles(blocks, numLayers),
           NEW i \in 0 .. (numLayers - 1)
    PROVE  \E lo \in Starts(blocks, numLayers) :
              /\ lo <= i /\ i < Step(blocks, lo)
              /\ \A x \in Starts(blocks, numLayers) : x <= i /\ i < Step(blocks, x) => x = lo
<1>1. \A x \in Starts(blocks, numLayers) :
         /\ x \in Nat /\ Step(blocks, x) \in Nat /\ x < Step(blocks, x)
         /\ Step(blocks, x) = numLayers \/ Step(blocks, x) \in Starts(blocks, numLayers)
         /\ \A y \in Starts(blocks, numLayers) : y <= x \/ Step(blocks, x) <= y
  <2> TAKE x \in Starts(blocks, numLayers)
  <2>1. /\ x \in 0 .. (numLayers - 1) /\ Step(blocks, x) \in Nat /\ x < Step(blocks, x)
        /\ Step(blocks, x) = numLayers \/ Step(blocks, x) \in Starts(blocks, numLayers)
    BY TilingFollows
  <2>2. \A y \in Starts(blocks, numLayers) : y <= x \/ Step(blocks, x) <= y
    BY TilingFollows
  <2> QED
    BY <2>1, <2>2
<1> DEFINE After == {h \in 0 .. numLayers : i < h /\ (h = numLayers \/ h \in Starts(blocks, numLayers))}
<1>2. PICK hi \in After : \A h \in After : hi <= h
  <2>1. After \in SUBSET Nat /\ numLayers \in After
    OBVIOUS
  <2> HIDE DEF After
  <2> QED
    BY <2>1, LeastExists
<1> DEFINE Back == {k \in 0 .. i : i - k \in Starts(blocks, numLayers)}
<1>3. PICK k \in Back : \A j \in Back : k <= j
  <2>1. Back \in SUBSET Nat /\ i \in Back
    BY DEF Starts
  <2> HIDE DEF Back
  <2> QED
    BY <2>1, LeastExists
<1> DEFINE lo == i - k
<1>4. lo \in Starts(blocks, numLayers) /\ lo <= i /\ lo \in Nat
  BY <1>3
<1>5. i < Step(blocks, lo)
  <2> SUFFICES ASSUME Step(blocks, lo) <= i PROVE FALSE
    BY <1>1, <1>4
  <2>1. Step(blocks, lo) \in Nat /\ lo < Step(blocks, lo) /\ Step(blocks, lo) \in Starts(blocks, numLayers)
    BY <1>1, <1>4
  <2>2. i - Step(blocks, lo) \in Back /\ i - Step(blocks, lo) < k
    BY <1>3, <2>1
  <2> QED
    BY <1>3, <2>1, <2>2
<1> HIDE DEF lo
<1>6. ASSUME NEW x \in Starts(blocks, numLayers), x <= i, i < Step(blocks, x) PROVE x = lo
  <2>1. x <= lo \/ Step(blocks, lo) <= x
    BY <1>1, <1>4
  <2>2. lo <= x \/ Step(blocks, x) <= lo
    BY <1>1, <1>4
  <2> QED
    BY <1>1, <1>4, <1>5, <1>6, <2>1, <2>2
<1> QED
  BY <1>4, <1>5, <1>6

LayersCovered(blocks, numLayers) == \A i \in 0 .. (numLayers - 1) : \E b \in blocks : Covers(b, i)

LEMMA TilingCovers ==
    ASSUME NEW blocks, FiniteBlocks(blocks), NEW numLayers \in Nat \ {0}, Tiles(blocks, numLayers)
    PROVE  LayersCovered(blocks, numLayers)
<1> SUFFICES ASSUME NEW i \in 0 .. (numLayers - 1) PROVE \E b \in blocks : Covers(b, i)
  BY DEF LayersCovered
<1>1. PICK lo \in Starts(blocks, numLayers) : lo <= i /\ i < Step(blocks, lo)
  BY LayerInOneTile
<1>2. <<lo, Step(blocks, lo)>> \in blocks
  BY TilingFollows
<1> QED
  BY <1>1, <1>2 DEF Covers

\* What the cursor has behind it after n ranges: it stands at the start or where a
\* block ends, and has passed n blocks unless it is through.
Passed(blocks, cursor) == {b \in blocks : b[2] <= cursor}

Advanced(blocks, numLayers, cursor, n) ==
    /\ cursor \in 0 .. numLayers
    /\ cursor = 0 \/ \E a \in blocks : a[2] = cursor
    /\ cursor = numLayers \/ n <= Cardinality(Passed(blocks, cursor))

\* Blocks of the model that take over from one another: one starts at the first
\* layer, and wherever one ends before the last layer, one starts.
FollowOn(blocks, numLayers) ==
    /\ FiniteBlocks(blocks)
    /\ \A b \in blocks : b[1] < b[2] /\ b[2] <= numLayers
    /\ \E b \in blocks : b[1] = 0
    /\ \A a \in blocks : a[2] = numLayers \/ \E b \in blocks : b[1] = a[2]

LEMMA StepAdvances ==
    ASSUME NEW blocks, NEW numLayers \in Nat \ {0}, FollowOn(blocks, numLayers), NEW cursor, NEW n \in Nat,
           Advanced(blocks, numLayers, cursor, n)
    PROVE  Advanced(blocks, numLayers, Step(blocks, cursor), n + 1)
<1>0. cursor \in Nat /\ cursor <= numLayers /\ FiniteBlocks(blocks)
  BY DEF Advanced, FollowOn
<1>1. \A b \in blocks : b[1] \in Nat /\ b[2] \in Nat /\ b[1] < b[2] /\ b[2] <= numLayers
  BY DEF FollowOn, FiniteBlocks
<1>2. /\ Step(blocks, cursor) \in Nat /\ cursor <= Step(blocks, cursor)
      /\ Step(blocks, cursor) # cursor => <<cursor, Step(blocks, cursor)>> \in blocks
      /\ \A b \in blocks : b[1] = cursor /\ b[2] > cursor => Step(blocks, cursor) > cursor
  BY <1>0, StepMoves
<1>3. CASE cursor = numLayers
  <2>1. Step(blocks, cursor) = cursor
    BY <1>1, <1>2, <1>3
  <2> QED
    BY <1>3, <2>1 DEF Advanced
<1>4. CASE cursor # numLayers
  <2>1. PICK a \in blocks : a[1] = cursor
    BY <1>4 DEF Advanced, FollowOn
  <2> DEFINE b == <<cursor, Step(blocks, cursor)>>
  <2>2. b \in blocks /\ b[2] = Step(blocks, cursor) /\ cursor < b[2] /\ b[2] \in Nat /\ b[2] <= numLayers
    BY <1>0, <1>1, <1>2, <2>1
  <2> HIDE DEF b
  <2> DEFINE P == Passed(blocks, cursor)
             Q == Passed(blocks, b[2])
  <2>3. P \subseteq Q /\ b \in Q /\ b \notin P
    BY <1>0, <1>1, <2>2 DEF Passed
  <2>4. IsFiniteSet(Q) /\ IsFiniteSet(P)
    <3>1. P \subseteq blocks /\ Q \subseteq blocks /\ IsFiniteSet(blocks)
      BY <1>0 DEF Passed, FiniteBlocks
    <3> HIDE DEF P, Q
    <3> QED
      BY <3>1, FS_Subset
  <2>5. n <= Cardinality(P)
    BY <1>4 DEF Advanced
  <2> HIDE DEF P, Q
  <2>6. Cardinality(P \cup {b}) = Cardinality(P) + 1 /\ Cardinality(P) \in Nat
    BY <2>3, <2>4, FS_AddElement, FS_CardinalityType
  <2>7. Cardinality(P \cup {b}) <= Cardinality(Q) /\ Cardinality(Q) \in Nat
    BY <2>3, <2>4, FS_Subset, FS_CardinalityType
  <2>8. n + 1 <= Cardinality(Q)
    BY <2>5, <2>6, <2>7
  <2>9. Advanced(blocks, numLayers, b[2], n + 1)
    BY <2>2, <2>8 DEF Advanced, Q
  <2> QED
    BY <2>2, <2>9
<1> QED
  BY <1>3, <1>4

\* Where blocks take over from one another the cursor gets through: it cannot
\* have passed every block and stand before a layer.
LEMMA FollowOnTiles ==
    ASSUME NEW blocks, NEW numLayers \in Nat \ {0}, FollowOn(blocks, numLayers)
    PROVE  Tiles(blocks, numLayers)
<1> DEFINE last == Cardinality(blocks)
           c == Cursor(blocks)
           Wrong == {n \in 0 .. last : ~Advanced(blocks, numLayers, c[n], n)}
<1>0. IsFiniteSet(blocks) /\ FiniteBlocks(blocks)
  BY DEF FollowOn, FiniteBlocks
<1>1. /\ last \in Nat /\ c[0] = 0
      /\ \A n \in 1 .. last : c[n] = Step(blocks, c[n - 1])
  BY <1>0, CursorIterates
<1> HIDE DEF c
<1>2. Advanced(blocks, numLayers, 0, 0)
  <2>1. Passed(blocks, 0) \subseteq blocks
    BY DEF Passed
  <2>2. Cardinality(Passed(blocks, 0)) \in Nat
    BY <1>0, <2>1, FS_Subset, FS_CardinalityType
  <2> QED
    BY <2>2 DEF Advanced
<1>3. ASSUME Wrong # {} PROVE FALSE
  <2> HIDE DEF last
  <2>1. Wrong \in SUBSET Nat
    BY <1>1
  <2>2. PICK n \in Wrong : \A k \in Wrong : n <= k
    <3> HIDE DEF Wrong
    <3> QED
      BY <1>3, <2>1, LeastExists
  <2>3. n \in 0 .. last /\ ~Advanced(blocks, numLayers, c[n], n)
    BY <2>2
  <2>4. n # 0
    BY <1>1, <1>2, <2>3
  <2>5. n \in 1 .. last /\ n - 1 \in 0 .. last /\ n - 1 \in Nat /\ (n - 1) + 1 = n /\ ~(n <= n - 1)
    BY <1>1, <2>3, <2>4
  <2>6. Advanced(blocks, numLayers, c[n - 1], n - 1)
    BY <2>2, <2>5
  <2>7. Advanced(blocks, numLayers, Step(blocks, c[n - 1]), (n - 1) + 1)
    BY <2>5, <2>6, StepAdvances
  <2> QED
    BY <1>1, <2>3, <2>5, <2>7
<1>4. Advanced(blocks, numLayers, c[last], last)
  <2>1. last \in 0 .. last
    BY <1>1
  <2> QED
    BY <1>3, <2>1
<1>5. CASE c[last] = numLayers
  BY <1>5 DEF Tiles, c
<1>6. CASE c[last] # numLayers
  <2> DEFINE P == Passed(blocks, c[last])
  <2>1. last <= Cardinality(P) /\ c[last] \in Nat /\ c[last] <= numLayers
    BY <1>4, <1>6 DEF Advanced
  <2>2. P \subseteq blocks
    BY DEF Passed
  <2>3. \E b \in blocks : b[1] = c[last] /\ b[2] > c[last] /\ b[2] \in Nat
    <3>1. PICK b \in blocks : b[1] = c[last]
      BY <1>4, <1>6 DEF Advanced, FollowOn
    <3> QED
      BY <3>1 DEF FollowOn, FiniteBlocks
  <2>4. P # blocks
    BY <2>1, <2>3 DEF Passed
  <2> HIDE DEF P
  <2>5. Cardinality(P) <= Cardinality(blocks) /\ Cardinality(blocks) # Cardinality(P)
    BY <1>0, <2>2, <2>4, FS_Subset
  <2>6. Cardinality(P) \in Nat /\ last = Cardinality(blocks)
    BY <1>0, <2>2, FS_Subset, FS_CardinalityType
  <2> QED
    BY <1>1, <2>1, <2>5, <2>6
<1> QED
  BY <1>5, <1>6

-----------------------------------------------------------------------------
(* Who serves a stage *)

Ranking(rank, nodes) ==
    \A u \in nodes : rank[u].reputation \in Int /\ rank[u].speed \in Int /\ rank[u].load \in Int

\* Some node ranks at least as well as all: the one that the fewest outrank.
LEMMA BestExists ==
    ASSUME NEW candidates, IsFiniteSet(candidates), candidates # {}, NEW rank, Ranking(rank, candidates)
    PROVE  Least(candidates, rank) # {}
<1> DEFINE Better(v) == {u \in candidates : Outranks(rank, u, v)}
           counts == {Cardinality(Better(v)) : v \in candidates}
<1>1. \A v \in candidates : IsFiniteSet(Better(v)) /\ Cardinality(Better(v)) \in Nat
  <2> TAKE v \in candidates
  <2>1. Better(v) \subseteq candidates
    OBVIOUS
  <2> HIDE DEF Better
  <2> QED
    BY <2>1, FS_Subset, FS_CardinalityType
<1>2. PICK best \in candidates : \A v \in candidates : Cardinality(Better(best)) <= Cardinality(Better(v))
  <2>1. counts \in SUBSET Nat /\ counts # {}
    BY <1>1
  <2> HIDE DEF counts
  <2>2. PICK k \in counts : \A j \in counts : k <= j
    BY <2>1, LeastExists
  <2> USE DEF counts
  <2> HIDE DEF Better
  <2> QED
    BY <2>2
<1>3. ASSUME NEW v \in candidates, ~Outranks(rank, best, v) PROVE FALSE
  <2>1. /\ \A u \in candidates : Outranks(rank, u, v) => Outranks(rank, u, best)
        /\ Outranks(rank, best, best)
    BY <1>3 DEF Outranks, Ranking
  <2>2. Better(v) \subseteq Better(best) /\ best \in Better(best) /\ best \notin Better(v)
    BY <1>3, <2>1
  <2> HIDE DEF Better
  <2>3. Cardinality(Better(v)) <= Cardinality(Better(best)) /\ Cardinality(Better(v)) # Cardinality(Better(best))
    BY <1>1, <2>2, FS_Subset
  <2> QED
    BY <1>1, <1>2, <2>3
<1>4. best \in Least(candidates, rank)
  BY <1>3 DEF Least
<1> QED
  BY <1>4

\* What the nodes of a swarm announce, and how they rank.
IsSwarmOf(swarm, rank) ==
    /\ IsFiniteSet(DOMAIN swarm)
    /\ \A u \in DOMAIN swarm : FiniteBlocks(swarm[u].decoders)
    /\ Ranking(rank, DOMAIN swarm)

LEMMA SwarmBlocks ==
    ASSUME NEW swarm, IsFiniteSet(DOMAIN swarm), \A u \in DOMAIN swarm : FiniteBlocks(swarm[u].decoders)
    PROVE  FiniteBlocks(Blocks(swarm))
<1> DEFINE all == {swarm[u].decoders : u \in DOMAIN swarm}
<1>1. IsFiniteSet(all)
  <2> DEFINE f == [u \in DOMAIN swarm |-> swarm[u].decoders]
  <2>1. f \in Surjection(DOMAIN swarm, all)
    BY DEF Surjection
  <2> HIDE DEF f, all
  <2> QED
    BY <2>1, FS_Surjection
<1>2. IsFiniteSet(UNION all)
  BY <1>1, FS_UNION DEF FiniteBlocks
<1>3. Blocks(swarm) = UNION all
  BY DEF Blocks
<1>4. UNION all \subseteq Nat \X Nat
  BY DEF FiniteBlocks
<1> QED
  BY <1>2, <1>3, <1>4 DEF FiniteBlocks

LEMMA HoldersAreFinite ==
    ASSUME NEW swarm, NEW rank, IsSwarmOf(swarm, rank), NEW numLayers, NEW at
    PROVE  /\ Holders(swarm, numLayers, at) \subseteq DOMAIN swarm
           /\ IsFiniteSet(Holders(swarm, numLayers, at))
           /\ Ranking(rank, Holders(swarm, numLayers, at))
<1>1. Holders(swarm, numLayers, at) \subseteq DOMAIN swarm
  BY DEF Holders
<1> QED
  BY <1>1, FS_Subset DEF IsSwarmOf, Ranking

\* A block of the swarm is announced by some node.
LEMMA TileIsHeld ==
    ASSUME NEW swarm, FiniteBlocks(Blocks(swarm)), NEW numLayers \in Nat \ {0},
           Tiles(Blocks(swarm), numLayers), NEW lo \in Starts(Blocks(swarm), numLayers)
    PROVE  Holders(swarm, numLayers, BlockAt(lo)) # {}
<1>1. lo \in 0 .. (numLayers - 1) /\ <<lo, Step(Blocks(swarm), lo)>> \in Blocks(swarm)
  BY TilingFollows
<1>2. BlockAt(lo) # EmbedAt /\ BlockAt(lo) # HeadAt(numLayers) /\ BlockAt(lo) - 1 = lo
  BY <1>1 DEF BlockAt, EmbedAt, HeadAt
<1>3. PICK u \in DOMAIN swarm : <<lo, Step(Blocks(swarm), lo)>> \in swarm[u].decoders
  BY <1>1 DEF Blocks
<1>4. u \in Holders(swarm, numLayers, BlockAt(lo))
  BY <1>2, <1>3 DEF Holders
<1> QED
  BY <1>4

\* build_chain returns a chain whenever the greedy tiling gets through and both
\* ends are announced, and only then.
THEOREM ChainWhenPossible ==
    ASSUME NEW swarm, NEW rank, IsSwarmOf(swarm, rank), NEW numLayers \in Nat \ {0}
    PROVE  HasChain(swarm, numLayers) <=> BuildChain(swarm, numLayers, rank) # {}
<1> DEFINE best(at) == Least(Holders(swarm, numLayers, at), rank)
<1>0. FiniteBlocks(Blocks(swarm))
  BY SwarmBlocks DEF IsSwarmOf
<1>1. \A at : best(at) \subseteq Holders(swarm, numLayers, at) /\ best(at) \subseteq DOMAIN swarm
  BY HoldersAreFinite DEF Least
<1>2. \A at : Holders(swarm, numLayers, at) # {} => best(at) # {}
  BY HoldersAreFinite, BestExists
<1>3. ASSUME NEW route \in BuildChain(swarm, numLayers, rank)
      PROVE  HasChain(swarm, numLayers)
  <2>1. Tiles(Blocks(swarm), numLayers)
    BY <1>3 DEF BuildChain
  <2>2. EmbedAt \in Positions(swarm, numLayers) /\ HeadAt(numLayers) \in Positions(swarm, numLayers)
    BY DEF Positions
  <2>3. route[EmbedAt] \in best(EmbedAt) /\ route[HeadAt(numLayers)] \in best(HeadAt(numLayers))
    BY <1>3, <2>1, <2>2 DEF BuildChain
  <2> HIDE DEF best
  <2> QED
    BY <1>1, <2>1, <2>3 DEF HasChain
<1>4. ASSUME HasChain(swarm, numLayers)
      PROVE  BuildChain(swarm, numLayers, rank) # {}
  <2>1. \A at \in Positions(swarm, numLayers) : Holders(swarm, numLayers, at) # {}
    BY <1>0, <1>4, TileIsHeld DEF HasChain, Positions
  <2> DEFINE route == [at \in Positions(swarm, numLayers) |-> CHOOSE u \in best(at) : TRUE]
  <2>2. \A at \in Positions(swarm, numLayers) : route[at] \in best(at) /\ route[at] \in DOMAIN swarm
    <3> HIDE DEF best
    <3> QED
      BY <1>1, <1>2, <2>1
  <2>3. route \in [Positions(swarm, numLayers) -> DOMAIN swarm]
    BY <2>2
  <2> HIDE DEF route
  <2>4. route \in BuildChain(swarm, numLayers, rank)
    BY <1>4, <2>2, <2>3 DEF BuildChain, HasChain
  <2> QED
    BY <2>4
<1> QED
  BY <1>3, <1>4

\* A chain of build_chain runs every layer once, in order, from the embedding to
\* the head: each of its nodes announces the stage it is to run, and a block ends
\* at the layer where the next one starts.
THEOREM ChainsServe ==
    ASSUME NEW swarm, NEW rank, IsSwarmOf(swarm, rank), NEW numLayers \in Nat \ {0},
           NEW route \in BuildChain(swarm, numLayers, rank)
    PROVE  RunsWholeModel(swarm, numLayers, route)
<1> DEFINE P == Positions(swarm, numLayers)
           blocks == Blocks(swarm)
<1>0. FiniteBlocks(blocks)
  BY SwarmBlocks DEF IsSwarmOf
<1>1. Tiles(blocks, numLayers) /\ DOMAIN route = P /\ \A at \in P : route[at] \in Holders(swarm, numLayers, at)
  BY DEF BuildChain, Least
<1>2. /\ EmbedAt = 0 /\ HeadAt(numLayers) = numLayers + 1 /\ \A lo : BlockAt(lo) = lo + 1
      /\ 0 \in Starts(blocks, numLayers)
      /\ Starts(blocks, numLayers) \subseteq 0 .. (numLayers - 1)
  BY DEF EmbedAt, HeadAt, BlockAt, Starts
<1>3. \A at \in P : at \in 0 .. (numLayers + 1) /\
         (at = 0 \/ at = numLayers + 1 \/ at - 1 \in Starts(blocks, numLayers))
  BY <1>2 DEF Positions
<1>4. \A lo \in Starts(blocks, numLayers) : lo + 1 \in P
  BY <1>2 DEF Positions
<1>5. {0, 1, numLayers + 1} \subseteq P
  BY <1>2, <1>4 DEF Positions
<1>6. swarm[route[0]].embed /\ swarm[route[numLayers + 1]].head /\ \A x \in P : route[x] \in DOMAIN swarm
  <2>1. /\ 0 \in P /\ numLayers + 1 \in P /\ numLayers + 1 # 0
        /\ \A at \in P : route[at] \in Holders(swarm, numLayers, at)
    BY <1>1, <1>5
  <2>2. route[0] \in Holders(swarm, numLayers, EmbedAt) /\ route[numLayers + 1] \in Holders(swarm, numLayers, HeadAt(numLayers))
    BY <2>1 DEF EmbedAt, HeadAt
  <2>3. swarm[route[0]].embed
    BY <2>2 DEF Holders
  <2>4. swarm[route[numLayers + 1]].head
    BY <1>2, <2>1, <2>2 DEF Holders
  <2>5. \A x \in P : route[x] \in DOMAIN swarm
    BY <2>1 DEF Holders
  <2> QED
    BY <2>3, <2>4, <2>5
<1>7. ASSUME NEW x \in P, NEW y \in P, x # 0, x < y, \A z \in P : ~(x < z /\ z < y)
      PROVE  <<x - 1, y - 1>> \in swarm[route[x]].decoders
  <2> DEFINE lo == x - 1
             hi == Step(blocks, lo)
  <2>1. x # numLayers + 1 /\ lo \in Starts(blocks, numLayers) /\ lo \in Nat /\ lo + 1 = x
    BY <1>3, <1>7
  <2>2. <<lo, hi>> \in swarm[route[x]].decoders
    BY <1>1, <1>2, <1>7, <2>1 DEF Holders
  <2>3. /\ hi \in Nat /\ lo < hi
        /\ hi = numLayers \/ hi \in Starts(blocks, numLayers)
        /\ \A s \in Starts(blocks, numLayers) : s <= lo \/ hi <= s
    BY <1>0, <1>1, <2>1, TilingFollows
  <2> HIDE DEF lo, hi
  <2>4. hi + 1 \in P
    BY <1>4, <1>5, <2>3
  <2>5. ~(hi + 1 < y)
    BY <1>7, <2>1, <2>3, <2>4
  <2>6. y = numLayers + 1 \/ y - 1 \in Starts(blocks, numLayers)
    BY <1>3, <1>7, <2>1
  <2>7. hi <= numLayers
    BY <1>2, <2>3
  <2>8. y - 1 = hi
    BY <1>3, <1>7, <2>1, <2>3, <2>5, <2>6, <2>7
  <2> QED
    BY <2>2, <2>8 DEF lo
<1> HIDE DEF P
<1> QED
  BY <1>1, <1>2, <1>3, <1>5, <1>6, <1>7 DEF RunsWholeModel

=============================================================================
