------------------------ MODULE ControlTargetsProofs ------------------------
(***************************************************************************)
(* Proofs about ControlTargets, for every value of its constants: any loads,  *)
(* thresholds, debounces and curves.                                         *)
(*                                                                          *)
(* The debounce.  To know at an edge that there were enough ticks, one has to *)
(* know that the counter of the detector is as many ticks as it says:         *)
(* CountsTheEdge says that out of the scene it never exceeds the ticks with    *)
(* evidence in a row, in the scene those without.                            *)
(*                                                                          *)
(* The speed.  Interpolation with its rounding is monotonic on one segment    *)
(* (InterpolateRising), so the whole of a curve that never drops is           *)
(* (SpeedRises), and the hysteresis, which is a higher temperature, only adds  *)
(* to the speed.  SpeedInRange holds of every curve, rising or falling.        *)
(***************************************************************************)
EXTENDS ControlTargets, FiniteSetTheorems, WellFoundedInduction, TLAPS

CountsTheEdge ==
  /\ ~inScene => streak <= hot
  /\ inScene  => streak <= cold

Counters ==
  /\ inScene \in BOOLEAN /\ enabled \in BOOLEAN /\ settings \in Settings
  /\ streak \in 0 .. MostTicks /\ hot \in 0 .. MostTicks /\ cold \in 0 .. MostTicks

IInv == Counters /\ CountsTheEdge /\ DisabledIsOut

-----------------------------------------------------------------------------
\* What Counted returns: it follows a run of ticks up to the bound.
LEMMA CountedType ==
  ASSUME NEW n \in 0 .. MostTicks, NEW more
  PROVE  /\ Counted(n, more) \in 0 .. MostTicks
         /\ more => Counted(n, more) >= n + 1 \/ Counted(n, more) = MostTicks
BY MostTicksAssumption DEF Counted

LEMMA InitIInv == Init => IInv
<1> SUFFICES ASSUME Init PROVE IInv
  OBVIOUS
<1>1. Counters
  <2>1. inScene \in BOOLEAN /\ enabled \in BOOLEAN /\ settings \in Settings
    BY DEF Init
  <2>2. streak \in 0 .. MostTicks /\ hot \in 0 .. MostTicks /\ cold \in 0 .. MostTicks
    BY MostTicksAssumption DEF Init
  <2> QED BY <2>1, <2>2 DEF Counters
<1>2. CountsTheEdge
  BY DEF Init, CountsTheEdge
<1>3. DisabledIsOut
  BY DEF Init, DisabledIsOut
<1> QED BY <1>1, <1>2, <1>3 DEF IInv

\* One tick of the detector keeps the count and respects the debounce of its edge.
LEMMA OnTickStep ==
  ASSUME IInv, OnTick, UNCHANGED <<enabled, settings>>, enabled
  PROVE  /\ IInv'
         /\ ~inScene /\ inScene' => hot' >= settings.enterTicks
         /\ inScene /\ ~inScene' => cold' >= settings.exitTicks
<1>1. /\ settings.enterTicks \in 1 .. MostTicks
      /\ settings.exitTicks \in 1 .. MostTicks
  BY SettingsAssumption DEF IInv, Counters
<1>2. /\ hot' \in 0 .. MostTicks
      /\ EnterEvidence => hot' >= hot + 1 \/ hot' = MostTicks
  BY CountedType DEF OnTick, IInv, Counters
<1>3. /\ cold' \in 0 .. MostTicks
      /\ ~SustainEvidence => cold' >= cold + 1 \/ cold' = MostTicks
  BY CountedType DEF OnTick, IInv, Counters
<1>4. CASE ~inScene
  <2>1. OutOfScene
    BY <1>4 DEF OnTick
  <2>2. CASE EnterEvidence /\ streak + 1 >= settings.enterTicks
    BY <1>1, <1>2, <1>3, <1>4, <2>1, <2>2, MostTicksAssumption
    DEF OutOfScene, IInv, Counters, CountsTheEdge, DisabledIsOut
  <2>3. CASE EnterEvidence /\ ~(streak + 1 >= settings.enterTicks)
    BY <1>1, <1>2, <1>3, <1>4, <2>1, <2>3, MostTicksAssumption
    DEF OutOfScene, IInv, Counters, CountsTheEdge, DisabledIsOut
  <2>4. CASE ~EnterEvidence
    BY <1>2, <1>3, <1>4, <2>1, <2>4, MostTicksAssumption
    DEF OutOfScene, IInv, Counters, CountsTheEdge, DisabledIsOut
  <2> QED BY <2>2, <2>3, <2>4
<1>5. CASE inScene
  <2>1. InScene
    BY <1>5 DEF OnTick
  <2>2. CASE ~SustainEvidence /\ streak + 1 >= settings.exitTicks
    <3>1. inScene' = FALSE /\ streak' = 0
      BY <2>1, <2>2 DEF InScene
    <3>2. cold' >= settings.exitTicks
      BY <1>1, <1>3, <1>5, <2>2, MostTicksAssumption DEF IInv, Counters, CountsTheEdge
    <3>3. Counters'
      <4>1. streak' \in 0 .. MostTicks
        BY <3>1, MostTicksAssumption
      <4>2. enabled' \in BOOLEAN /\ settings' \in Settings /\ inScene' \in BOOLEAN
        BY <3>1 DEF IInv, Counters
      <4> QED BY <1>2, <1>3, <4>1, <4>2 DEF Counters
    <3>4. CountsTheEdge'
      BY <1>2, <3>1, MostTicksAssumption DEF CountsTheEdge
    <3> QED BY <1>5, <3>1, <3>2, <3>3, <3>4 DEF IInv, DisabledIsOut
  <2>3. CASE ~SustainEvidence /\ ~(streak + 1 >= settings.exitTicks)
    BY <1>1, <1>2, <1>3, <1>5, <2>1, <2>3, MostTicksAssumption
    DEF InScene, IInv, Counters, CountsTheEdge, DisabledIsOut
  <2>4. CASE SustainEvidence
    BY <1>2, <1>3, <1>5, <2>1, <2>4, MostTicksAssumption
    DEF InScene, IInv, Counters, CountsTheEdge, DisabledIsOut
  <2> QED BY <2>2, <2>3, <2>4
<1> QED BY <1>4, <1>5 DEF IInv, Counters

\* Steps that leave the detector alone.
LEMMA DetectorUnchanged ==
  ASSUME IInv, UNCHANGED <<enabled, settings, scene, history>>
  PROVE  IInv' /\ inScene' = inScene
BY DEF IInv, Counters, CountsTheEdge, DisabledIsOut, scene, history

LEMMA EditSceneStep ==
  ASSUME IInv, NEW on \in BOOLEAN, NEW s \in Settings, EditScene(on, s)
  PROVE  /\ IInv'
         /\ inScene' => inScene
         /\ inScene /\ ~inScene' => ~enabled'
<1>1. CASE on
  BY <1>1 DEF EditScene, SetParams, scene, history, IInv, Counters, CountsTheEdge, DisabledIsOut
<1>2. CASE ~on
  <2>1. /\ ~enabled' /\ settings' \in Settings
        /\ ~inScene' /\ streak' = 0 /\ trigger' = "none" /\ hot' = 0 /\ cold' = 0
    BY <1>2 DEF EditScene, SetParams
  <2>2. hot' \in 0 .. MostTicks /\ cold' \in 0 .. MostTicks /\ streak' \in 0 .. MostTicks
    BY <2>1, MostTicksAssumption
  <2>3. enabled' \in BOOLEAN /\ inScene' \in BOOLEAN
    BY <1>2, <2>1 DEF EditScene, SetParams
  <2>4. Counters'
    BY <2>1, <2>2, <2>3 DEF Counters
  <2> QED BY <2>1, <2>2, <2>4 DEF IInv, CountsTheEdge, DisabledIsOut
<1> QED BY <1>1, <1>2

\* What a step of the program does to the detector.
Edges ==
  /\ ~inScene /\ inScene' => hot' >= settings.enterTicks
  /\ inScene /\ ~inScene' /\ enabled' => cold' >= settings.exitTicks

LEMMA NextStep ==
  ASSUME IInv, [Next]_vars
  PROVE  IInv' /\ Edges
<1>1. CASE Tick
  <2>1. UNCHANGED <<enabled, settings>>
    BY <1>1 DEF Tick
  <2>2. CASE ~passive /\ enabled
    BY <1>1, <2>1, <2>2, OnTickStep DEF Tick, Edges
  <2>3. CASE passive \/ ~enabled
    BY <1>1, <2>1, <2>3, DetectorUnchanged DEF Tick, Edges
  <2> QED BY <2>2, <2>3
<1>2. ASSUME NEW l \in Loads, NEW p \in BOOLEAN, NEW t \in Temps \cup {Unreadable}, Sample(l, p, t)
      PROVE  IInv' /\ Edges
  BY <1>2, DetectorUnchanged DEF Sample, Edges
<1>3. ASSUME NEW on \in BOOLEAN, NEW s \in Settings, EditScene(on, s)
      PROVE  IInv' /\ Edges
  BY <1>3, EditSceneStep DEF Edges
<1>4. ASSUME NEW c \in Curves, SetFanCurve(c)
      PROVE  IInv' /\ Edges
  BY <1>4, DetectorUnchanged DEF SetFanCurve, Edges
<1>5. ASSUME NEW on \in BOOLEAN, SwitchMode(on) \/ SetPassive(on)
      PROVE  IInv' /\ Edges
  BY <1>5, DetectorUnchanged DEF SwitchMode, SetPassive, Edges
<1>6. CASE UNCHANGED vars
  BY <1>6, DetectorUnchanged DEF vars, Edges
<1> QED BY <1>1, <1>2, <1>3, <1>4, <1>5, <1>6 DEF Next

-----------------------------------------------------------------------------
\* The counter of the detector never claims more ticks than there were.
THEOREM Invariance == Spec => []IInv
<1>1. IInv /\ [Next]_vars => IInv'
  BY NextStep
<1> QED BY InitIInv, <1>1, PTL DEF Spec

\* Disabling the detector never leaves the machine pinned in G-Mode.
THEOREM DisablingLeavesTheScene == Spec => []DisabledIsOut
<1>1. IInv => DisabledIsOut
  BY DEF IInv
<1> QED BY Invariance, <1>1, PTL

\* Every scene begins after enterTicks ticks with evidence in a row and ends after
\* exitTicks without, whatever the user edits while the counter runs.
THEOREM BothEdgesDebounced == Spec => EdgesAreDebounced
<1>1. IInv /\ [Next]_vars
        => [/\ ~inScene /\ inScene' => hot' >= settings.enterTicks
            /\ inScene /\ ~inScene' /\ enabled' => cold' >= settings.exitTicks]_vars
  BY NextStep DEF Edges
<1> QED BY Invariance, <1>1, PTL DEF Spec, EdgesAreDebounced

-----------------------------------------------------------------------------
\* Extremes of sets of temperatures.

\* Every set of naturals that is not empty has a least element.
LEMMA Least ==
  ASSUME NEW S \in SUBSET Nat, S # {}
  PROVE  \E x \in S : \A y \in S : x <= y
<1>1. \E x \in S : \A y \in S : ~ (<<y, x>> \in OpToRel(<, Nat))
  BY NatLessThanWellFounded, WFMin
<1>2. PICK x \in S : \A y \in S : ~ (<<y, x>> \in OpToRel(<, Nat))
  BY <1>1
<1>3. \A y \in S : ~(y < x)
  BY <1>2 DEF OpToRel
<1> QED BY <1>3

\* Every finite one has a greatest: the one that the fewest others exceed.
LEMMA Greatest ==
  ASSUME NEW S \in SUBSET Nat, IsFiniteSet(S), S # {}
  PROVE  \E x \in S : \A y \in S : y <= x
<1> DEFINE Over(x) == {y \in S : y > x}
           T == {Cardinality(Over(x)) : x \in S}
<1>1. \A x \in S : IsFiniteSet(Over(x)) /\ Cardinality(Over(x)) \in Nat
  BY FS_Subset, FS_CardinalityType
<1>2. T \in SUBSET Nat /\ T # {}
  <2>1. T \subseteq Nat
    <3> HIDE DEF Over
    <3> QED BY <1>1
  <2>2. PICK x \in S : TRUE
    OBVIOUS
  <2>3. Cardinality(Over(x)) \in T
    BY <2>2
  <2> QED BY <2>1, <2>3
<1>3. PICK n \in T : \A m \in T : n <= m
  <2> HIDE DEF T
  <2> QED BY <1>2, Least
<1>4. PICK x \in S : n = Cardinality(Over(x))
  BY <1>3
<1>5. ASSUME NEW y \in S, y > x PROVE FALSE
  <2>1. Over(y) \subseteq Over(x) /\ y \in Over(x) /\ y \notin Over(y)
    <3>1. x \in Nat /\ y \in Nat /\ \A z \in S : z \in Nat
      OBVIOUS
    <3>2. \A z \in S : z > y => z > x
      BY <1>5, <3>1
    <3>3. ~(y > y)
      BY <3>1
    <3> QED BY <1>5, <3>2, <3>3
  <2>2. Cardinality(Over(y)) <= Cardinality(Over(x)) /\ Cardinality(Over(y)) # Cardinality(Over(x))
    <3>1. /\ IsFiniteSet(Over(x)) /\ Over(y) \in SUBSET Over(x) /\ Over(x) # Over(y)
          /\ Cardinality(Over(x)) \in Nat /\ Cardinality(Over(y)) \in Nat
      BY <1>1, <2>1
    <3> HIDE DEF Over
    <3> QED BY <3>1, FS_Subset
  <2>3. n <= Cardinality(Over(y))
    BY <1>3
  <2> HIDE DEF Over, T
  <2> QED BY <1>1, <1>4, <2>2, <2>3
<1> QED BY <1>5

LEMMA LowestIs ==
  ASSUME NEW S \in SUBSET Nat, S # {}
  PROVE  Lowest(S) \in S /\ \A y \in S : Lowest(S) <= y
BY Least DEF Lowest

LEMMA HighestIs ==
  ASSUME NEW S \in SUBSET Nat, IsFiniteSet(S), S # {}
  PROVE  Highest(S) \in S /\ \A y \in S : y <= Highest(S)
BY Greatest DEF Highest

-----------------------------------------------------------------------------
\* Interpolation.

\* Division rounds down.
LEMMA Divides ==
  ASSUME NEW n \in Nat, NEW d \in Nat, d > 0
  PROVE  n \div d \in Nat /\ d * (n \div d) <= n /\ n < d * (n \div d) + d
OBVIOUS

LEMMA Factor ==
  ASSUME NEW d \in Nat, NEW p \in Int, NEW q \in Int, d * q < d * p
  PROVE  q < p
<1>1. CASE p <= q
  <2>1. PICK k \in Nat : q = p + k
    <3>1. q - p \in Nat /\ q = p + (q - p)
      BY <1>1
    <3> QED BY <3>1
  <2>2. d * q = d * p + d * k /\ d * k \in Nat /\ d * p \in Int
    BY <2>1
  <2> QED BY <2>2
<1> QED BY <1>1

LEMMA DivideMonotonic ==
  ASSUME NEW n \in Nat, NEW m \in Nat, NEW d \in Nat, d > 0, n <= m
  PROVE  n \div d <= m \div d
<1> DEFINE q == n \div d
           p == m \div d
<1>1. q \in Nat /\ p \in Nat /\ d * q <= n /\ m < d * p + d
  BY Divides
<1>2. d * p + d = d * (p + 1) /\ d * q \in Nat /\ d * (p + 1) \in Nat
  BY <1>1
<1>3. d * q < d * (p + 1)
  <2> HIDE DEF q, p
  <2> QED BY <1>1, <1>2
<1>4. q < p + 1
  <2> HIDE DEF q, p
  <2> QED BY <1>1, <1>3, Factor
<1> QED BY <1>1, <1>4

LEMMA DivideAtMost ==
  ASSUME NEW n \in Nat, NEW d \in Nat, d > 0, NEW p \in Nat, n < d * p + d
  PROVE  n \div d <= p
<1> DEFINE q == n \div d
<1>1. q \in Nat /\ d * q <= n
  BY Divides
<1>2. d * p + d = d * (p + 1) /\ d * q \in Nat /\ d * (p + 1) \in Nat
  BY <1>1
<1>3. q < p + 1
  <2> HIDE DEF q
  <2> QED BY <1>1, <1>2, Factor
<1> QED BY <1>1, <1>3

LEMMA Times ==
  ASSUME NEW a \in Nat, NEW x \in Nat, NEW y \in Nat, x <= y
  PROVE  a * x <= a * y /\ a * x \in Nat /\ a * y \in Nat
OBVIOUS

LEMMA Half == ASSUME NEW d \in Nat, d > 0 PROVE d \div 2 \in Nat /\ d \div 2 < d
OBVIOUS

\* On a rising segment the speed rises from one end to the other.
LEMMA InterpolateRising ==
  ASSUME NEW dx \in Nat, dx > 0, NEW dy \in Nat, NEW x \in 0 .. dx, NEW y \in x .. dx
  PROVE  /\ Interpolate(dx, dy, x) \in 0 .. dy
         /\ Interpolate(dx, dy, x) <= Interpolate(dx, dy, y)
<1> DEFINE n == dy * x + dx \div 2
           m == dy * y + dx \div 2
<1>1. dx \div 2 \in Nat /\ dx \div 2 < dx
  BY Half
<1>2. /\ dy * x \in Nat /\ dy * y \in Nat /\ dy * dx \in Nat /\ x \in Nat /\ y \in Nat
      /\ dy * x <= dy * y /\ dy * x <= dy * dx
  BY Times
<1>3. n \in Nat /\ m \in Nat /\ n <= m
  BY <1>1, <1>2
<1>4. Interpolate(dx, dy, x) = n \div dx /\ Interpolate(dx, dy, y) = m \div dx
  BY <1>3 DEF Interpolate, Quotient
<1>5. n \div dx <= m \div dx /\ n \div dx \in Nat
  <2> HIDE DEF n, m
  <2> QED BY <1>3, DivideMonotonic, Divides
<1>6. n < dx * dy + dx
  <2>1. dy * dx = dx * dy
    OBVIOUS
  <2> QED BY <1>1, <1>2, <2>1
<1>7. n \div dx <= dy
  <2> HIDE DEF n
  <2> QED BY <1>3, <1>6, DivideAtMost
<1> HIDE DEF n, m
<1> QED BY <1>4, <1>5, <1>7

\* On a falling one it stays between the two ends.
LEMMA InterpolateFalling ==
  ASSUME NEW dx \in Nat, dx > 0, NEW dy \in Nat, NEW x \in 0 .. dx
  PROVE  Interpolate(dx, -dy, x) \in -dy .. 0
<1> DEFINE h == dx \div 2
           n == (-dy) * x + h
           k == dy * x - h
<1>1. h \in Nat /\ h < dx
  BY Half
<1>2. dy * x \in Nat /\ dy * dx \in Nat /\ dy * x <= dy * dx /\ (-dy) * x = -(dy * x)
  BY Times
<1>3. n = -k /\ k \in Int /\ n \in Int
  <2> HIDE DEF h
  <2> QED BY <1>1, <1>2
<1>4. Interpolate(dx, -dy, x) = Quotient(n, dx)
  BY DEF Interpolate
<1>5. CASE n >= 0
  <2>1. n \in Nat /\ n < dx * 0 + dx
    <3> HIDE DEF h
    <3> QED BY <1>1, <1>2, <1>3, <1>5
  <2>2. n \div dx <= 0 /\ n \div dx \in Nat
    <3> HIDE DEF n
    <3> QED BY <2>1, DivideAtMost, Divides
  <2> HIDE DEF n
  <2> QED BY <1>4, <1>5, <2>2 DEF Quotient
<1>6. CASE n < 0
  <2>1. k \in Nat /\ -n = k /\ k < dx * dy + dx
    <3>1. dy * dx = dx * dy
      OBVIOUS
    <3> HIDE DEF h
    <3> QED BY <1>1, <1>2, <1>3, <1>6, <3>1
  <2>2. k \div dx <= dy /\ k \div dx \in Nat
    <3> HIDE DEF k
    <3> QED BY <2>1, DivideAtMost, Divides
  <2>3. Quotient(n, dx) = -(k \div dx)
    <3> HIDE DEF n, k
    <3> QED BY <1>3, <1>6, <2>1 DEF Quotient
  <2> HIDE DEF n, k
  <2> QED BY <1>4, <2>2, <2>3
<1> QED BY <1>3, <1>5, <1>6

-----------------------------------------------------------------------------
\* A curve: what the controller may use.
Sound(D, c) == IsFiniteSet(D) /\ D # {} /\ Valid(c) /\ DOMAIN c = D

LEMMA SoundCurve ==
  ASSUME NEW D \in SUBSET Nat, NEW c \in [D -> 0 .. 100], Sound(D, c)
  PROVE  /\ D \in SUBSET Nat /\ IsFiniteSet(D)
         /\ Lowest(D) \in D /\ \A x \in D : Lowest(D) <= x
         /\ Highest(D) \in D /\ \A x \in D : x <= Highest(D)
         /\ Lowest(D) \in Nat /\ Highest(D) \in Nat
         /\ \A x \in D : x \in Nat /\ c[x] \in 0 .. 100 /\ c[x] \in Nat
<1>1. IsFiniteSet(D) /\ D # {}
  BY DEF Sound
<1>2. /\ Lowest(D) \in D /\ \A x \in D : Lowest(D) <= x
      /\ Highest(D) \in D /\ \A x \in D : x <= Highest(D)
  BY <1>1, LowestIs, HighestIs
<1>3. Lowest(D) \in Nat /\ Highest(D) \in Nat
  BY <1>2
<1>4. \A x \in D : x \in Nat /\ c[x] \in 0 .. 100
  OBVIOUS
<1>5. \A x \in D : c[x] \in Nat
  BY <1>4
<1> QED BY <1>1, <1>2, <1>3, <1>4, <1>5

\* Inside the curve a temperature lies between two neighbours.
LEMMA Segment ==
  ASSUME NEW D \in SUBSET Nat, NEW c \in [D -> 0 .. 100], Sound(D, c), NEW t \in Int, Lowest(D) < t, t <= Highest(D)
  PROVE  /\ Above(c, t) \in D /\ t <= Above(c, t)
         /\ Above(c, t) \in Nat /\ Below(c, t) \in Nat
         /\ \A x \in D : t <= x => Above(c, t) <= x
         /\ Below(c, t) \in D /\ Below(c, t) < t
         /\ \A x \in D : x < Above(c, t) => x <= Below(c, t)
<1> DEFINE A == {x \in D : t <= x}
           B == {x \in D : x < Above(c, t)}
<1>1. /\ D \in SUBSET Nat /\ IsFiniteSet(D)
      /\ Lowest(D) \in D /\ Highest(D) \in D
      /\ Lowest(D) \in Nat /\ Highest(D) \in Nat
  BY SoundCurve
<1>2. A \in SUBSET Nat /\ A # {}
  BY <1>1
<1>3. Above(c, t) \in A /\ \A x \in A : Above(c, t) <= x
  <2>1. Above(c, t) = Lowest(A)
    BY DEF Above
  <2> HIDE DEF A
  <2> QED BY <1>2, <2>1, LowestIs
<1>4. Above(c, t) \in D /\ t <= Above(c, t) /\ Above(c, t) \in Nat
  BY <1>1, <1>3
<1>5. B \in SUBSET Nat /\ B \in SUBSET D /\ B # {}
  <2>1. Lowest(D) < Above(c, t)
    BY <1>1, <1>4
  <2>2. Lowest(D) \in B
    BY <1>1, <2>1
  <2> QED BY <1>1, <2>2
<1>6. IsFiniteSet(B)
  <2> HIDE DEF B
  <2> QED BY <1>1, <1>5, FS_Subset
<1>7. Below(c, t) \in B /\ \A x \in B : x <= Below(c, t)
  <2>1. Below(c, t) = Highest(B)
    BY DEF Below
  <2> HIDE DEF B
  <2> QED BY <1>5, <1>6, <2>1, HighestIs
<1>8. Below(c, t) \in D /\ Below(c, t) < Above(c, t)
  BY <1>7
<1>10. Below(c, t) \in Nat
  BY <1>8
<1>9. Below(c, t) < t
  <2>1. CASE t <= Below(c, t)
    BY <1>1, <1>3, <1>4, <1>8, <1>10, <2>1
  <2> QED BY <1>10, <2>1
<1> QED BY <1>3, <1>4, <1>7, <1>8, <1>9, <1>10

\* What percentFor computes at a temperature that has not just fallen.
Speed(c, t) == PercentFor(c, t, FALSE)

LEMMA SpeedBelow ==
  ASSUME NEW D \in SUBSET Nat, NEW c \in [D -> 0 .. 100], Sound(D, c), NEW t \in Int,
         t <= Lowest(D)
  PROVE  Speed(c, t) = c[Lowest(D)]
<1>1. Valid(c) /\ DOMAIN c = D
  BY DEF Sound
<1> QED BY <1>1 DEF Speed, PercentFor, Effective

LEMMA SpeedBeyond ==
  ASSUME NEW D \in SUBSET Nat, NEW c \in [D -> 0 .. 100], Sound(D, c), NEW t \in Int,
         Lowest(D) < t, Highest(D) < t
  PROVE  Speed(c, t) = c[Highest(D)]
<1>1. Valid(c) /\ DOMAIN c = D /\ Lowest(D) \in Nat /\ Highest(D) \in Nat
  BY SoundCurve DEF Sound
<1>2. ~(t <= Lowest(D)) /\ t > Highest(D)
  BY <1>1
<1> QED BY <1>1, <1>2 DEF Speed, PercentFor, Effective

LEMMA SpeedInside ==
  ASSUME NEW D \in SUBSET Nat, NEW c \in [D -> 0 .. 100], Sound(D, c), NEW t \in Int,
         Lowest(D) < t, t <= Highest(D)
  PROVE  Speed(c, t) = c[Below(c, t)] + Interpolate(Above(c, t) - Below(c, t),
                                                    c[Above(c, t)] - c[Below(c, t)],
                                                    t - Below(c, t))
<1>1. Valid(c) /\ DOMAIN c = D /\ Lowest(D) \in Nat /\ Highest(D) \in Nat
  BY SoundCurve DEF Sound
<1>2. ~(t <= Lowest(D)) /\ ~(t > Highest(D))
  BY <1>1
<1> QED BY <1>1, <1>2 DEF Speed, PercentFor, Effective

\* The hysteresis is a higher temperature.
LEMMA FallingIsWarmer ==
  ASSUME NEW c, NEW t \in Int
  PROVE  PercentFor(c, t, TRUE) = Speed(c, t + Hysteresis)
BY DEF Speed, PercentFor, Effective

\* The speed is a percentage, on rising and falling segments.
LEMMA SpeedInRange ==
  ASSUME NEW D \in SUBSET Nat, NEW c \in [D -> 0 .. 100], Sound(D, c), NEW t \in Int
  PROVE  Speed(c, t) \in 0 .. 100 /\ Speed(c, t) \in Nat
<1>1. \A x \in D : x \in Nat /\ c[x] \in 0 .. 100
  BY SoundCurve
<1>2. Lowest(D) \in D /\ Highest(D) \in D
  BY SoundCurve
<1>3. CASE t <= Lowest(D)
  <2>1. Speed(c, t) = c[Lowest(D)]
    BY <1>3, SpeedBelow
  <2>2. c[Lowest(D)] \in 0 .. 100 /\ c[Lowest(D)] \in Nat
    BY SoundCurve
  <2> QED BY <2>1, <2>2
<1>4. CASE Lowest(D) < t /\ Highest(D) < t
  <2>1. Speed(c, t) = c[Highest(D)]
    BY <1>4, SpeedBeyond
  <2>2. c[Highest(D)] \in 0 .. 100 /\ c[Highest(D)] \in Nat
    BY SoundCurve
  <2> QED BY <2>1, <2>2
<1>5. CASE Lowest(D) < t /\ t <= Highest(D)
  <2> DEFINE hi == Above(c, t)
             lo == Below(c, t)
  <2>1. hi \in D /\ t <= hi /\ lo \in D /\ lo < t
    BY <1>5, Segment
  <2>2. Speed(c, t) = c[lo] + Interpolate(hi - lo, c[hi] - c[lo], t - lo)
    BY <1>5, SpeedBelow, SpeedBeyond, SpeedInside
  <2> HIDE DEF hi, lo
  <2>3. /\ hi \in Nat /\ lo \in Nat /\ hi \in D /\ lo \in D
        /\ c[hi] \in 0 .. 100 /\ c[lo] \in 0 .. 100
    BY <1>1, <2>1
  <2>4. hi - lo \in Nat /\ hi - lo > 0 /\ t - lo \in 0 .. hi - lo
    BY <2>1, <2>3
  <2>5. CASE c[lo] <= c[hi]
    <3>1. c[hi] - c[lo] \in Nat
      BY <2>3, <2>5
    <3>2. Interpolate(hi - lo, c[hi] - c[lo], t - lo) \in 0 .. c[hi] - c[lo]
      <4>1. t - lo \in (t - lo) .. (hi - lo)
        BY <2>4
      <4> QED BY <2>4, <3>1, <4>1, InterpolateRising
    <3>3. c[lo] + Interpolate(hi - lo, c[hi] - c[lo], t - lo) \in 0 .. 100
      <4>1. \A a, b \in 0 .. 100 : \A i \in 0 .. b - a : a + i \in 0 .. 100
        OBVIOUS
      <4> QED BY <2>3, <3>2, <4>1
    <3>4. Speed(c, t) \in 0 .. 100
      BY <2>2, <3>3
    <3> QED BY <3>4
  <2>6. CASE c[hi] < c[lo]
    <3>1. c[lo] - c[hi] \in Nat /\ c[hi] - c[lo] = -(c[lo] - c[hi])
      BY <2>3, <2>6
    <3>2. Interpolate(hi - lo, -(c[lo] - c[hi]), t - lo) \in -(c[lo] - c[hi]) .. 0
      BY <2>4, <3>1, InterpolateFalling
    <3>3. c[lo] + Interpolate(hi - lo, c[hi] - c[lo], t - lo) \in 0 .. 100
      <4>1. \A a, b \in 0 .. 100 : \A i \in -(a - b) .. 0 : a + i \in 0 .. 100
        OBVIOUS
      <4>2. Interpolate(hi - lo, c[hi] - c[lo], t - lo) \in -(c[lo] - c[hi]) .. 0
        BY <3>1, <3>2
      <4> QED BY <2>3, <4>1, <4>2
    <3>4. Speed(c, t) \in 0 .. 100
      BY <2>2, <3>3
    <3> QED BY <3>4
  <2> QED BY <2>3, <2>5, <2>6
<1>6. Lowest(D) \in Nat /\ Highest(D) \in Nat
  BY SoundCurve
<1> QED BY <1>3, <1>4, <1>5, <1>6

\* On a curve that never drops, inside a segment: between the ends' speeds.
LEMMA Inside ==
  ASSUME NEW D \in SUBSET Nat, NEW c \in [D -> 0 .. 100], Sound(D, c), NonDecreasing(c), NEW t \in Int,
         Lowest(D) < t, t <= Highest(D)
  PROVE  c[Below(c, t)] <= Speed(c, t) /\ Speed(c, t) <= c[Above(c, t)]
<1> DEFINE hi == Above(c, t)
           lo == Below(c, t)
<1>1. hi \in D /\ t <= hi /\ lo \in D /\ lo < t
  BY Segment
<1>2. Speed(c, t) = c[lo] + Interpolate(hi - lo, c[hi] - c[lo], t - lo)
  BY SpeedBelow, SpeedBeyond, SpeedInside
<1> HIDE DEF hi, lo
<1>3. /\ hi \in D /\ lo \in D /\ hi \in Nat /\ lo \in Nat
      /\ c[hi] \in Nat /\ c[lo] \in Nat
  BY <1>1, SoundCurve
<1>4. hi - lo \in Nat /\ hi - lo > 0 /\ t - lo \in 0 .. hi - lo /\ t - lo \in (t - lo) .. (hi - lo)
  BY <1>1, <1>3
<1>5. c[lo] <= c[hi]
  BY <1>1, <1>3 DEF NonDecreasing
<1>6. c[hi] - c[lo] \in Nat
  BY <1>3, <1>5
<1>7. Interpolate(hi - lo, c[hi] - c[lo], t - lo) \in 0 .. c[hi] - c[lo]
  BY <1>4, <1>6, InterpolateRising
<1>8. c[lo] <= Speed(c, t) /\ Speed(c, t) <= c[hi]
  BY <1>2, <1>3, <1>7
<1> QED BY <1>8 DEF hi, lo

\* There the speed does not drop as the temperature rises.
LEMMA SpeedRises ==
  ASSUME NEW D \in SUBSET Nat, NEW c \in [D -> 0 .. 100], Sound(D, c), NonDecreasing(c), NEW t \in Int, NEW u \in Int, t <= u
  PROVE  Speed(c, t) <= Speed(c, u)
<1> DEFINE low  == Lowest(D)
           high == Highest(D)
<1>1. /\ low \in D /\ high \in D /\ low \in Nat /\ high \in Nat
      /\ \A x \in D : x \in Nat /\ c[x] \in Nat /\ low <= x /\ x <= high
  BY SoundCurve
<1>2. \A x, y \in D : x <= y => c[x] <= c[y]
  BY DEF NonDecreasing
<1>3. Speed(c, t) \in Nat /\ Speed(c, u) \in Nat
  BY SpeedInRange
<1>4. ASSUME NEW v \in Int, low < v, v <= high
      PROVE  /\ Above(c, v) \in D /\ v <= Above(c, v)
             /\ Above(c, v) \in Nat /\ Below(c, v) \in Nat
             /\ \A x \in D : v <= x => Above(c, v) <= x
             /\ Below(c, v) \in D /\ Below(c, v) < v
             /\ \A x \in D : x < Above(c, v) => x <= Below(c, v)
             /\ c[Below(c, v)] <= Speed(c, v)
             /\ Speed(c, v) <= c[Above(c, v)]
  BY <1>4, Segment, Inside
<1>5. CASE t <= low
  <2>1. Speed(c, t) = c[low]
    BY <1>5, SpeedBelow, SpeedBeyond, SpeedInside
  <2>2. CASE u <= low
    BY <2>1, <2>2, <1>1, SpeedBelow, SpeedBeyond, SpeedInside
  <2>3. CASE low < u /\ high < u
    <3>1. Speed(c, u) = c[high]
      BY <2>3, SpeedBelow, SpeedBeyond, SpeedInside
    <3> QED BY <1>1, <1>2, <2>1, <3>1
  <2>4. CASE low < u /\ u <= high
    <3>1. Below(c, u) \in D /\ c[Below(c, u)] <= Speed(c, u)
      BY <1>4, <2>4
    <3>2. c[low] <= c[Below(c, u)]
      BY <1>1, <1>2, <3>1
    <3>3. c[low] \in Nat /\ c[Below(c, u)] \in Nat
      BY <1>1, <3>1
    <3> HIDE DEF low, high
    <3>4. c[low] <= Speed(c, u)
      BY <1>1, <1>3, <3>1, <3>2, <3>3
    <3> QED BY <2>1, <3>4
  <2> HIDE DEF low, high
  <2> QED BY <1>1, <2>2, <2>3, <2>4
<1>6. CASE low < t /\ high < t
  <2>1. Speed(c, t) = c[high]
    BY <1>6, SpeedBelow, SpeedBeyond, SpeedInside
  <2>2. low < u /\ high < u
    <3> HIDE DEF low, high
    <3> QED BY <1>1, <1>6
  <2>3. Speed(c, u) = c[high]
    BY <2>2, SpeedBelow, SpeedBeyond, SpeedInside
  <2> QED BY <1>1, <2>1, <2>3
<1>7. CASE low < t /\ t <= high
  <2>1. /\ Above(c, t) \in D /\ t <= Above(c, t) /\ Above(c, t) \in Nat
        /\ \A x \in D : t <= x => Above(c, t) <= x
        /\ Speed(c, t) <= c[Above(c, t)]
    BY <1>4, <1>7
  <2>2. low < u
    <3> HIDE DEF low, high
    <3> QED BY <1>1, <1>7
  <2>3. CASE high < u
    <3>1. Speed(c, u) = c[high]
      BY <2>2, <2>3, SpeedBelow, SpeedBeyond, SpeedInside
    <3>2. c[Above(c, t)] <= c[high]
      BY <1>1, <1>2, <2>1
    <3> HIDE DEF low, high
    <3> QED BY <1>1, <1>3, <2>1, <3>1, <3>2
  <2>4. CASE u <= high /\ u <= Above(c, t)
    <3>1. /\ Above(c, u) \in D /\ u <= Above(c, u) /\ Above(c, u) \in Nat
          /\ \A x \in D : u <= x => Above(c, u) <= x
      BY <1>4, <2>2, <2>4
    <3>2. Above(c, u) = Above(c, t)
      <4>1. Above(c, u) <= Above(c, t)
        BY <2>1, <2>4, <3>1
      <4>2. t <= Above(c, u)
        BY <1>1, <3>1
      <4>3. Above(c, t) <= Above(c, u)
        BY <2>1, <3>1, <4>2
      <4> QED BY <1>1, <2>1, <3>1, <4>1, <4>3
    <3>3. Below(c, u) = Below(c, t)
      BY <3>2 DEF Below
    <3> DEFINE hi == Above(c, t)
               lo == Below(c, t)
    <3>4. /\ Speed(c, t) = c[lo] + Interpolate(hi - lo, c[hi] - c[lo], t - lo)
          /\ Speed(c, u) = c[lo] + Interpolate(hi - lo, c[hi] - c[lo], u - lo)
      <4>1. Speed(c, t) = c[lo] + Interpolate(hi - lo, c[hi] - c[lo], t - lo)
        BY <1>7, SpeedBelow, SpeedBeyond, SpeedInside
      <4>2. Speed(c, u)
              = c[Below(c, u)] + Interpolate(Above(c, u) - Below(c, u),
                                             c[Above(c, u)] - c[Below(c, u)], u - Below(c, u))
        BY <2>2, <2>4, SpeedBelow, SpeedBeyond, SpeedInside
      <4> QED BY <3>2, <3>3, <4>1, <4>2
    <3>5. hi \in D /\ u <= hi /\ lo \in D /\ lo < t
      BY <1>4, <1>7, <2>4
    <3> HIDE DEF hi, lo, low, high
    <3>6. /\ hi \in D /\ lo \in D /\ hi \in Nat /\ lo \in Nat
          /\ c[hi] \in Nat /\ c[lo] \in Nat /\ c[lo] <= c[hi]
      BY <1>1, <1>2, <3>5
    <3>7. /\ hi - lo \in Nat /\ hi - lo > 0 /\ t - lo \in 0 .. hi - lo
          /\ u - lo \in (t - lo) .. (hi - lo) /\ c[hi] - c[lo] \in Nat
      BY <3>5, <3>6
    <3>8. /\ Interpolate(hi - lo, c[hi] - c[lo], t - lo)
               <= Interpolate(hi - lo, c[hi] - c[lo], u - lo)
          /\ Interpolate(hi - lo, c[hi] - c[lo], t - lo) \in Int
      BY <3>7, InterpolateRising
    <3>9. Interpolate(hi - lo, c[hi] - c[lo], u - lo) \in Int
      <4>1. u - lo \in 0 .. hi - lo /\ u - lo \in (u - lo) .. (hi - lo)
        BY <3>7
      <4> QED BY <3>7, <4>1, InterpolateRising
    <3> QED BY <3>4, <3>6, <3>8, <3>9
  <2>5. CASE u <= high /\ Above(c, t) < u
    <3>1. /\ Above(c, u) \in D /\ u <= Above(c, u) /\ Above(c, u) \in Nat
          /\ Below(c, u) \in D
          /\ \A x \in D : x < Above(c, u) => x <= Below(c, u)
          /\ c[Below(c, u)] <= Speed(c, u)
      BY <1>4, <2>2, <2>5
    <3>2. Above(c, t) < Above(c, u)
      BY <1>1, <2>1, <2>5, <3>1
    <3>3. c[Above(c, t)] <= c[Below(c, u)]
      BY <1>2, <2>1, <3>1, <3>2
    <3>4. c[Above(c, t)] \in Nat /\ c[Below(c, u)] \in Nat
      BY <1>1, <2>1, <3>1
    <3> HIDE DEF low, high
    <3>5. c[Above(c, t)] <= Speed(c, u)
      BY <1>3, <2>1, <3>1, <3>3, <3>4
    <3> QED BY <1>3, <2>1, <3>4, <3>5
  <2> HIDE DEF low, high
  <2> QED BY <1>1, <2>1, <2>3, <2>4, <2>5
<1> HIDE DEF low, high
<1> QED BY <1>1, <1>5, <1>6, <1>7

-----------------------------------------------------------------------------
\* The types.

Rest ==
  /\ passive \in BOOLEAN /\ custom \in BOOLEAN
  /\ curve \in Curves
  /\ trigger \in {"none", "gpu", "process"}
  /\ lastTemp \in Temps \cup {NoTemp}
  /\ load \in Loads /\ process \in BOOLEAN /\ temp \in Temps \cup {Unreadable}
  /\ target \in (0 .. 100) \cup {NoTarget}
  /\ events \in 0 .. MaxEvents

LEMMA CurveIsSound ==
  ASSUME NEW c \in Curves
  PROVE  /\ DOMAIN c \in SUBSET Nat /\ c \in [DOMAIN c -> 0 .. 100] /\ Sound(DOMAIN c, c)
<1>1. /\ Valid(c) /\ IsFiniteSet(DOMAIN c) /\ DOMAIN c \subseteq Nat
      /\ c \in [DOMAIN c -> 0 .. 100]
  BY CurveAssumption
<1>2. DOMAIN c # {}
  <2>1. Cardinality(DOMAIN c) >= 2
    BY <1>1 DEF Valid
  <2>2. Cardinality({}) = 0
    BY FS_EmptySet
  <2> QED BY <2>1, <2>2
<1> QED BY <1>1, <1>2 DEF Sound

\* Falling or not, the fan's target is a percentage, and a falling temperature never
\* makes it less than what the curve asks for.
LEMMA TargetOfCurve ==
  ASSUME NEW c \in Curves, NEW t \in Nat, NEW falling \in BOOLEAN
  PROVE  /\ PercentFor(c, t, falling) \in 0 .. 100
         /\ NonDecreasing(c) => PercentFor(c, t, falling) >= Speed(c, t)
<1>1. /\ DOMAIN c \in SUBSET Nat /\ c \in [DOMAIN c -> 0 .. 100] /\ Sound(DOMAIN c, c)
  BY CurveIsSound
<1>2. t \in Int /\ t + Hysteresis \in Int /\ t <= t + Hysteresis
  BY DEF Hysteresis
<1>3. /\ Speed(c, t) \in 0 .. 100 /\ Speed(c, t) \in Nat
      /\ Speed(c, t + Hysteresis) \in 0 .. 100 /\ Speed(c, t + Hysteresis) \in Nat
  BY <1>1, <1>2, SpeedInRange
<1>4. CASE falling
  <2>1. falling = TRUE
    BY <1>4
  <2>2. PercentFor(c, t, falling) = Speed(c, t + Hysteresis)
    BY <1>2, <2>1, FallingIsWarmer
  <2>3. NonDecreasing(c) => Speed(c, t) <= Speed(c, t + Hysteresis)
    BY <1>1, <1>2, SpeedRises
  <2> QED BY <1>3, <2>2, <2>3
<1>5. CASE ~falling
  <2>1. falling = FALSE
    BY <1>5
  <2>2. PercentFor(c, t, falling) = Speed(c, t)
    BY <2>1 DEF Speed
  <2> QED BY <1>3, <2>2
<1> QED BY <1>4, <1>5

LEMMA FanTargetType ==
  ASSUME Rest
  PROVE  FanTarget \in 0 .. 100
<1>1. CASE temp = Unreadable
  BY <1>1 DEF FanTarget
<1>2. CASE temp # Unreadable
  <2>1. temp \in Nat /\ curve \in Curves /\ Falling \in BOOLEAN
    BY <1>2, TempAssumption DEF Rest, Falling
  <2>2. PercentFor(curve, temp, Falling) \in 0 .. 100
    BY <2>1, TargetOfCurve
  <2> QED BY <1>2, <2>2 DEF FanTarget
<1> QED BY <1>1, <1>2

LEMMA TickRest ==
  ASSUME Rest, Tick
  PROVE  Rest'
<1>1. UNCHANGED <<passive, custom, curve, load, process, temp, events>>
  BY DEF Tick, snapshot
<1>2. CASE passive
  BY <1>1, <1>2 DEF Tick, Rest, scene
<1>3. CASE ~passive
  <2>1. Evaluate
    BY <1>3 DEF Tick
  <2>2. trigger' \in {"none", "gpu", "process"}
    BY <1>3 DEF Tick, OnTick, OutOfScene, InScene, scene, Rest
  <2>3. lastTemp' \in Temps \cup {NoTemp}
    BY <2>1 DEF Evaluate, Compute, Rest
  <2>4. target' \in (0 .. 100) \cup {NoTarget}
    BY <2>1, FanTargetType DEF Evaluate
  <2> QED BY <1>1, <2>2, <2>3, <2>4 DEF Rest
<1> QED BY <1>2, <1>3

LEMMA NextRest ==
  ASSUME Rest, [Next]_vars
  PROVE  Rest'
<1>1. CASE Tick
  BY <1>1, TickRest
<1>2. ASSUME events < MaxEvents, events' = events + 1 PROVE events' \in 0 .. MaxEvents
  BY <1>2, TempAssumption DEF Rest
<1>3. ASSUME NEW l \in Loads, NEW p \in BOOLEAN, NEW t \in Temps \cup {Unreadable}, Sample(l, p, t)
      PROVE  Rest'
  BY <1>2, <1>3 DEF Sample, Rest, scene
<1>4. ASSUME NEW on \in BOOLEAN, NEW s \in Settings, EditScene(on, s)
      PROVE  Rest'
  <2>1. trigger' \in {"none", "gpu", "process"}
    BY <1>4 DEF EditScene, SetParams, scene, Rest
  <2> QED BY <1>2, <1>4, <2>1 DEF EditScene, Rest, snapshot
<1>5. ASSUME NEW c \in Curves, SetFanCurve(c)
      PROVE  Rest'
  BY <1>2, <1>5 DEF SetFanCurve, Rest, scene, snapshot
<1>6. ASSUME NEW on \in BOOLEAN, SwitchMode(on) \/ SetPassive(on)
      PROVE  Rest'
  BY <1>2, <1>6 DEF SwitchMode, SetPassive, Rest, scene, snapshot
<1>7. CASE UNCHANGED vars
  BY <1>7 DEF vars, Rest, scene, snapshot
<1> QED BY <1>1, <1>3, <1>4, <1>5, <1>6, <1>7 DEF Next

LEMMA InitRest == Init => Rest
<1> SUFFICES ASSUME Init PROVE Rest
  OBVIOUS
<1>1. 0 \in 0 .. MaxEvents
  BY TempAssumption
<1> QED BY <1>1 DEF Init, Rest

LEMMA RestHolds == Spec => []Rest
<1>1. Rest /\ [Next]_vars => Rest'
  BY NextRest
<1> QED BY InitRest, <1>1, PTL DEF Spec

\* Type correctness, in which the fan's target is a percentage for every curve.
THEOREM TypeCorrect == Spec => []TypeOK
<1>1. IInv /\ Rest => TypeOK
  BY DEF IInv, Counters, Rest, TypeOK
<1> QED BY Invariance, RestHolds, <1>1, PTL

-----------------------------------------------------------------------------
\* The speed of a tick.
LEMMA TickIsLate ==
  ASSUME Rest, Tick, vars' # vars, target' # NoTarget, temp # Unreadable, NonDecreasing(curve)
  PROVE  target' >= PercentFor(curve, temp, FALSE)
<1>1. ~passive
  BY DEF Tick, vars, scene, snapshot, history
<1>2. target' = FanTarget
  BY <1>1 DEF Tick, Evaluate
<1>3. temp \in Nat /\ curve \in Curves /\ Falling \in BOOLEAN
  BY TempAssumption DEF Rest, Falling
<1>4. PercentFor(curve, temp, Falling) >= Speed(curve, temp)
  BY <1>3, TargetOfCurve
<1> QED BY <1>2, <1>4 DEF FanTarget, Speed

\* On every curve that never drops, whatever its points, the fan is never slower than
\* the curve asks for: neither the rounding nor the hysteresis takes from it.
THEOREM FanSpinsDownLate == Spec => SpinDownLate
<1>1. Rest /\ [Next]_vars
        => [Tick /\ target' # NoTarget /\ temp # Unreadable /\ NonDecreasing(curve)
              => target' >= PercentFor(curve, temp, FALSE)]_vars
  BY TickIsLate
<1> QED BY RestHolds, <1>1, PTL DEF Spec, SpinDownLate
=============================================================================
