----------------------------- MODULE JourneyProofs -----------------------------
(***************************************************************************)
(* Whatever corridors are loaded, a vehicle drives through them as they    *)
(* are stored, out and back; and whatever it meets on the way, its samples *)
(* add up to its trips and its pack is never empty: proofs for every       *)
(* corridor, hill, event, site, driver, pack and length of a tick.         *)
(***************************************************************************)
EXTENDS SimulatedVehicle, FiniteSetTheorems, WellFoundedInduction, TLAPS

-----------------------------------------------------------------------------
(* Numbers *)

\* A non-empty set of natural numbers has a least element.
LEMMA SmallestExists ==
  ASSUME NEW T \in SUBSET Nat, T # {}
  PROVE  \E x \in T : \A y \in T : x <= y
<1>1. IsWellFoundedOn(OpToRel(<, Nat), Nat)
  BY NatLessThanWellFounded
<1>2. \E x \in T : \A y \in T : ~(<<y, x>> \in OpToRel(<, Nat))
  BY <1>1, WFMin
<1>3. \A x, y \in T : ~(<<y, x>> \in OpToRel(<, Nat)) => x <= y
  BY DEF OpToRel
<1> QED
  BY <1>2, <1>3, Zenon

LEMMA MinOfNats ==
  ASSUME NEW T \in SUBSET Nat, T # {}
  PROVE  Min(T) \in T /\ \A y \in T : Min(T) <= y
<1>1. PICK x \in T : \A y \in T : x <= y
  BY SmallestExists
<1> QED
  BY <1>1, Zenon DEF Min

LEMMA MinOfTwo ==
  ASSUME NEW a \in Int, NEW b \in Int
  PROVE  Min({a, b}) = IF a <= b THEN a ELSE b
<1>1. \E x \in {a, b} : \A y \in {a, b} : x <= y
  OBVIOUS
<1>2. Min({a, b}) \in {a, b} /\ \A y \in {a, b} : Min({a, b}) <= y
  BY <1>1, Zenon DEF Min
<1> QED
  BY <1>2

LEMMA MaxOfTwo ==
  ASSUME NEW a \in Int, NEW b \in Int
  PROVE  Max({a, b}) = IF a >= b THEN a ELSE b
<1>1. \E x \in {a, b} : \A y \in {a, b} : x >= y
  OBVIOUS
<1>2. Max({a, b}) \in {a, b} /\ \A y \in {a, b} : Max({a, b}) >= y
  BY <1>1, Zenon DEF Max
<1> QED
  BY <1>2

\* The greatest of some numbers below a small bound.
LEMMA MaxOfFew ==
  ASSUME NEW T \in SUBSET (0 .. 3), T # {}
  PROVE  Max(T) \in T /\ \A y \in T : Max(T) >= y
<1>1. \E x \in T : \A y \in T : x >= y
  <2>1. \A y \in T : y \in {0, 1, 2, 3}
    OBVIOUS
  <2>2. PICK z \in T : TRUE
    OBVIOUS
  <2>3. CASE 3 \in T
    BY <2>1, <2>3
  <2>4. CASE 3 \notin T /\ 2 \in T
    BY <2>1, <2>4
  <2>5. CASE 3 \notin T /\ 2 \notin T /\ 1 \in T
    BY <2>1, <2>5
  <2>6. CASE 3 \notin T /\ 2 \notin T /\ 1 \notin T
    <3>1. z = 0 /\ \A y \in T : y = 0
      BY <2>1, <2>2, <2>6
    <3> QED
      BY <3>1
  <2> QED
    BY <2>3, <2>4, <2>5, <2>6
<1> QED
  BY <1>1, Zenon DEF Max

\* The bin of an offset, counted from the start of the line.
LEMMA Quotient ==
  ASSUME NEW x \in Nat
  PROVE  /\ x \div Bin \in Nat
         /\ Bin * (x \div Bin) <= x
         /\ x < Bin * (x \div Bin) + Bin
  BY EnvironmentAssumption

LEMMA Remainder ==
  ASSUME NEW x \in Nat, NEW n \in Nat \ {0}
  PROVE  (x % n) + 1 \in 1 .. n
  OBVIOUS

LEMMA QuotientBelow ==
  ASSUME NEW x \in Nat, NEW q \in Nat, x < Bin * q + Bin
  PROVE  x \div Bin <= q
<1> DEFINE p == x \div Bin
<1>1. p \in Nat /\ Bin * p <= x
  BY Quotient
<1>2. SUFFICES ASSUME p >= q + 1 PROVE FALSE
  BY <1>1
<1>3. PICK d \in Nat : p = q + 1 + d
  <2>1. p - (q + 1) \in Nat /\ p = q + 1 + (p - (q + 1))
    BY <1>1, <1>2
  <2> QED
    BY <2>1
<1>4. Bin * p = Bin * q + Bin + Bin * d /\ Bin * d \in Nat /\ Bin * q \in Nat /\ Bin \in Nat
  BY <1>3, EnvironmentAssumption
<1> QED
  BY <1>1, <1>4

-----------------------------------------------------------------------------
(* Corridors *)

\* A direction a vehicle can drive: its segments lie end to end, events and sites lie on
\* the line, and the rescue charge starts in time on its steepest slope.
Drivable(env) ==
  /\ env.route \in Route /\ EndToEnd(env.route.segments) /\ env.route.hills # <<>>
  /\ env.config.traffic \in DOMAIN Intensities /\ env.config.reach \in Nat
  /\ env.events \subseteq TrafficEvent
  /\ \A v \in env.events : v.at <= env.route.length
  /\ env.sites \subseteq Station /\ IsFiniteSet(env.sites)
  /\ \A slope \in ToSet(env.route.hills) :
       /\ FastestStep * Climb(slope) <= Critical
       /\ Climb(slope) + MaxDwell + StepsPerTick <= Critical

\* What ST_LineLocatePoint finds lies on the line.
LEMMA AlongIsOnTheLine ==
  ASSUME NEW route \in Route
  PROVE  /\ \A E \in SUBSET TrafficEvent :
              /\ Along(route, E) \subseteq TrafficEvent
              /\ \A v \in Along(route, E) : v.at <= route.length
         /\ \A S \in SUBSET Station : Along(route, S) \subseteq Station
<1>1. route.length \in Nat
  BY DEF Route
<1>2. \A n \in Nat : Min({n, route.length}) \in Nat /\ Min({n, route.length}) <= route.length
  BY <1>1, MinOfTwo
<1>3. ASSUME NEW E \in SUBSET TrafficEvent, NEW v \in Along(route, E)
      PROVE  v \in TrafficEvent /\ v.at <= route.length
  <2>1. PICK t \in E : v = [t EXCEPT !.at = Min({t.at, route.length})]
    BY <1>3 DEF Along
  <2>2. t \in TrafficEvent /\ t.at \in Nat
    BY <1>3 DEF TrafficEvent
  <2> QED
    BY <2>1, <2>2, <1>2 DEF TrafficEvent
<1>4. ASSUME NEW S \in SUBSET Station, NEW v \in Along(route, S)
      PROVE  v \in Station
  <2>1. PICK t \in S : v = [t EXCEPT !.at = Min({t.at, route.length})]
    BY <1>4 DEF Along
  <2>2. t \in Station /\ t.at \in Nat
    BY <1>4 DEF Station
  <2> QED
    BY <2>1, <2>2, <1>2 DEF Station
<1> QED
  BY <1>3, <1>4

LEMMA AlongIsFinite ==
  ASSUME NEW route, NEW S, IsFiniteSet(S)
  PROVE  IsFiniteSet(Along(route, S))
<1> DEFINE f == [t \in S |-> [t EXCEPT !.at = Min({t.at, route.length})]]
<1>1. f \in Surjection(S, Along(route, S))
  BY DEF Surjection, Along
<1> QED
  BY <1>1, FS_Surjection

LEMMA SequenceFacts ==
  ASSUME NEW S
  PROVE  /\ \A q \in Seq(S) : /\ Len(q) \in Nat /\ DOMAIN q = 1 .. Len(q)
                              /\ \A i \in 1 .. Len(q) : q[i] \in S
                              /\ q # <<>> => Len(q) # 0
         /\ \A n \in Nat : \A q \in [1 .. n -> S] :
              q \in Seq(S) /\ Len(q) = n /\ (n # 0 => q # <<>>)
  OBVIOUS

\* The way back of a corridor is a route whose segments lie end to end again, over the
\* same hills.
LEMMA ReversedIsARoute ==
  ASSUME NEW route \in Route, EndToEnd(route.segments)
  PROVE  /\ ReversedRoute(route) \in Route
         /\ EndToEnd(ReversedRoute(route).segments)
         /\ ReversedRoute(route).hills = route.hills
         /\ ReversedRoute(route).length = route.length
         /\ ReversedRoute(route).reverse = ~route.reverse
         /\ Len(ReversedRoute(route).segments) = Len(route.segments)
         /\ \A i \in 1 .. Len(route.segments) :
              LET there == route.segments[Len(route.segments) - i + 1]
                  back  == ReversedRoute(route).segments[i]
                  total == SegmentEnd(route.segments[Len(route.segments)])
              IN  /\ back.class = there.class
                  /\ back.from = total - SegmentEnd(there)
                  /\ SegmentEnd(back) = total - there.from
<1> DEFINE segs == route.segments
           n == Len(segs)
           total == SegmentEnd(segs[n])
           back == ReversedRoute(route).segments
<1>1. segs \in Seq(Segment) /\ n \in Nat \ {0} /\ DOMAIN segs = 1 .. n
  <2>1. segs \in Seq(Segment) /\ segs # <<>>
    BY DEF Route, EndToEnd
  <2> QED
    BY <2>1, SequenceFacts
<1>2. \A i \in 1 .. n : segs[i] \in Segment /\ SegmentEnd(segs[i]) \in Int
  <2>1. \A s \in Segment : SegmentEnd(s) \in Int
    BY DEF Segment, SegmentEnd
  <2> QED
    BY <1>1, <2>1, SequenceFacts
<1>3. /\ DOMAIN back = 1 .. n
      /\ \A i \in 1 .. n : back[i] = [segs[n - i + 1] EXCEPT !.from = total - SegmentEnd(segs[n - i + 1])]
  <2>1. total = SegmentEnd(Last(segs)) /\ segs # <<>>
    BY DEF Last, EndToEnd
  <2>2. back = [i \in DOMAIN segs |->
                  LET s == Reverse(segs)[i] IN [s EXCEPT !.from = total - SegmentEnd(s)]]
    BY <2>1 DEF ReversedRoute, Route
  <2>3. \A i \in 1 .. n : Reverse(segs)[i] = segs[n - i + 1]
    BY DEF Reverse
  <2> QED
    BY <1>1, <2>2, <2>3
<1>4. \A i \in 1 .. n : n - i + 1 \in 1 .. n
  BY <1>1
<1>5. total \in Int
  BY <1>1, <1>2
<1>6. \A i \in 1 .. n : /\ back[i] \in Segment
                         /\ back[i].class = segs[n - i + 1].class
                         /\ back[i].from = total - SegmentEnd(segs[n - i + 1])
                         /\ SegmentEnd(back[i]) = total - segs[n - i + 1].from
  <2>1. ASSUME NEW s \in Segment
        PROVE  LET t == [s EXCEPT !.from = total - SegmentEnd(s)]
               IN  /\ t \in Segment /\ t.class = s.class
                   /\ t.from = total - SegmentEnd(s) /\ SegmentEnd(t) = total - s.from
    <3> DEFINE t == [s EXCEPT !.from = total - SegmentEnd(s)]
    <3>1. s.from \in Int /\ s.cells \in Nat /\ SegmentEnd(s) = s.from + s.cells
      BY DEF Segment, SegmentEnd
    <3>2. t.from = total - SegmentEnd(s) /\ t.cells = s.cells /\ total - SegmentEnd(s) \in Int
      BY <1>5, <3>1 DEF Segment
    <3>3. t \in Segment /\ t.class = s.class
      BY <3>2 DEF Segment
    <3>4. SegmentEnd(t) = t.from + t.cells
      BY DEF SegmentEnd
    <3>5. SegmentEnd(t) = total - s.from
      BY <1>5, <3>1, <3>2, <3>4
    <3> QED
      BY <3>2, <3>3, <3>5
  <2>2. ASSUME NEW i \in 1 .. n
        PROVE  /\ back[i] \in Segment
               /\ back[i].class = segs[n - i + 1].class
               /\ back[i].from = total - SegmentEnd(segs[n - i + 1])
               /\ SegmentEnd(back[i]) = total - segs[n - i + 1].from
    <3> DEFINE s == segs[n - i + 1]
    <3>1. s \in Segment
      BY <1>2, <1>4
    <3>2. back[i] = [s EXCEPT !.from = total - SegmentEnd(s)]
      BY <1>3
    <3>3. /\ back[i] \in Segment
          /\ back[i].class = s.class
          /\ back[i].from = total - SegmentEnd(s)
          /\ SegmentEnd(back[i]) = total - s.from
      <4> HIDE DEF s, back, total
      <4> QED
        BY <2>1, <3>1, <3>2
    <3> QED
      BY <3>3
  <2> QED
    BY <2>2
<1>7. back \in Seq(Segment) /\ Len(back) = n
  <2>1. back = [i \in 1 .. n |-> back[i]]
    BY <1>1 DEF ReversedRoute, Route
  <2>2. \A i \in 1 .. n : back[i] \in Segment
    BY <1>6
  <2> QED
    BY <2>1, <2>2, <1>1, SequenceFacts
<1>8. EndToEnd(back)
  <2>1. back # <<>> /\ back[1].from = 0
    <3>1. n - 1 + 1 = n /\ 1 \in 1 .. n
      BY <1>1
    <3> QED
      BY <1>7, <1>6, <1>5, <1>1, <3>1
  <2>2. ASSUME NEW i \in 2 .. n
        PROVE  back[i].from = SegmentEnd(back[i - 1])
    <3>1. i \in 1 .. n /\ i - 1 \in 1 .. n /\ n - (i - 1) + 1 \in 2 .. n
      BY <1>1
    <3>2. \A j \in 2 .. n : segs[j].from = SegmentEnd(segs[j - 1])
      BY DEF EndToEnd
    <3>3. n - (i - 1) + 1 - 1 = n - i + 1
      BY <1>1
    <3>4. segs[n - (i - 1) + 1].from = SegmentEnd(segs[n - i + 1])
      BY <3>1, <3>2, <3>3
    <3>5. /\ back[i].from = total - SegmentEnd(segs[n - i + 1])
          /\ SegmentEnd(back[i - 1]) = total - segs[n - (i - 1) + 1].from
      BY <1>6, <3>1
    <3> QED
      BY <3>4, <3>5
  <2> QED
    BY <2>1, <2>2, <1>7 DEF EndToEnd
<1>9. /\ ReversedRoute(route) \in Route
      /\ ReversedRoute(route).hills = route.hills
      /\ ReversedRoute(route).length = route.length
      /\ ReversedRoute(route).reverse = ~route.reverse
  BY <1>7 DEF ReversedRoute, Route
<1> QED
  BY <1>6, <1>7, <1>8, <1>9

\* Slopes the rescue charge was made for.
Gentle(hills) ==
  \A slope \in ToSet(hills) :
    /\ FastestStep * Climb(slope) <= Critical
    /\ Climb(slope) + MaxDwell + StepsPerTick <= Critical

LEMMA EnvironmentIsDrivable ==
  ASSUME NEW route \in Route, EndToEnd(route.segments), route.hills # <<>>, Gentle(route.hills),
         NEW config, config.traffic \in DOMAIN Intensities, config.reach \in Nat,
         NEW database, database.events \in SUBSET TrafficEvent,
         database.sites \in SUBSET Station, IsFiniteSet(database.sites)
  PROVE  Drivable(Environment(route, config, database))
<1> DEFINE env == Environment(route, config, database)
<1>1. /\ env.route = route /\ env.config = config
      /\ env.events = RouteTraffic(route, config, database.events)
      /\ env.sites = ChargingSites(route, database.sites)
  BY DEF Environment
<1>2. env.events \subseteq TrafficEvent /\ \A v \in env.events : v.at <= route.length
  <2> DEFINE E == {e \in database.events : route.stored /\ e.active /\ e.off <= config.buffer}
  <2>1. env.events = Along(route, E) /\ E \in SUBSET TrafficEvent
    BY <1>1 DEF RouteTraffic
  <2> QED
    BY <2>1, AlongIsOnTheLine
<1>3. env.sites \subseteq Station /\ IsFiniteSet(env.sites)
  <2> DEFINE S == {s \in database.sites : route.stored /\ s.kw >= MinSitePower /\ s.off <= SiteBuffer}
  <2>1. S \in SUBSET Station /\ IsFiniteSet(S)
    BY FS_Subset
  <2>2. Along(route, S) \subseteq Station /\ IsFiniteSet(Along(route, S))
    BY <2>1, AlongIsOnTheLine, AlongIsFinite
  <2>3. env.sites \subseteq Along(route, S)
    BY <1>1 DEF ChargingSites
  <2> QED
    BY <2>2, <2>3, FS_Subset
<1> QED
  BY <1>1, <1>2, <1>3 DEF Drivable, Gentle

\* Every direction of a run can be driven; a way back follows its way out.
LEMMA DirectionsAreDrivable ==
  ASSUME NEW w \in Worlds
  PROVE  LET envs == Environments(w.routes, w.config, w.database)
         IN  /\ 1 \in DOMAIN envs
             /\ DOMAIN envs \subseteq Nat
             /\ \A e \in DOMAIN envs :
                  /\ Drivable(envs[e])
                  /\ envs[e].config = w.config
                  /\ \A slope \in ToSet(envs[e].route.hills) : Climb(slope) < w.soc
                  /\ envs[e].route.reverse =>
                       /\ e - 1 \in DOMAIN envs
                       /\ envs[e].route = ReversedRoute(envs[e - 1].route)
                       /\ ~envs[e - 1].route.reverse
<1> DEFINE routes == w.routes
           n == Len(routes)
           k == IF w.config.both THEN 2 ELSE 1
           directed(i) == IF ~w.config.both THEN routes[i]
                          ELSE IF i % 2 = 1 THEN routes[(i + 1) \div 2] ELSE ReversedRoute(routes[i \div 2])
           envs == Environments(w.routes, w.config, w.database)
<1>1. /\ routes \in Seq(Corridor) /\ routes # <<>>
      /\ w.config.traffic \in DOMAIN Intensities /\ w.config.both \in BOOLEAN /\ w.config.reach \in Nat
      /\ w.database.events \in SUBSET TrafficEvent
      /\ w.database.sites \in SUBSET Station /\ IsFiniteSet(w.database.sites)
  BY WorldsAssumption
<1>2. n \in Nat \ {0} /\ \A i \in 1 .. n : routes[i] \in Corridor /\ i \in DOMAIN routes
  BY <1>1, SequenceFacts
<1>3. \A i \in 1 .. n : Gentle(routes[i].hills) /\ \A slope \in ToSet(routes[i].hills) : Climb(slope) < w.soc
  BY <1>2, WorldsAssumption DEF Gentle
<1>4. /\ DOMAIN envs = 1 .. k * n
      /\ \A i \in 1 .. k * n : envs[i] = Environment(directed(i), w.config, w.database)
  BY DEF Environments
<1>5. \A r \in Corridor : /\ r \in Route /\ EndToEnd(r.segments) /\ r.hills # <<>> /\ ~r.reverse
                          /\ ReversedRoute(r) \in Route /\ EndToEnd(ReversedRoute(r).segments)
                          /\ ReversedRoute(r).hills = r.hills
  BY ReversedIsARoute DEF Corridor
<1>6. ASSUME NEW i \in 1 .. k * n
      PROVE  \E j \in 1 .. n :
               \/ directed(i) = routes[j]
               \/ /\ directed(i) = ReversedRoute(routes[j])
                  /\ i - 1 \in 1 .. k * n /\ directed(i - 1) = routes[j]
  <2>1. CASE ~w.config.both
    BY <2>1, <1>2
  <2>2. CASE w.config.both /\ i % 2 = 1
    <3>1. (i + 1) \div 2 \in 1 .. n
      BY <2>2, <1>2
    <3> QED
      BY <3>1, <2>2
  <2>3. CASE w.config.both /\ i % 2 # 1
    <3>1. /\ i \div 2 \in 1 .. n /\ i - 1 \in 1 .. k * n
          /\ (i - 1) % 2 = 1 /\ ((i - 1) + 1) \div 2 = i \div 2
      BY <2>3, <1>2
    <3> QED
      BY <3>1, <2>3
  <2> QED
    BY <2>1, <2>2, <2>3, <1>1
<1>7. ASSUME NEW i \in 1 .. k * n
      PROVE  /\ Drivable(envs[i])
             /\ envs[i].config = w.config
             /\ \A slope \in ToSet(envs[i].route.hills) : Climb(slope) < w.soc
             /\ envs[i].route.reverse =>
                  /\ i - 1 \in DOMAIN envs
                  /\ envs[i].route = ReversedRoute(envs[i - 1].route)
                  /\ ~envs[i - 1].route.reverse
  <2> HIDE DEF routes, n, k, directed, envs
  <2>1. PICK j \in 1 .. n :
               \/ directed(i) = routes[j]
               \/ /\ directed(i) = ReversedRoute(routes[j])
                  /\ i - 1 \in 1 .. k * n /\ directed(i - 1) = routes[j]
    BY <1>6
  <2>2. routes[j] \in Corridor /\ Gentle(routes[j].hills)
        /\ \A slope \in ToSet(routes[j].hills) : Climb(slope) < w.soc
    BY <1>2, <1>3
  <2>3. /\ directed(i) \in Route /\ EndToEnd(directed(i).segments) /\ directed(i).hills = routes[j].hills
        /\ directed(i).hills # <<>>
    BY <2>1, <2>2, <1>5
  <2>4. envs[i].route = directed(i) /\ envs[i].config = w.config
    BY <1>4 DEF Environment
  <2>5. Drivable(envs[i])
    BY <2>3, <2>2, <1>1, <1>4, EnvironmentIsDrivable
  <2>6. envs[i].route.reverse =>
                  /\ i - 1 \in DOMAIN envs
                  /\ envs[i].route = ReversedRoute(envs[i - 1].route)
                  /\ ~envs[i - 1].route.reverse
    <3>1. CASE directed(i) = routes[j]
      BY <3>1, <2>2, <2>4, <1>5
    <3>2. CASE /\ directed(i) = ReversedRoute(routes[j])
               /\ i - 1 \in 1 .. k * n /\ directed(i - 1) = routes[j]
      <4>1. envs[i - 1].route = routes[j]
        BY <3>2, <1>4 DEF Environment
      <4> QED
        BY <4>1, <3>2, <2>2, <2>4, <1>4, <1>5
    <3> QED
      BY <3>1, <3>2, <2>1
  <2> QED
    BY <2>2, <2>3, <2>4, <2>5, <2>6
<1>8. 1 \in DOMAIN envs /\ DOMAIN envs \subseteq Nat
  <2>1. k * n = IF w.config.both THEN n + n ELSE n
    <3>1. n \in Nat
      BY <1>2
    <3>2. 2 * n = n + n /\ 1 * n = n
      BY <3>1
    <3> QED
      BY <3>2
  <2>2. n \in Nat /\ n >= 1
    BY <1>2
  <2>3. k * n \in Nat /\ k * n >= 1
    <3> HIDE DEF n, k
    <3> QED
      BY <2>1, <2>2
  <2>4. \A m \in Nat : m >= 1 => 1 \in 1 .. m /\ 1 .. m \subseteq Nat
    OBVIOUS
  <2> QED
    BY <2>3, <2>4, <1>4
<1> QED
  BY <1>4, <1>7, <1>8

-----------------------------------------------------------------------------
(* What a vehicle meets *)

\* In a finite set of sites some site is preferred to none of the others.
LEMMA SomeSiteIsBest ==
  ASSUME NEW W \in SUBSET Station, IsFiniteSet(W), W # {}
  PROVE  \E s \in W : \A t \in W : ~Preferred(t, s)
<1> DEFINE Better(s) == {t \in W : Preferred(t, s)}
           Counts == {Cardinality(Better(s)) : s \in W}
<1>1. \A s \in W : IsFiniteSet(Better(s)) /\ Cardinality(Better(s)) \in Nat
  BY FS_Subset, FS_CardinalityType
<1>2. PICK least \in Counts : \A count \in Counts : least <= count
  <2>1. Counts \in SUBSET Nat /\ Counts # {}
    BY <1>1
  <2> QED
    BY <2>1, SmallestExists
<1>3. PICK s \in W : least = Cardinality(Better(s))
  OBVIOUS
<1>4. ASSUME NEW t \in W, Preferred(t, s)
      PROVE  FALSE
  <2>1. \A u \in W : Preferred(u, t) => Preferred(u, s)
    BY <1>4 DEF Preferred, NearerFirst, Station
  <2>2. ~Preferred(t, t)
    BY <1>4 DEF Preferred, NearerFirst, Station
  <2>3. Better(t) \in SUBSET Better(s) /\ Better(t) # Better(s)
    BY <1>4, <2>1, <2>2
  <2>4. Cardinality(Better(t)) <= Cardinality(Better(s)) /\ Cardinality(Better(t)) # Cardinality(Better(s))
    BY <1>1, <2>3, FS_Subset
  <2>5. Cardinality(Better(s)) <= Cardinality(Better(t))
    BY <1>2, <1>3
  <2> QED
    BY <2>4, <2>5, <1>1, <1>3
<1> QED
  BY <1>4

\* What a search finds is a site.
LEMMA NextSiteIsASite ==
  ASSUME NEW env, Drivable(env), NEW from, NEW upto
  PROVE  NextSite(env, from, upto) \in {Unknown} \cup Station
<1> DEFINE W == {s \in env.sites : from <= s.at /\ s.at <= upto}
<1>1. W \in SUBSET Station /\ IsFiniteSet(W)
  BY FS_Subset DEF Drivable
<1>2. W # {} => (CHOOSE s \in W : \A t \in W : ~Preferred(t, s)) \in W
  BY <1>1, SomeSiteIsBest
<1> QED
  BY <1>1, <1>2 DEF NextSite

\* A bin has the class and limit of the first segment that ends behind its midpoint.
LEMMA SegmentOfBinIsFirst ==
  ASSUME NEW route \in Route, EndToEnd(route.segments), NEW b \in Nat
  PROVE  LET n == Len(route.segments)
             i == SegmentOfBin(route, b)
         IN  /\ i \in 1 .. n
             /\ i = n \/ SegmentEnd(route.segments[i]) > Midpoint(b)
             /\ \A j \in 1 .. n : j < i => ~(SegmentEnd(route.segments[j]) > Midpoint(b))
<1> DEFINE segs == route.segments
           n == Len(segs)
           T == {i \in 1 .. n : i = n \/ SegmentEnd(segs[i]) > Midpoint(b)}
<1>1. segs \in Seq(Segment) /\ segs # <<>>
  BY DEF Route, EndToEnd
<1>2. n \in Nat \ {0}
  BY <1>1, SequenceFacts
<1>3. T \in SUBSET Nat /\ n \in T
  BY <1>2
<1>4. Min(T) \in T /\ \A y \in T : Min(T) <= y
  BY <1>3, MinOfNats
<1>5. SegmentOfBin(route, b) = Min(T)
  BY DEF SegmentOfBin
<1>6. ASSUME NEW j \in 1 .. n, j < Min(T)
      PROVE  j \notin T
  BY <1>4, <1>6, <1>3
<1> QED
  BY <1>4, <1>5, <1>6

LEMMA RoadOfBinType ==
  ASSUME NEW env, Drivable(env), NEW b \in Nat
  PROVE  /\ RoadOfBin(env.route, b).class \in RoadClass
         /\ RoadOfBin(env.route, b).limit \in {Unknown} \cup Nat
<1> DEFINE segs == env.route.segments
           i == SegmentOfBin(env.route, b)
<1>1. env.route \in Route /\ segs \in Seq(Segment) /\ segs # <<>> /\ EndToEnd(segs)
  BY DEF Drivable, Route, EndToEnd
<1>2. i \in 1 .. Len(segs)
  BY <1>1, SegmentOfBinIsFirst
<1>3. segs[i] \in Segment
  BY <1>1, <1>2, SequenceFacts
<1>4. RoadOfBin(env.route, b) = [class |-> segs[i].class, limit |-> segs[i].limit]
  BY <1>1 DEF RoadOfBin
<1> QED
  BY <1>3, <1>4 DEF Segment

\* An offset has a bin, the last one for what lies behind it.
LEMMA BinOfType ==
  ASSUME NEW route \in Route, NEW at \in Nat
  PROVE  /\ BinCount(route) \in Nat \ {0}
         /\ BinOf(route, at) \in Nat
         /\ BinOf(route, at) = IF at \div Bin <= BinCount(route) - 1 THEN at \div Bin ELSE BinCount(route) - 1
<1>1. route.length \in Nat /\ Bin \in Nat \ {0}
  BY EnvironmentAssumption DEF Route
<1>2. (route.length + Bin - 1) \div Bin \in Int
  BY <1>1
<1>3. BinCount(route) \in Nat \ {0}
  BY <1>2, MaxOfTwo DEF BinCount
<1>4. at \div Bin \in Nat
  BY Quotient
<1>5. Min({BinCount(route) - 1, at \div Bin}) =
        IF at \div Bin <= BinCount(route) - 1 THEN at \div Bin ELSE BinCount(route) - 1
  <2>1. BinCount(route) - 1 \in Int
    BY <1>3
  <2> QED
    BY <1>3, <1>4, <2>1, MinOfTwo
<1>6. Min({BinCount(route) - 1, at \div Bin}) \in Nat
  BY <1>3, <1>4, <1>5
<1>7. BinOf(route, at) = Min({BinCount(route) - 1, at \div Bin})
  BY <1>6, MaxOfTwo DEF BinOf
<1> QED
  BY <1>3, <1>5, <1>6, <1>7

\* The severities that reach a bin, and the one it is painted with.
LEMMA PaintedIsTheWorst ==
  ASSUME NEW env, Drivable(env), NEW b
  PROVE  /\ Reported(env, b) \subseteq Severity
         /\ env.config.traffic = "observed" /\ Reported(env, b) # {} =>
              /\ PaintedOnBin(env, b) \in Severity
              /\ \A severity \in Reported(env, b) : PaintedOnBin(env, b) >= severity
         /\ ~(env.config.traffic = "observed" /\ Reported(env, b) # {}) => PaintedOnBin(env, b) = Unknown
<1>1. \A e \in env.events : EventSeverity(e) \in Severity
  BY DEF Drivable, TrafficEvent, EventSeverity, Severity
<1>2. Reported(env, b) \subseteq Severity
  BY <1>1 DEF Reported
<1>3. Reported(env, b) # {} =>
        /\ Max(Reported(env, b)) \in Reported(env, b)
        /\ \A severity \in Reported(env, b) : Max(Reported(env, b)) >= severity
  BY <1>2, MaxOfFew DEF Severity
<1> QED
  BY <1>2, <1>3 DEF PaintedOnBin

\* Traffic is a severity, painted or generated.
LEMMA TrafficAtType ==
  ASSUME NEW env, Drivable(env), NEW at, NEW when
  PROVE  TrafficAt(env, at, when) \in Severity
<1> DEFINE b == BinOf(env.route, at)
           peak == Intensities[env.config.traffic][2]
<1>1. PaintedOnBin(env, b) # Unknown => PaintedOnBin(env, b) \in Severity
  BY PaintedIsTheWorst
<1>2. peak \in Severity
  BY DEF Drivable, Intensities, Severity
<1>3. ASSUME NEW pressure
      PROVE  FromPressure(pressure, peak) \in Severity
  <2> DEFINE T == {t \in {25, 45, 65} : pressure >= t}
  <2>1. IsFiniteSet({25, 45, 65})
    <3>1. IsFiniteSet({25}) /\ IsFiniteSet({45}) /\ IsFiniteSet({65})
      BY FS_Singleton
    <3>2. IsFiniteSet({25} \cup {45}) /\ IsFiniteSet(({25} \cup {45}) \cup {65})
      BY <3>1, FS_Union
    <3>3. {25, 45, 65} = ({25} \cup {45}) \cup {65}
      OBVIOUS
    <3> QED
      BY <3>2, <3>3
  <2>2. Cardinality(T) \in Nat
    BY <2>1, FS_Subset, FS_CardinalityType
  <2> HIDE DEF T
  <2>3. Min({peak, Cardinality(T)}) \in Severity
    BY <2>2, <1>2, MinOfTwo DEF Severity
  <2> QED
    BY <2>3 DEF FromPressure, T
<1>4. 0 \in Severity
  BY DEF Severity
<1> QED
  BY <1>1, <1>3, <1>4 DEF TrafficAt

-----------------------------------------------------------------------------
(* The invariant *)

Field ==
  {"state", "env", "at", "speed", "soc", "odometer", "used", "belief", "booked", "power", "target",
   "searched", "dwell", "halted", "trip"}

\* A vehicle's fields and their types.
IsVehicle(c) ==
  /\ c = [field \in Field |-> c[field]]
  /\ c.state \in {"idle", "driving", "stopped", "charging", "completed"}
  /\ c.env \in Nat /\ c.at \in Nat /\ c.speed \in 0 .. 2 /\ c.soc \in Nat
  /\ c.odometer \in Nat /\ c.used \in Nat /\ c.belief \in Int
  /\ c.booked \in {Unknown} \cup Station /\ c.power \in Nat /\ c.target \in Nat
  /\ c.searched \in {Unknown} \cup Nat
  /\ c.dwell \in Nat /\ c.halted \in Nat /\ c.trip \in Nat

JourneyTypeOK ==
  /\ IsVehicle(car)
  /\ car.env \in DOMAIN world.environments
  /\ car.dwell <= MaxDwell
  /\ interval \in [steps : 0 .. StepsPerTick, distance : Nat, energy : Nat]
  /\ interval.steps = 0 => interval = NoInterval
  /\ sampled \in [distance : Nat, energy : Nat]

\* The world a vehicle was built for: the directions of a run.
WorldOK ==
  /\ 1 \in DOMAIN world.environments /\ DOMAIN world.environments \subseteq Nat
  /\ \A e \in DOMAIN world.environments : Drivable(world.environments[e])
  /\ Driver.departure \in Nat /\ Driver.departure > Critical
  /\ \A e \in DOMAIN world.environments : world.environments[e].route.reverse =>
       /\ e - 1 \in DOMAIN world.environments
       /\ world.environments[e].route = ReversedRoute(world.environments[e - 1].route)
       /\ ~world.environments[e - 1].route.reverse

\* A charge that outlasts a first cell uphill, on any corridor of the run.
OutlastsAStart(charge) ==
  \A e \in DOMAIN world.environments : \A slope \in ToSet(world.environments[e].route.hills) :
    Climb(slope) < charge

\* Steps a vehicle that has arrived still idles, at most: the pause that is left and the
\* tick it ends in.
Pause ==
  IF car.dwell > 0 THEN car.dwell + StepsPerTick
  ELSE IF interval.steps = 0 THEN 0 ELSE StepsPerTick - interval.steps

\* On the road the charge is above the level of a rescue, or the vehicle has just departed;
\* off it, the charge outlasts the pause and the start after it.
ChargeLasts ==
  /\ car.soc > 0
  /\ car.state \in {"driving", "stopped"} =>
       car.soc > Critical \/ (car.speed = 0 /\ OutlastsAStart(car.soc))
  /\ car.state \in {"idle", "completed"} => OutlastsAStart(car.soc - Pause)
  /\ car.state = "completed" => interval.steps # 0
  /\ car.state = "charging" \/ car.booked # Unknown => car.target = Driver.departure

JourneyInv == WorldOK /\ JourneyTypeOK /\ ChargeLasts /\ JourneyAddsUp

-----------------------------------------------------------------------------
(* Speeds and slopes *)

LEMMA HighestTarget ==
  ASSUME NEW env, Drivable(env), NEW at \in Nat, NEW when
  PROVE  TargetSpeed(ConditionsAt(env, at, when)) \in 1 .. 2
<1> DEFINE conditions == ConditionsAt(env, at, when)
           free == IF conditions.limit = Unknown THEN Cruise[conditions.class]
                   ELSE Min({Cruise[conditions.class], conditions.limit})
           weather == WeatherPercent[conditions.condition]
           delay == DelayPercent[conditions.severity + 1]
<1>1. conditions.class \in RoadClass /\ conditions.limit \in {Unknown} \cup Nat
  <2>1. BinOf(env.route, at) \in Nat
    BY BinOfType DEF Drivable
  <2> QED
    BY <2>1, RoadOfBinType DEF ConditionsAt
<1>2. weather \in {100, 93, 75}
  <2>1. conditions.condition = WeatherCondition(WeatherAt(env))
    BY DEF ConditionsAt
  <2>2. conditions.condition \in {"snow", "rain", "clear"}
    BY <2>1 DEF WeatherCondition
  <2> HIDE DEF conditions
  <2> QED
    BY <2>2 DEF WeatherPercent
<1>3. delay \in {100, 125, 160, 200}
  <2>1. conditions.severity \in Severity
    BY TrafficAtType DEF ConditionsAt
  <2> HIDE DEF conditions
  <2> QED
    BY <2>1 DEF DelayPercent, Severity
<1>4. free \in 0 .. 130
  <2> HIDE DEF conditions
  <2>1. Cruise[conditions.class] \in 0 .. 130
    BY <1>1 DEF Cruise, RoadClass
  <2>2. CASE conditions.limit = Unknown
    BY <2>1, <2>2
  <2>3. CASE conditions.limit # Unknown
    <3>1. conditions.limit \in Nat
      BY <1>1, <2>3
    <3> DEFINE cruise == Cruise[conditions.class]
               limit == conditions.limit
    <3>2. cruise \in 0 .. 130 /\ limit \in Nat
      BY <2>1, <3>1
    <3> HIDE DEF cruise, limit
    <3>3. Min({cruise, limit}) = IF cruise <= limit THEN cruise ELSE limit
      BY <3>2, MinOfTwo
    <3>4. Min({cruise, limit}) \in 0 .. 130
      BY <3>2, <3>3
    <3> QED
      BY <2>3, <3>4 DEF cruise, limit
  <2> QED
    BY <2>2, <2>3
<1>5. ((free * weather) \div delay) \div SpeedUnit \in 0 .. 2
  <2> HIDE DEF free, weather, delay
  <2>1. free * weather \in 0 .. 13000
    BY <1>2, <1>4
  <2>2. (free * weather) \div delay \in 0 .. 130
    <3> DEFINE product == free * weather
    <3> HIDE DEF product
    <3>1. product \in 0 .. 13000
      BY <2>1 DEF product
    <3>2. product \in Nat /\ product <= 13000
      BY <3>1
    <3>3. product \div 100 \in 0 .. 130
      BY <3>2
    <3>4. product \div 125 \in 0 .. 130
      BY <3>2
    <3>5. product \div 160 \in 0 .. 130
      BY <3>2
    <3>6. product \div 200 \in 0 .. 130
      BY <3>2
    <3>7. product \div delay \in 0 .. 130
      BY <1>3, <3>3, <3>4, <3>5, <3>6
    <3> QED
      BY <3>7 DEF product
  <2> QED
    BY <2>2 DEF SpeedUnit
<1>6. TargetSpeed(conditions) = Max({1, ((free * weather) \div delay) \div SpeedUnit})
  BY DEF TargetSpeed
<1> QED
  BY <1>5, <1>6, MaxOfTwo

LEMMA SlopesOfADirection ==
  ASSUME NEW env, Drivable(env)
  PROVE  /\ \A slope \in ToSet(env.route.hills) : Climb(slope) \in Nat \ {0}
         /\ \E slope \in ToSet(env.route.hills) : TRUE
<1> DEFINE hills == env.route.hills
<1>1. hills \in Seq(Int) /\ hills # <<>>
  BY DEF Drivable, Route
<1>2. 1 \in DOMAIN hills /\ \A i \in DOMAIN hills : hills[i] \in Int
  BY <1>1, SequenceFacts
<1>3. ToSet(hills) = {hills[i] : i \in DOMAIN hills}
  BY DEF ToSet
<1>4. \A slope \in Int : Climb(slope) \in Nat \ {0}
  <2>1. \A slope \in Int : -slope \in Int
    OBVIOUS
  <2> QED
    BY <2>1, MaxOfTwo DEF Climb, Nominal
<1> QED
  BY <1>2, <1>3, <1>4

\* Every cell of a direction is climbed or descended on a slope of its corridor.
LEMMA GradientIsASlope ==
  ASSUME NEW env, Drivable(env), NEW at \in 0 .. env.route.length
  PROVE  /\ Gradient(env, at) \in Int
         /\ \E slope \in ToSet(env.route.hills) :
              /\ Climb(slope) \in Nat \ {0}
              /\ Nominal + Gradient(env, at) <= Climb(slope)
<1> DEFINE hills == env.route.hills
<1>1. hills \in Seq(Int) /\ hills # <<>> /\ env.route.length \in Nat
  BY DEF Drivable, Route
<1>2. Len(hills) \in Nat \ {0}
  BY <1>1, SequenceFacts
<1>3. \A place \in Nat : Drawn(hills, place) \in Int /\ Drawn(hills, place) \in ToSet(hills)
  <2>1. ASSUME NEW place \in Nat
        PROVE  (place % Len(hills)) + 1 \in 1 .. Len(hills)
    BY <1>2, Remainder
  <2>2. \A i \in 1 .. Len(hills) : i \in DOMAIN hills /\ hills[i] \in Int
    BY <1>1, SequenceFacts
  <2> QED
    BY <2>1, <2>2 DEF Drawn, ToSet
<1>4. \A slope \in Int : Climb(slope) \in Nat \ {0} /\ Nominal + slope <= Climb(slope) /\ Nominal - slope <= Climb(slope)
  <2>1. \A slope \in Int : -slope \in Int
    OBVIOUS
  <2> QED
    BY <2>1, MaxOfTwo DEF Climb, Nominal
<1>5. CASE env.route.reverse
  <2> DEFINE slope == Drawn(hills, env.route.length - at)
  <2>1. slope \in Int /\ slope \in ToSet(hills)
    BY <1>1, <1>3
  <2>2. Gradient(env, at) = - slope
    BY <1>5 DEF Gradient
  <2> HIDE DEF slope
  <2>3. Nominal + Gradient(env, at) <= Climb(slope)
    BY <2>1, <2>2, <1>4 DEF Nominal
  <2> QED
    BY <2>1, <2>2, <2>3, <1>4
<1>6. CASE ~env.route.reverse
  <2> DEFINE slope == Drawn(hills, at)
  <2>1. slope \in Int /\ slope \in ToSet(hills)
    BY <1>1, <1>3
  <2>2. Gradient(env, at) = slope
    BY <1>6 DEF Gradient
  <2> HIDE DEF slope
  <2> QED
    BY <2>1, <2>2, <1>4
<1> QED
  BY <1>5, <1>6

\* A drive takes no more than the rescue level leaves, a cell no more than its climb.
LEMMA EnergyOfAStep ==
  ASSUME NEW env, Drivable(env), NEW at \in 0 .. env.route.length, NEW when, NEW d \in 0 .. FastestStep
  PROVE  LET energy == Energy(d, ConditionsAt(env, at, when))
         IN  /\ energy \in Nat
             /\ energy <= Critical
             /\ d = 0 => energy = 0
             /\ d <= 1 => \E slope \in ToSet(env.route.hills) : Climb(slope) \in Nat /\ energy <= Climb(slope)
<1> DEFINE cell == Max({0, Nominal + Gradient(env, at)})
<1>1. PICK slope \in ToSet(env.route.hills) :
        /\ Climb(slope) \in Nat \ {0}
        /\ Nominal + Gradient(env, at) <= Climb(slope)
  BY GradientIsASlope
<1>2. Nominal + Gradient(env, at) \in Int
  BY GradientIsASlope DEF Nominal
<1>3. cell \in Nat /\ cell <= Climb(slope)
  BY <1>1, <1>2, MaxOfTwo
<1>4. Energy(d, ConditionsAt(env, at, when)) = d * cell
  BY DEF Energy, ConditionsAt
<1>5. FastestStep * Climb(slope) <= Critical /\ Critical \in Nat
  BY <1>1, VehicleAssumption DEF Drivable
<1> HIDE DEF cell
<1>6. d = 0 \/ d = 1 \/ d = 2 \/ d = 3 \/ d = 4
  BY DEF FastestStep
<1>7. d * cell \in Nat /\ d * cell <= 4 * cell /\ (d = 0 => d * cell = 0) /\ (d <= 1 => d * cell <= cell)
  BY <1>3, <1>6
<1>8. 4 * cell <= 4 * Climb(slope) /\ 4 * Climb(slope) <= Critical
  BY <1>1, <1>3, <1>5 DEF FastestStep
<1> QED
  BY <1>1, <1>3, <1>4, <1>5, <1>7, <1>8

-----------------------------------------------------------------------------
(* The samples add up and the charge lasts *)

LEMMA WorldStays == WorldOK /\ UNCHANGED world => WorldOK'
BY DEF WorldOK, Driver

LEMMA EnvIsDrivable ==
  ASSUME JourneyInv
  PROVE  /\ Drivable(Env)
         /\ Env.route.length \in Nat
         /\ car.at \in 0 .. Env.route.length
<1>1. Drivable(Env)
  BY DEF JourneyInv, JourneyTypeOK, WorldOK, Env
<1>2. Env.route.length \in Nat
  BY <1>1 DEF Drivable, Route
<1>3. car.odometer \in Nat /\ car.at = Min({car.odometer, Env.route.length})
  BY DEF JourneyInv, JourneyTypeOK, JourneyAddsUp, IsVehicle
<1> QED
  BY <1>1, <1>2, <1>3, MinOfTwo

LEMMA StartOfTheLine ==
  ASSUME NEW env, Drivable(env)
  PROVE  Min({0, env.route.length}) = 0
<1> DEFINE length == env.route.length
<1>1. length \in Nat
  BY DEF Drivable, Route
<1> HIDE DEF length
<1>2. Min({0, length}) = 0
  BY <1>1, MinOfTwo
<1> QED
  BY <1>2 DEF length

LEMMA JourneyBegins == VehicleInit => JourneyInv
<1> SUFFICES ASSUME VehicleInit PROVE JourneyInv
  OBVIOUS
<1>1. PICK w \in Worlds :
        /\ world = [environments |-> Environments(w.routes, w.config, w.database),
                    driver |-> w.driver, when |-> w.when, trips |-> w.trips]
        /\ car = NewCar(w.soc)
  BY DEF VehicleInit
<1>2. w.soc \in Nat /\ w.driver.departure \in Nat /\ w.driver.departure > Critical
  BY WorldsAssumption
<1>3. WorldOK
  BY <1>1, <1>2, DirectionsAreDrivable DEF WorldOK, Driver
<1>4. OutlastsAStart(w.soc)
  BY <1>1, DirectionsAreDrivable DEF OutlastsAStart
<1>5. Drivable(world.environments[1])
  BY <1>3 DEF WorldOK
<1>6. w.soc > 0
  <2>1. 0 \in 0 .. world.environments[1].route.length
    BY <1>5 DEF Drivable, Route
  <2>2. PICK slope \in ToSet(world.environments[1].route.hills) : Climb(slope) \in Nat
    BY <1>5, <2>1, GradientIsASlope
  <2> QED
    BY <1>2, <1>3, <1>4, <2>2 DEF OutlastsAStart, WorldOK
<1>7. JourneyTypeOK
  <2>1. IsVehicle(NewCar(w.soc))
    BY <1>2 DEF NewCar, IsVehicle, Field, Nominal
  <2>2. MaxDwell \in Nat /\ StepsPerTick \in Nat
    BY VehicleAssumption
  <2> QED
    BY <1>1, <1>3, <2>1, <2>2 DEF VehicleInit, JourneyTypeOK, NewCar, NoInterval, WorldOK
<1>8. JourneyAddsUp
  <2>1. Min({0, world.environments[1].route.length}) = 0
    BY <1>5, StartOfTheLine
  <2> QED
    BY <1>1, <1>6, <2>1 DEF VehicleInit, JourneyAddsUp, NewCar, NoInterval, Env
<1>9. ChargeLasts
  <2>1. Pause = 0
    BY <1>1 DEF VehicleInit, Pause, NewCar, NoInterval
  <2>2. w.soc - 0 = w.soc
    BY <1>2
  <2> QED
    BY <1>1, <1>4, <1>6, <2>1, <2>2 DEF ChargeLasts, NewCar
<1> QED
  BY <1>3, <1>7, <1>8, <1>9 DEF JourneyInv

LEMMA DepartureKeeps == JourneyInv /\ Depart => JourneyInv'
<1> SUFFICES ASSUME JourneyInv, Depart PROVE JourneyInv'
  OBVIOUS
<1>1. PICK e \in DOMAIN world.environments : car' = BeginTrip(e)
  BY DEF Depart
<1>2. IsVehicle(car) /\ e \in Nat /\ UNCHANGED <<world, interval>> /\ interval = NoInterval
      /\ sampled' = [distance |-> 0, energy |-> 0]
  BY DEF JourneyInv, JourneyTypeOK, WorldOK, Depart
<1>3. WorldOK'
  BY <1>2, WorldStays DEF JourneyInv
<1>4. /\ IsVehicle(car')
      /\ car'.env = e /\ car'.at = 0 /\ car'.odometer = 0 /\ car'.used = 0
      /\ car'.speed = 0 /\ car'.state = "driving" /\ car'.soc = car.soc /\ car'.booked = Unknown
      /\ car'.dwell = car.dwell
  <2>1. car' = [field \in Field |-> car'[field]]
    BY <1>1, <1>2 DEF BeginTrip, IsVehicle, Field
  <2>2. /\ car'.env = e /\ car'.at = 0 /\ car'.odometer = 0 /\ car'.used = 0
        /\ car'.speed = 0 /\ car'.state = "driving" /\ car'.soc = car.soc /\ car'.booked = Unknown
        /\ car'.dwell = car.dwell /\ car'.trip = car.trip + 1 /\ car'.power = 0 /\ car'.target = 0
        /\ car'.searched = Unknown /\ car'.belief = car.belief /\ car'.halted = car.halted
    BY <1>1, <1>2 DEF BeginTrip, IsVehicle, Field
  <2>3. car.soc \in Nat /\ car.dwell \in Nat /\ car.trip \in Nat /\ car.belief \in Int /\ car.halted \in Nat
    BY <1>2 DEF IsVehicle
  <2>4. IsVehicle(car')
    BY <1>2, <2>1, <2>2, <2>3 DEF IsVehicle
  <2> QED
    BY <2>2, <2>4
<1>5. JourneyTypeOK'
  BY <1>2, <1>4 DEF JourneyInv, JourneyTypeOK
<1>6. JourneyAddsUp'
  <2>1. Drivable(world.environments[e])
    BY DEF JourneyInv, WorldOK
  <2>2. Min({0, world.environments[e].route.length}) = 0
    BY <2>1, StartOfTheLine
  <2>3. car.soc > 0
    BY DEF JourneyInv, ChargeLasts
  <2> QED
    BY <1>2, <1>4, <2>2, <2>3 DEF JourneyAddsUp, Env, NoInterval
<1>7. ChargeLasts'
  <2>1. car.state = "idle" /\ Pause = 0
    BY DEF Depart, Pause
  <2>2. OutlastsAStart(car.soc)
    <3>1. OutlastsAStart(car.soc - 0) /\ car.soc - 0 = car.soc
      BY <1>2, <2>1 DEF JourneyInv, ChargeLasts, IsVehicle
    <3> QED
      BY <3>1
  <2>3. OutlastsAStart(car.soc)'
    BY <1>2, <1>4, <2>2 DEF OutlastsAStart
  <2>4. car.soc > 0
    BY DEF JourneyInv, ChargeLasts
  <2> QED
    BY <1>4, <2>3, <2>4 DEF ChargeLasts
<1> QED
  BY <1>3, <1>5, <1>6, <1>7 DEF JourneyInv

LEMMA SampleKeeps == JourneyInv /\ Sample => JourneyInv'
<1> SUFFICES ASSUME JourneyInv, Sample PROVE JourneyInv'
  OBVIOUS
<1>1. /\ IsVehicle(car) /\ UNCHANGED world /\ interval.steps = StepsPerTick /\ StepsPerTick \in Nat \ {0}
      /\ interval' = NoInterval
      /\ sampled' = [distance |-> sampled.distance + interval.distance,
                     energy |-> sampled.energy + interval.energy]
  BY VehicleAssumption DEF JourneyInv, JourneyTypeOK, Sample
<1>2. /\ interval.distance \in Nat /\ interval.energy \in Nat
      /\ sampled.distance \in Nat /\ sampled.energy \in Nat
  BY DEF JourneyInv, JourneyTypeOK
<1>3. WorldOK'
  BY <1>1, WorldStays DEF JourneyInv
<1>4. /\ IsVehicle(car') /\ car'.env = car.env /\ car'.soc = car.soc /\ car'.speed = car.speed
      /\ car'.dwell = car.dwell /\ car'.at = car.at /\ car'.odometer = car.odometer
      /\ car'.used = car.used /\ car'.booked = car.booked /\ car'.target = car.target
      /\ car'.state = IF car.state = "completed" THEN "idle" ELSE car.state
  <2>1. CASE car.state = "completed"
    <3>1. car' = [car EXCEPT !.state = "idle"]
      BY <2>1 DEF Sample
    <3> QED
      BY <3>1, <2>1, <1>1 DEF IsVehicle, Field
  <2>2. CASE car.state # "completed"
    BY <1>1, <2>2 DEF Sample
  <2> QED
    BY <2>1, <2>2
<1>5. JourneyTypeOK'
  BY <1>1, <1>2, <1>4 DEF JourneyInv, JourneyTypeOK, NoInterval
<1>6. JourneyAddsUp'
  <2>1. Env' = Env
    BY <1>1, <1>4 DEF Env
  <2>2. /\ car.odometer = sampled.distance + interval.distance
        /\ car.used <= sampled.energy + interval.energy
        /\ car.at = Min({car.odometer, Env.route.length})
        /\ car.soc > 0
    BY DEF JourneyInv, JourneyAddsUp
  <2>3. /\ (sampled.distance + interval.distance) + 0 = sampled.distance + interval.distance
        /\ (sampled.energy + interval.energy) + 0 = sampled.energy + interval.energy
    BY <1>2
  <2> QED
    BY <1>1, <1>4, <2>1, <2>2, <2>3 DEF JourneyAddsUp, NoInterval
<1>7. ChargeLasts'
  <2>1. Pause' = Pause
    BY <1>1, <1>4 DEF Pause, NoInterval
  <2>3. OutlastsAStart(car.soc) => OutlastsAStart(car.soc)'
    BY <1>1, <1>4 DEF OutlastsAStart
  <2>4. OutlastsAStart(car.soc - Pause) => OutlastsAStart(car.soc - Pause)'
    BY <1>1, <1>4, <2>1 DEF OutlastsAStart
  <2> QED
    BY <1>1, <1>4, <2>3, <2>4 DEF JourneyInv, ChargeLasts, Driver
<1> QED
  BY <1>3, <1>5, <1>6, <1>7 DEF JourneyInv

\* What a step of the tick does to the interval.
LEMMA SteppingFacts ==
  ASSUME JourneyInv, NEW c, NEW distance \in Nat, NEW energy \in Nat, Stepping(c, distance, energy)
  PROVE  /\ car' = c /\ UNCHANGED <<world, sampled>>
         /\ interval'.steps = interval.steps + 1
         /\ interval'.distance = interval.distance + distance
         /\ interval'.energy = interval.energy + energy
         /\ interval' \in [steps : 0 .. StepsPerTick, distance : Nat, energy : Nat]
         /\ interval'.steps # 0
         /\ interval.steps \in 0 .. StepsPerTick /\ interval.steps < StepsPerTick
         /\ interval.distance \in Nat /\ interval.energy \in Nat
         /\ sampled.distance \in Nat /\ sampled.energy \in Nat
         /\ WorldOK'
<1>1. interval \in [steps : 0 .. StepsPerTick, distance : Nat, energy : Nat] /\ StepsPerTick \in Nat
      /\ sampled \in [distance : Nat, energy : Nat]
  BY VehicleAssumption DEF JourneyInv, JourneyTypeOK
<1>2. /\ car' = c /\ UNCHANGED <<world, sampled>> /\ interval.steps < StepsPerTick
      /\ interval' = [steps |-> interval.steps + 1, distance |-> interval.distance + distance,
                      energy |-> interval.energy + energy]
  BY DEF Stepping
<1>3. WorldOK'
  BY <1>2, WorldStays DEF JourneyInv
<1> QED
  BY <1>1, <1>2, <1>3

LEMMA OutlastsFacts ==
  ASSUME WorldOK
  PROVE  /\ \A a, b \in Int : a <= b /\ OutlastsAStart(a) => OutlastsAStart(b)
         /\ \A a \in Int : OutlastsAStart(a) => a > 1
<1>1. \A e \in DOMAIN world.environments : \A slope \in ToSet(world.environments[e].route.hills) :
        Climb(slope) \in Nat \ {0}
  BY SlopesOfADirection DEF WorldOK
<1>2. \E slope \in ToSet(world.environments[1].route.hills) : TRUE
  BY SlopesOfADirection DEF WorldOK
<1>3. 1 \in DOMAIN world.environments
  BY DEF WorldOK
<1> QED
  BY <1>1, <1>2, <1>3 DEF OutlastsAStart

LEMMA IdlingKeeps == JourneyInv /\ Idle => JourneyInv'
<1> SUFFICES ASSUME JourneyInv, Idle PROVE JourneyInv'
  OBVIOUS
<1> DEFINE c == [car EXCEPT !.dwell = Max({0, @ - 1}), !.speed = 0, !.soc = Max({0, @ - IdleEnergy})]
<1>1. Stepping(c, 0, 1) /\ car.state \in {"idle", "completed"}
  BY DEF Idle, IdleEnergy
<1>2. /\ car' = c /\ UNCHANGED <<world, sampled>>
      /\ interval'.steps = interval.steps + 1
      /\ interval'.distance = interval.distance + 0
      /\ interval'.energy = interval.energy + 1
      /\ interval' \in [steps : 0 .. StepsPerTick, distance : Nat, energy : Nat]
      /\ interval'.steps # 0
      /\ interval.steps \in 0 .. StepsPerTick /\ interval.steps < StepsPerTick
      /\ interval.distance \in Nat /\ interval.energy \in Nat
      /\ sampled.distance \in Nat /\ sampled.energy \in Nat
      /\ WorldOK'
  BY <1>1, SteppingFacts
<1>3. /\ IsVehicle(car) /\ StepsPerTick \in Nat \ {0} /\ car.soc \in Nat /\ car.dwell \in Nat
      /\ car.dwell <= MaxDwell
  BY VehicleAssumption DEF JourneyInv, JourneyTypeOK, IsVehicle
<1>4. /\ Pause \in Nat /\ Pause >= 1
  <2>1. car.dwell > 0 \/ interval.steps # 0
    BY <1>1, <1>3 DEF Stepping, JourneyInv, ChargeLasts
  <2> QED
    BY <2>1, <1>2, <1>3 DEF Pause
<1>5. OutlastsAStart(car.soc - Pause) /\ car.soc - Pause > 1
  <2>1. OutlastsAStart(car.soc - Pause)
    BY <1>1 DEF JourneyInv, ChargeLasts
  <2>2. car.soc - Pause \in Int
    BY <1>3, <1>4
  <2> QED
    BY <2>1, <2>2, OutlastsFacts DEF JourneyInv
<1>6. /\ Max({0, car.soc - 1}) = car.soc - 1
      /\ Max({0, car.dwell - 1}) = IF car.dwell > 0 THEN car.dwell - 1 ELSE 0
  <2>1. car.soc - 1 \in Int /\ car.dwell - 1 \in Int /\ car.soc - 1 >= 0
    BY <1>3, <1>4, <1>5
  <2> QED
    BY <2>1, <1>3, MaxOfTwo
<1>7. /\ IsVehicle(car') /\ car'.env = car.env /\ car'.soc = car.soc - 1 /\ car'.state = car.state
      /\ car'.dwell = (IF car.dwell > 0 THEN car.dwell - 1 ELSE 0) /\ car'.at = car.at
      /\ car'.odometer = car.odometer /\ car'.used = car.used /\ car'.booked = car.booked
      /\ car'.target = car.target
  <2> DEFINE dwell == IF car.dwell > 0 THEN car.dwell - 1 ELSE 0
             soc == car.soc - 1
  <2>1. car' = [car EXCEPT !.dwell = dwell, !.speed = 0, !.soc = soc]
    BY <1>2, <1>6 DEF IdleEnergy
  <2>2. soc \in Nat /\ dwell \in Nat
    BY <1>3, <1>4, <1>5
  <2> HIDE DEF dwell, soc
  <2>3. car' = [field \in Field |-> car'[field]]
    BY <2>1, <1>3 DEF IsVehicle, Field
  <2>4. /\ car'.env = car.env /\ car'.soc = soc /\ car'.state = car.state
        /\ car'.dwell = dwell /\ car'.at = car.at /\ car'.speed = 0
        /\ car'.odometer = car.odometer /\ car'.used = car.used /\ car'.booked = car.booked
        /\ car'.target = car.target /\ car'.belief = car.belief /\ car'.power = car.power
        /\ car'.searched = car.searched /\ car'.halted = car.halted /\ car'.trip = car.trip
    BY <2>1, <1>3 DEF IsVehicle, Field
  <2>5. IsVehicle(car')
    BY <2>2, <2>3, <2>4, <1>3 DEF IsVehicle
  <2> QED
    BY <2>4, <2>5 DEF dwell, soc
<1>8. JourneyTypeOK'
  <2>1. car'.dwell <= MaxDwell
    BY <1>3, <1>7, VehicleAssumption
  <2>2. car'.env \in DOMAIN world'.environments /\ sampled' \in [distance : Nat, energy : Nat]
    BY <1>2, <1>7 DEF JourneyInv, JourneyTypeOK
  <2> QED
    BY <1>2, <1>7, <2>1, <2>2 DEF JourneyTypeOK
<1>9. JourneyAddsUp'
  <2>1. Env' = Env
    BY <1>2, <1>7 DEF Env
  <2>2. /\ car.odometer = sampled.distance + interval.distance
        /\ car.used <= sampled.energy + interval.energy
        /\ car.at = Min({car.odometer, Env.route.length})
    BY DEF JourneyInv, JourneyAddsUp
  <2>3. car.used \in Nat
    BY <1>3 DEF IsVehicle
  <2>4. /\ car'.odometer = sampled'.distance + interval'.distance
        /\ car'.used <= sampled'.energy + interval'.energy
        /\ car'.soc > 0
    BY <1>2, <1>3, <1>4, <1>5, <1>7, <2>2, <2>3
  <2> QED
    BY <1>7, <2>1, <2>2, <2>4 DEF JourneyAddsUp
<1>10. ChargeLasts'
  <2>1. Pause' \in Nat /\ Pause' <= Pause - 1
    <3>1. car'.dwell \in Nat /\ interval'.steps = interval.steps + 1
      BY <1>2, <1>3, <1>7
    <3>2. CASE car.dwell > 1
      BY <1>2, <1>3, <1>7, <3>1, <3>2 DEF Pause
    <3>3. CASE car.dwell = 1
      BY <1>2, <1>3, <1>7, <3>1, <3>3 DEF Pause
    <3>4. CASE car.dwell = 0
      <4>1. interval.steps # 0
        BY <1>1, <3>4 DEF Stepping, JourneyInv, ChargeLasts
      <4> QED
        BY <1>2, <1>3, <1>7, <3>1, <3>4, <4>1 DEF Pause
    <3> QED
      BY <1>3, <3>2, <3>3, <3>4
  <2>2. car'.soc - Pause' \in Int /\ car.soc - Pause \in Int /\ car.soc - Pause <= car'.soc - Pause'
    BY <1>3, <1>4, <1>7, <2>1
  <2>3. OutlastsAStart(car'.soc - Pause')
    BY <1>5, <2>2, OutlastsFacts DEF JourneyInv
  <2>4. OutlastsAStart(car.soc - Pause)'
    BY <1>2, <2>3 DEF OutlastsAStart
  <2>5. car'.soc > 0
    BY <1>3, <1>4, <1>5, <1>7
  <2> QED
    BY <1>1, <1>2, <1>7, <2>4, <2>5 DEF JourneyInv, ChargeLasts, Driver
<1> QED
  BY <1>2, <1>8, <1>9, <1>10 DEF JourneyInv

LEMMA ChargeOfAStep ==
  ASSUME JourneyInv
  PROVE  LET charge == Min({Pack, car.soc + ChargePerStep(car)})
         IN  charge \in Nat /\ charge > 0
<1> DEFINE accepted == IF car.soc >= (Pack * 4) \div 5 THEN Pack \div 10 ELSE Pack \div 4
           taken == ChargePerStep(car)
<1>1. car.soc \in Nat /\ car.soc > 0 /\ car.power \in Nat /\ Pack \in Nat /\ Critical \in Nat /\ Critical <= Pack
  BY VehicleAssumption DEF JourneyInv, JourneyTypeOK, IsVehicle, ChargeLasts
<1>2. Pack > 0
  <2>1. PICK slope \in ToSet(Env.route.hills) : Climb(slope) \in Nat \ {0} /\ FastestStep * Climb(slope) <= Critical
    BY EnvIsDrivable, SlopesOfADirection DEF Drivable
  <2> QED
    BY <2>1, <1>1 DEF FastestStep
<1>3. accepted \in Nat
  BY <1>1
<1>4. taken = Max({0, Min({car.power, accepted}) - 1})
  BY DEF ChargePerStep, IdleEnergy
<1> HIDE DEF accepted, taken
<1>5. Min({car.power, accepted}) - 1 \in Int
  BY <1>1, <1>3, MinOfTwo
<1>6. taken \in Nat
  BY <1>4, <1>5, MaxOfTwo
<1>7. car.soc + taken \in Nat /\ car.soc + taken > 0
  BY <1>1, <1>6
<1>8. Min({Pack, car.soc + taken}) \in Nat /\ Min({Pack, car.soc + taken}) > 0
  BY <1>1, <1>2, <1>7, MinOfTwo
<1> QED
  BY <1>8 DEF taken

LEMMA ChargingKeeps == JourneyInv /\ Charge => JourneyInv'
<1> SUFFICES ASSUME JourneyInv, Charge PROVE JourneyInv'
  OBVIOUS
<1> DEFINE charge == Min({Pack, car.soc + ChargePerStep(car)})
           charged == [car EXCEPT !.soc = charge]
           full == charged.soc >= car.target
           c == IF full THEN Departed(charged) ELSE charged
<1>1. charge \in Nat /\ charge > 0
  BY ChargeOfAStep
<1>2. Stepping(c, 0, 0) /\ car.state = "charging"
  BY DEF Charge
<1>3. /\ car' = c /\ UNCHANGED <<world, sampled>>
      /\ interval'.steps = interval.steps + 1
      /\ interval'.distance = interval.distance + 0
      /\ interval'.energy = interval.energy + 0
      /\ interval' \in [steps : 0 .. StepsPerTick, distance : Nat, energy : Nat]
      /\ interval'.steps # 0
      /\ interval.steps \in 0 .. StepsPerTick /\ interval.steps < StepsPerTick
      /\ interval.distance \in Nat /\ interval.energy \in Nat
      /\ sampled.distance \in Nat /\ sampled.energy \in Nat
      /\ WorldOK'
  <2> HIDE DEF c
  <2> QED
    BY <1>2, SteppingFacts
<1>4. /\ IsVehicle(car) /\ car.target = Driver.departure /\ Driver.departure \in Nat
      /\ Driver.departure > Critical /\ Critical \in Nat /\ car.at \in Nat
  BY <1>2, VehicleAssumption DEF JourneyInv, JourneyTypeOK, ChargeLasts, WorldOK, IsVehicle
<1> HIDE DEF charge
<1>5. car = [field \in Field |-> car[field]]
  BY <1>4 DEF IsVehicle
<1>6. charged = [field \in Field |-> charged[field]] /\ charged.soc = charge
  BY <1>5 DEF Field
<1>7. /\ charged.env = car.env /\ charged.at = car.at /\ charged.speed = car.speed /\ charged.state = car.state
      /\ charged.odometer = car.odometer /\ charged.used = car.used /\ charged.belief = car.belief
      /\ charged.booked = car.booked /\ charged.power = car.power /\ charged.target = car.target
      /\ charged.searched = car.searched /\ charged.dwell = car.dwell /\ charged.halted = car.halted
      /\ charged.trip = car.trip
  BY <1>5 DEF Field
<1>8. IsVehicle(charged)
  <2> HIDE DEF charged
  <2> QED
    BY <1>1, <1>4, <1>6, <1>7 DEF IsVehicle
<1> HIDE DEF charged
<1>9. /\ IsVehicle(car') /\ car'.env = car.env /\ car'.at = car.at /\ car'.soc = charge
      /\ car'.odometer = car.odometer /\ car'.used = car.used /\ car'.dwell = car.dwell
      /\ \/ car'.state = "driving" /\ charge > Critical /\ car'.booked = Unknown
         \/ car'.state = "charging" /\ car'.target = Driver.departure
  <2>1. CASE ~full
    BY <1>2, <1>3, <1>4, <1>6, <1>7, <1>8, <2>1
  <2>2. CASE full
    <3>1. car' = [charged EXCEPT !.state = "driving", !.booked = Unknown, !.power = 0, !.target = 0,
                     !.searched = charged.at]
      BY <1>3, <2>2 DEF Departed
    <3>2. car' = [field \in Field |-> car'[field]]
      BY <3>1, <1>6 DEF Field
    <3>3. /\ car'.state = "driving" /\ car'.booked = Unknown /\ car'.power = 0 /\ car'.target = 0
          /\ car'.searched = charged.at /\ car'.env = charged.env /\ car'.at = charged.at
          /\ car'.speed = charged.speed /\ car'.soc = charged.soc /\ car'.odometer = charged.odometer
          /\ car'.used = charged.used /\ car'.belief = charged.belief /\ car'.dwell = charged.dwell
          /\ car'.halted = charged.halted /\ car'.trip = charged.trip
      BY <3>1, <1>6 DEF Field
    <3>4. IsVehicle(car')
      BY <3>2, <3>3, <1>8 DEF IsVehicle
    <3>5. charge > Critical
      BY <2>2, <1>1, <1>4, <1>6
    <3> QED
      BY <3>3, <3>4, <3>5, <1>6, <1>7
  <2> QED
    BY <2>1, <2>2
<1>10. JourneyTypeOK'
  <2>1. car'.env \in DOMAIN world'.environments /\ sampled' \in [distance : Nat, energy : Nat] /\ car'.dwell <= MaxDwell
    BY <1>3, <1>9 DEF JourneyInv, JourneyTypeOK
  <2> QED
    BY <1>3, <1>9, <2>1 DEF JourneyTypeOK
<1>11. JourneyAddsUp'
  <2>1. Env' = Env
    BY <1>3, <1>9 DEF Env
  <2>2. /\ car.odometer = sampled.distance + interval.distance
        /\ car.used <= sampled.energy + interval.energy
        /\ car.at = Min({car.odometer, Env.route.length})
    BY DEF JourneyInv, JourneyAddsUp
  <2>3. /\ car'.odometer = sampled'.distance + interval'.distance
        /\ car'.used <= sampled'.energy + interval'.energy
    BY <1>3, <1>9, <2>2
  <2> QED
    BY <1>1, <1>9, <2>1, <2>2, <2>3 DEF JourneyAddsUp
<1>12. ChargeLasts'
  <2>1. Driver' = Driver
    BY <1>3 DEF Driver
  <2> QED
    BY <1>1, <1>9, <2>1 DEF ChargeLasts
<1> QED
  BY <1>3, <1>10, <1>11, <1>12 DEF JourneyInv

\* A search changes bookings only, and books for the departure charge.
LEMMA PlannedFacts ==
  ASSUME JourneyInv
  PROVE  /\ IsVehicle(Planned)
         /\ Planned.env = car.env /\ Planned.at = car.at /\ Planned.speed = car.speed
         /\ Planned.soc = car.soc /\ Planned.odometer = car.odometer /\ Planned.used = car.used
         /\ Planned.dwell = car.dwell /\ Planned.halted = car.halted
         /\ Planned.booked # Unknown => Planned.target = Driver.departure
<1>1. IsVehicle(car) /\ car = [field \in Field |-> car[field]] /\ Driver.departure \in Nat
  BY DEF JourneyInv, JourneyTypeOK, IsVehicle, WorldOK
<1>2. car.booked # Unknown => car.target = Driver.departure
  BY DEF JourneyInv, ChargeLasts
<1>3. Booked \in {Unknown} \cup Station
  <2> DEFINE reach == car.at + (BelievedRange * 100) \div 115
  <2>1. NextSite(Env, car.at, reach) \in {Unknown} \cup Station
    BY EnvIsDrivable, NextSiteIsASite
  <2> QED
    BY <2>1 DEF Booked
<1>4. car.at \in Nat
  BY <1>1 DEF IsVehicle
<1>5. CASE ~Searches
  BY <1>1, <1>2, <1>5 DEF Planned
<1>6. CASE Searches /\ Booked = Unknown
  <2>1. Planned = [car EXCEPT !.searched = car.at]
    BY <1>6 DEF Planned
  <2>2. Planned = [field \in Field |-> Planned[field]]
    BY <1>1, <2>1 DEF Field
  <2>3. /\ Planned.state = car.state /\ Planned.env = car.env /\ Planned.at = car.at
        /\ Planned.speed = car.speed /\ Planned.soc = car.soc /\ Planned.odometer = car.odometer
        /\ Planned.used = car.used /\ Planned.belief = car.belief /\ Planned.booked = car.booked
        /\ Planned.power = car.power /\ Planned.target = car.target /\ Planned.searched = car.at
        /\ Planned.dwell = car.dwell /\ Planned.halted = car.halted /\ Planned.trip = car.trip
    BY <1>1, <2>1 DEF Field
  <2>4. IsVehicle(Planned)
    BY <1>1, <1>4, <2>2, <2>3 DEF IsVehicle
  <2> QED
    BY <1>2, <2>3, <2>4
<1>7. CASE Searches /\ Booked # Unknown
  <2>1. Planned = [car EXCEPT !.searched = car.at, !.booked = Booked, !.power = Booked.kw,
                     !.target = Driver.departure]
    BY <1>7 DEF Planned
  <2>2. Planned = [field \in Field |-> Planned[field]]
    BY <1>1, <2>1 DEF Field
  <2>3. /\ Planned.state = car.state /\ Planned.env = car.env /\ Planned.at = car.at
        /\ Planned.speed = car.speed /\ Planned.soc = car.soc /\ Planned.odometer = car.odometer
        /\ Planned.used = car.used /\ Planned.belief = car.belief /\ Planned.booked = Booked
        /\ Planned.power = Booked.kw /\ Planned.target = Driver.departure /\ Planned.searched = car.at
        /\ Planned.dwell = car.dwell /\ Planned.halted = car.halted /\ Planned.trip = car.trip
    BY <1>1, <2>1 DEF Field
  <2>4. Booked.kw \in Nat
    BY <1>3, <1>7 DEF Station
  <2>5. IsVehicle(Planned)
    BY <1>1, <1>3, <1>4, <2>2, <2>3, <2>4 DEF IsVehicle
  <2> QED
    BY <2>3, <2>5
<1> QED
  BY <1>5, <1>6, <1>7

LEMMA OverrideType ==
  ASSUME JourneyInv, NEW c, IsVehicle(c)
  PROVE  ApproachOverride(c) \in {Unknown} \cup 0 .. c.speed
<1> DEFINE remaining == Max({0, NextStop(c) - c.at})
           stops == {v \in 0 .. c.speed : v * v <= remaining}
<1>1. c.at \in Nat /\ c.speed \in 0 .. 2 /\ c.booked \in {Unknown} \cup Station /\ Env.route.length \in Nat
  BY EnvIsDrivable DEF IsVehicle
<1>2. NextStop(c) \in Int
  <2>1. c.booked # Unknown => c.booked.at \in Nat
    BY <1>1 DEF Station
  <2>2. c.booked # Unknown => Min({Env.route.length, c.booked.at}) \in Int
    BY <1>1, <2>1, MinOfTwo
  <2> QED
    BY <1>1, <2>2 DEF NextStop
<1>3. remaining \in Nat
  <2>1. NextStop(c) - c.at \in Int
    BY <1>1, <1>2
  <2> QED
    BY <2>1, MaxOfTwo
<1> HIDE DEF remaining
<1>4. stops \in SUBSET (0 .. 3) /\ 0 \in stops /\ stops \subseteq 0 .. c.speed
  BY <1>1, <1>3
<1>5. Max(stops) \in 0 .. c.speed
  BY <1>4, MaxOfFew
<1> QED
  BY <1>5 DEF ApproachOverride, remaining

\* What the driver may decide in a step: speeds it can reach, cells within the fastest step.
LEMMA MoveFacts ==
  ASSUME JourneyInv, NEW move \in Moves, move.speed \in NextSpeeds(car.speed, move.aim.target)
  PROVE  /\ move.speed \in 0 .. 2 /\ move.aim.halted \in Nat
         /\ move.distance \in 0 .. FastestStep
         /\ car.speed = 0 => move.distance <= 1
<1>1. PICK aim \in Aims(Planned, Conditions), speed \in 0 .. (car.speed + 1) :
        move = [aim |-> aim, speed |-> speed, distance |-> car.speed + speed]
  BY DEF Moves
<1>2. car.speed \in 0 .. 2 /\ Planned.speed = car.speed /\ Planned.halted \in Nat /\ IsVehicle(Planned)
  BY PlannedFacts DEF JourneyInv, JourneyTypeOK, IsVehicle
<1>3. aim.target \in 0 .. 2 /\ aim.halted \in Nat
  <2> DEFINE override == ApproachOverride(Planned)
  <2>1. override \in {Unknown} \cup 0 .. 2
    BY <1>2, OverrideType
  <2>2. TargetSpeed(Conditions) \in 1 .. 2
    BY EnvIsDrivable, HighestTarget DEF Conditions
  <2> HIDE DEF override
  <2>3. \/ /\ override # Unknown
           /\ aim = [target |-> override, halted |-> IF override = 0 THEN 0 ELSE Planned.halted]
        \/ Planned.halted > 0 /\ aim = [target |-> 0, halted |-> Planned.halted - 1]
        \/ aim = [target |-> TargetSpeed(Conditions), halted |-> 0]
        \/ \E h \in 1 .. MaxHalt : aim = [target |-> 0, halted |-> h]
    BY Zenon DEF Aims, override
  <2>4. CASE override # Unknown /\ aim = [target |-> override, halted |-> IF override = 0 THEN 0 ELSE Planned.halted]
    BY <2>1, <2>4, <1>2
  <2>5. CASE Planned.halted > 0 /\ aim = [target |-> 0, halted |-> Planned.halted - 1]
    BY <2>5, <1>2
  <2>6. CASE aim = [target |-> TargetSpeed(Conditions), halted |-> 0]
    BY <2>2, <2>6
  <2>7. CASE \E h \in 1 .. MaxHalt : aim = [target |-> 0, halted |-> h]
    BY <2>7
  <2> QED
    BY <2>3, <2>4, <2>5, <2>6, <2>7
<1>4. move.speed = speed /\ move.aim = aim /\ move.distance = car.speed + speed
  BY <1>1
<1>5. speed \in 0 .. 2 /\ (car.speed = 0 => speed <= 1)
  <2> DEFINE v == car.speed
             t == aim.target
  <2>1. v \in 0 .. 2 /\ t \in 0 .. 2 /\ speed \in NextSpeeds(v, t)
    BY <1>2, <1>3, <1>4
  <2> HIDE DEF v, t
  <2>2. CASE v = 0
    <3>1. speed = Min({1, t})
      BY <2>1, <2>2 DEF NextSpeeds
    <3> QED
      BY <2>1, <3>1, MinOfTwo
  <2>3. CASE v > 0 /\ v < t
    <3>1. speed \in {v, v + 1}
      BY <2>1, <2>3 DEF NextSpeeds
    <3> QED
      BY <2>1, <2>3, <3>1 DEF v
  <2>4. CASE v > 0 /\ v >= t
    <3>1. speed \in {v - 1, v}
      BY <2>1, <2>4 DEF NextSpeeds
    <3> QED
      BY <2>1, <2>4, <3>1 DEF v
  <2> QED
    BY <2>1, <2>2, <2>3, <2>4 DEF v
<1> QED
  BY <1>2, <1>3, <1>4, <1>5 DEF FastestStep

\* A drive leaves the pack charged, and the vehicle where its odometer says.
LEMMA MovedFacts ==
  ASSUME JourneyInv, car.state \in {"driving", "stopped"},
         NEW move \in Moves, move.speed \in NextSpeeds(car.speed, move.aim.target),
         NEW belief \in Beliefs(move.distance, Energy(move.distance, Conditions))
  PROVE  LET energy == Energy(move.distance, Conditions)
             moved  == Moved(Planned, move, energy, belief)
         IN  /\ energy \in Nat /\ move.distance \in Nat
             /\ IsVehicle(moved)
             /\ moved.state \in {"driving", "stopped"}
             /\ moved.env = car.env /\ moved.dwell = car.dwell /\ moved.soc > 0
             /\ moved.odometer = car.odometer + move.distance
             /\ moved.used = car.used + energy
             /\ moved.at = Min({moved.odometer, Env.route.length})
             /\ moved.booked # Unknown => moved.target = Driver.departure
<1> DEFINE distance == move.distance
           energy == Energy(distance, Conditions)
           moved == Moved(Planned, move, energy, belief)
           length == Env.route.length
<1>1. /\ IsVehicle(car) /\ car.soc \in Nat /\ car.odometer \in Nat /\ car.used \in Nat /\ car.belief \in Int
      /\ car.env \in DOMAIN world.environments /\ Critical \in Nat
  BY VehicleAssumption DEF JourneyInv, JourneyTypeOK, IsVehicle
<1>2. Drivable(Env) /\ length \in Nat /\ car.at \in 0 .. length
  BY EnvIsDrivable
<1>3. /\ move.speed \in 0 .. 2 /\ move.aim.halted \in Nat /\ distance \in 0 .. FastestStep
      /\ (car.speed = 0 => distance <= 1)
  BY MoveFacts
<1>4. distance \in Nat
  BY <1>3 DEF FastestStep
<1>5. /\ energy \in Nat /\ energy <= Critical
      /\ distance <= 1 => \E slope \in ToSet(Env.route.hills) : Climb(slope) \in Nat /\ energy <= Climb(slope)
  BY <1>2, <1>3, EnergyOfAStep DEF Conditions
<1>6. belief \in Int
  <2> HIDE DEF distance, energy
  <2>1. CASE distance = 0
    BY <2>1, <1>1 DEF Beliefs, distance, energy
  <2>2. CASE distance # 0
    <3>1. belief \in {car.belief, Min({MaxBelief, energy \div distance})}
      BY <2>2 DEF Beliefs, distance, energy
    <3>2. energy \div distance \in Int /\ MaxBelief \in Int
      BY <1>4, <1>5, <2>2 DEF MaxBelief, Nominal
    <3>3. Min({MaxBelief, energy \div distance}) \in Int
      BY <3>2, MinOfTwo
    <3> QED
      BY <3>1, <3>3, <1>1
  <2> QED
    BY <2>1, <2>2
<1> HIDE DEF energy, distance
<1>7. energy < car.soc
  <2>1. CASE car.soc > Critical
    BY <2>1, <1>1, <1>5
  <2>2. CASE car.speed = 0 /\ OutlastsAStart(car.soc)
    <3>1. PICK slope \in ToSet(Env.route.hills) : Climb(slope) \in Nat /\ energy <= Climb(slope)
      BY <2>2, <1>3, <1>5
    <3>2. Climb(slope) < car.soc
      BY <2>2, <3>1, <1>1 DEF OutlastsAStart, Env
    <3> QED
      BY <3>1, <3>2, <1>1, <1>5
  <2> QED
    BY <2>1, <2>2 DEF JourneyInv, ChargeLasts
<1>8. Max({0, car.soc - energy}) = car.soc - energy /\ car.soc - energy \in Nat /\ car.soc - energy > 0
  <2>1. car.soc - energy \in Nat /\ car.soc - energy > 0
    BY <1>1, <1>5, <1>7
  <2> QED
    BY <2>1, MaxOfTwo
<1>9. /\ Min({length, car.at + distance}) = Min({car.odometer + distance, length})
      /\ Min({length, car.at + distance}) \in Nat
  <2>1. car.at = IF car.odometer <= length THEN car.odometer ELSE length
    <3>1. car.at = Min({car.odometer, length})
      BY DEF JourneyInv, JourneyAddsUp
    <3> HIDE DEF length
    <3> QED
      BY <3>1, <1>1, <1>2, MinOfTwo
  <2> HIDE DEF length
  <2>2. car.at + distance \in Nat /\ car.odometer + distance \in Nat
    BY <1>1, <1>2, <1>4
  <2>3. /\ Min({length, car.at + distance}) = IF length <= car.at + distance THEN length ELSE car.at + distance
        /\ Min({car.odometer + distance, length}) = IF car.odometer + distance <= length THEN car.odometer + distance ELSE length
    BY <2>2, <1>2, MinOfTwo
  <2> QED
    BY <2>1, <2>2, <2>3, <1>1, <1>2, <1>4
<1>10. /\ IsVehicle(Planned)
       /\ Planned.env = car.env /\ Planned.at = car.at /\ Planned.speed = car.speed
       /\ Planned.soc = car.soc /\ Planned.odometer = car.odometer /\ Planned.used = car.used
       /\ Planned.dwell = car.dwell
       /\ (Planned.booked # Unknown => Planned.target = Driver.departure)
  BY PlannedFacts
<1> DEFINE state == IF move.speed = 0 /\ move.aim.halted > 0 THEN "stopped" ELSE "driving"
<1>11. moved = [Planned EXCEPT !.at = Min({length, Planned.at + distance}), !.speed = move.speed,
                  !.odometer = Planned.odometer + distance, !.used = Planned.used + energy,
                  !.soc = Max({0, Planned.soc - energy}), !.belief = belief,
                  !.halted = move.aim.halted, !.state = state]
  BY DEF Moved, distance
<1>12. Planned = [field \in Field |-> Planned[field]]
  BY <1>10 DEF IsVehicle
<1> HIDE DEF moved, length, state
<1>13. moved = [field \in Field |-> moved[field]]
  BY <1>11, <1>12 DEF Field
<1>14. /\ moved.at = Min({length, Planned.at + distance}) /\ moved.speed = move.speed
       /\ moved.odometer = Planned.odometer + distance /\ moved.used = Planned.used + energy
       /\ moved.soc = Max({0, Planned.soc - energy}) /\ moved.belief = belief
       /\ moved.halted = move.aim.halted /\ moved.state = state /\ moved.env = Planned.env
  BY <1>11, <1>12 DEF Field
<1>15. /\ moved.booked = Planned.booked /\ moved.power = Planned.power /\ moved.target = Planned.target
       /\ moved.searched = Planned.searched /\ moved.dwell = Planned.dwell /\ moved.trip = Planned.trip
  BY <1>11, <1>12 DEF Field
<1>16. state \in {"driving", "stopped"}
  BY DEF state
<1>17. /\ moved.at = Min({moved.odometer, length}) /\ moved.at \in Nat
       /\ moved.soc = car.soc - energy /\ moved.soc \in Nat /\ moved.soc > 0
       /\ moved.odometer = car.odometer + distance /\ moved.used = car.used + energy
       /\ moved.odometer \in Nat /\ moved.used \in Nat
  BY <1>1, <1>4, <1>5, <1>8, <1>9, <1>10, <1>14
<1>18. IsVehicle(moved)
  BY <1>3, <1>6, <1>10, <1>13, <1>14, <1>15, <1>16, <1>17 DEF IsVehicle
<1> QED
  BY <1>4, <1>5, <1>10, <1>14, <1>15, <1>16, <1>17, <1>18 DEF moved, length, energy, distance

\* However a step of the drive is resolved, charging, completed or on, the charge lasts.
LEMMA ResolvedFacts ==
  ASSUME NEW m, IsVehicle(m), m.state \in {"driving", "stopped"}, m.dwell <= MaxDwell,
         Driver.departure \in Nat,
         m.booked # Unknown => m.target = Driver.departure,
         NEW c \in Resolved(m)
  PROVE  /\ IsVehicle(c) /\ c.dwell <= MaxDwell
         /\ c.env = m.env /\ c.at = m.at /\ c.soc = m.soc /\ c.odometer = m.odometer /\ c.used = m.used
         /\ \/ c.state = "charging" /\ c.target = Driver.departure
            \/ /\ c.state \in {"completed", "driving", "stopped"} /\ c.soc > Critical
               /\ c.booked # Unknown => c.target = Driver.departure
<1>1. m = [field \in Field |-> m[field]] /\ m.soc \in Nat /\ Critical \in Nat /\ MaxDwell \in Nat
  BY VehicleAssumption DEF IsVehicle
<1>2. CASE AtStop(m)
  <2>1. c = [m EXCEPT !.state = "charging", !.speed = 0]
    BY <1>2 DEF Resolved
  <2>2. c = [field \in Field |-> c[field]]
    BY <1>1, <2>1 DEF Field
  <2>3. /\ c.state = "charging" /\ c.env = m.env /\ c.at = m.at /\ c.speed = 0 /\ c.soc = m.soc
        /\ c.odometer = m.odometer /\ c.used = m.used /\ c.belief = m.belief /\ c.booked = m.booked
        /\ c.power = m.power /\ c.target = m.target /\ c.searched = m.searched /\ c.dwell = m.dwell
        /\ c.halted = m.halted /\ c.trip = m.trip
    BY <1>1, <2>1 DEF Field
  <2>4. IsVehicle(c)
    BY <2>2, <2>3 DEF IsVehicle
  <2> QED
    BY <1>2, <2>3, <2>4 DEF AtStop
<1>3. CASE ~AtStop(m) /\ m.soc <= Critical
  <2>1. c = [m EXCEPT !.state = "charging", !.speed = 0, !.booked = Unknown, !.power = MinSitePower,
               !.target = Driver.departure]
    BY <1>3 DEF Resolved
  <2>2. c = [field \in Field |-> c[field]]
    BY <1>1, <2>1 DEF Field
  <2>3. /\ c.state = "charging" /\ c.env = m.env /\ c.at = m.at /\ c.speed = 0 /\ c.soc = m.soc
        /\ c.odometer = m.odometer /\ c.used = m.used /\ c.belief = m.belief /\ c.booked = Unknown
        /\ c.power = MinSitePower /\ c.target = Driver.departure /\ c.searched = m.searched
        /\ c.dwell = m.dwell /\ c.halted = m.halted /\ c.trip = m.trip
    BY <1>1, <2>1 DEF Field
  <2>4. IsVehicle(c)
    BY <2>2, <2>3 DEF IsVehicle, MinSitePower
  <2> QED
    BY <2>3, <2>4
<1>4. CASE ~AtStop(m) /\ ~(m.soc <= Critical) /\ m.at >= Env.route.length
  <2>1. PICK d \in 1 .. MaxDwell : c = [m EXCEPT !.state = "completed", !.speed = 0, !.dwell = d]
    BY <1>4 DEF Resolved
  <2>2. c = [field \in Field |-> c[field]]
    BY <1>1, <2>1 DEF Field
  <2>3. /\ c.state = "completed" /\ c.env = m.env /\ c.at = m.at /\ c.speed = 0 /\ c.soc = m.soc
        /\ c.odometer = m.odometer /\ c.used = m.used /\ c.belief = m.belief /\ c.booked = m.booked
        /\ c.power = m.power /\ c.target = m.target /\ c.searched = m.searched /\ c.dwell = d
        /\ c.halted = m.halted /\ c.trip = m.trip
    BY <1>1, <2>1 DEF Field
  <2>4. IsVehicle(c) /\ c.dwell <= MaxDwell
    BY <1>1, <2>2, <2>3 DEF IsVehicle
  <2> QED
    BY <1>1, <1>4, <2>3, <2>4
<1>5. CASE ~AtStop(m) /\ ~(m.soc <= Critical) /\ ~(m.at >= Env.route.length)
  <2>1. c = m
    BY <1>5 DEF Resolved
  <2> QED
    BY <1>1, <1>5, <2>1
<1> QED
  BY <1>2, <1>3, <1>4, <1>5

\* Driving a step, whatever it meets, keeps the invariant.
LEMMA DrivingKeeps == JourneyInv /\ Drive => JourneyInv'
<1> SUFFICES ASSUME JourneyInv, Drive PROVE JourneyInv'
  OBVIOUS
<1>1. PICK move \in Moves :
        /\ move.speed \in NextSpeeds(car.speed, move.aim.target)
        /\ \E belief \in Beliefs(move.distance, Energy(move.distance, Conditions)) :
             \E c \in Resolved(Moved(Planned, move, Energy(move.distance, Conditions), belief)) :
               Stepping(c, move.distance, Energy(move.distance, Conditions))
  BY DEF Drive
<1>2. PICK belief \in Beliefs(move.distance, Energy(move.distance, Conditions)) :
        \E c \in Resolved(Moved(Planned, move, Energy(move.distance, Conditions), belief)) :
          Stepping(c, move.distance, Energy(move.distance, Conditions))
  BY <1>1
<1> DEFINE distance == move.distance
           energy == Energy(distance, Conditions)
           moved == Moved(Planned, move, energy, belief)
<1>3. PICK c \in Resolved(moved) : Stepping(c, distance, energy)
  BY <1>2
<1>4. car.state \in {"driving", "stopped"}
  BY DEF Drive
<1>5. /\ energy \in Nat /\ distance \in Nat
      /\ IsVehicle(moved)
      /\ moved.state \in {"driving", "stopped"}
      /\ moved.env = car.env /\ moved.dwell = car.dwell /\ moved.soc > 0
      /\ moved.odometer = car.odometer + distance
      /\ moved.used = car.used + energy
      /\ moved.at = Min({moved.odometer, Env.route.length})
      /\ (moved.booked # Unknown => moved.target = Driver.departure)
  BY <1>1, <1>4, MovedFacts
<1> HIDE DEF distance, energy, moved
<1>6. /\ car' = c /\ UNCHANGED <<world, sampled>>
      /\ interval'.distance = interval.distance + distance
      /\ interval'.energy = interval.energy + energy
      /\ interval' \in [steps : 0 .. StepsPerTick, distance : Nat, energy : Nat]
      /\ interval'.steps # 0
      /\ interval.distance \in Nat /\ interval.energy \in Nat
      /\ sampled.distance \in Nat /\ sampled.energy \in Nat
      /\ WorldOK'
  BY <1>3, <1>5, SteppingFacts
<1>7. /\ IsVehicle(car) /\ car.dwell <= MaxDwell /\ car.env \in DOMAIN world.environments
      /\ sampled \in [distance : Nat, energy : Nat]
      /\ Driver.departure \in Nat
      /\ MaxDwell \in Nat /\ StepsPerTick \in Nat /\ Critical \in Nat
  BY VehicleAssumption DEF JourneyInv, JourneyTypeOK, WorldOK
<1>8. /\ IsVehicle(c) /\ c.dwell <= MaxDwell
      /\ c.env = moved.env /\ c.at = moved.at /\ c.soc = moved.soc /\ c.odometer = moved.odometer
      /\ c.used = moved.used
      /\ \/ c.state = "charging" /\ c.target = Driver.departure
         \/ /\ c.state \in {"completed", "driving", "stopped"} /\ c.soc > Critical
            /\ c.booked # Unknown => c.target = Driver.departure
  BY <1>3, <1>5, <1>7, ResolvedFacts
<1>9. JourneyTypeOK'
  BY <1>5, <1>6, <1>7, <1>8 DEF JourneyTypeOK
<1>10. JourneyAddsUp'
  <2>1. Env' = Env
    BY <1>5, <1>6, <1>8 DEF Env
  <2>2. /\ car.odometer = sampled.distance + interval.distance
        /\ car.used <= sampled.energy + interval.energy
    BY DEF JourneyInv, JourneyAddsUp
  <2>3. car.used \in Nat
    BY <1>7 DEF IsVehicle
  <2>4. /\ car'.odometer = sampled'.distance + interval'.distance
        /\ car'.used <= sampled'.energy + interval'.energy
    BY <1>5, <1>6, <1>8, <2>2, <2>3
  <2> QED
    BY <1>5, <1>6, <1>8, <2>1, <2>4 DEF JourneyAddsUp
<1>11. ChargeLasts'
  <2>1. Driver' = Driver
    BY <1>6 DEF Driver
  <2>2. ASSUME c.state = "completed"
        PROVE  OutlastsAStart(car.soc - Pause)'
    <3>1. Pause' \in Nat /\ Pause' <= MaxDwell + StepsPerTick
      <4>1. c.dwell \in Nat
        BY <1>8 DEF IsVehicle
      <4> QED
        BY <1>6, <1>7, <1>8, <4>1 DEF Pause
    <3>2. car'.soc \in Nat /\ car'.soc > Critical
      BY <1>6, <1>8, <2>2 DEF IsVehicle
    <3>3. ASSUME NEW e \in DOMAIN world.environments,
                 NEW slope \in ToSet(world.environments[e].route.hills)
          PROVE  Climb(slope) < car'.soc - Pause'
      <4>1. Drivable(world.environments[e])
        BY DEF JourneyInv, WorldOK
      <4>2. Climb(slope) \in Nat /\ Climb(slope) + MaxDwell + StepsPerTick <= Critical
        BY <4>1, SlopesOfADirection DEF Drivable
      <4> QED
        BY <3>1, <3>2, <4>2, <1>7
    <3> QED
      BY <3>3, <1>6 DEF OutlastsAStart
  <2> QED
    BY <1>5, <1>6, <1>8, <2>1, <2>2 DEF ChargeLasts
<1> QED
  BY <1>6, <1>9, <1>10, <1>11 DEF JourneyInv

\* Every action keeps the invariant.
LEMMA JourneyGoesOn == JourneyInv /\ [VehicleNext]_vehicleVars => JourneyInv'
<1> SUFFICES ASSUME JourneyInv, [VehicleNext]_vehicleVars PROVE JourneyInv'
  OBVIOUS
<1>1. CASE Depart
  BY <1>1, DepartureKeeps
<1>2. CASE Sample
  BY <1>2, SampleKeeps
<1>3. CASE Idle
  BY <1>3, IdlingKeeps
<1>4. CASE Drive
  BY <1>4, DrivingKeeps
<1>5. CASE Charge
  BY <1>5, ChargingKeeps
<1>6. CASE UNCHANGED vehicleVars
  <2>1. UNCHANGED <<world, car, interval, sampled>>
    BY <1>6 DEF vehicleVars
  <2>2. WorldOK'
    BY <2>1, WorldStays DEF JourneyInv
  <2>3. JourneyTypeOK'
    BY <2>1 DEF JourneyInv, JourneyTypeOK
  <2>4. ChargeLasts'
    BY <2>1 DEF JourneyInv, ChargeLasts, OutlastsAStart, Pause, Driver
  <2>5. JourneyAddsUp'
    BY <2>1 DEF JourneyInv, JourneyAddsUp, Env
  <2> QED
    BY <2>2, <2>3, <2>4, <2>5 DEF JourneyInv
<1> QED
  BY <1>1, <1>2, <1>3, <1>4, <1>5, <1>6 DEF VehicleNext

\* The samples of a trip add up to what it reports and the pack is never empty, on any
\* corridors, over any hills that leave the rescue charge its reserve, at any sites.
THEOREM JourneyAlwaysAddsUp == VehicleSpec => []JourneyAddsUp
<1>1. VehicleInit => JourneyInv
  BY JourneyBegins
<1>2. JourneyInv /\ [VehicleNext]_vehicleVars => JourneyInv'
  BY JourneyGoesOn
<1>3. JourneyInv => JourneyAddsUp
  BY DEF JourneyInv
<1> QED
  BY <1>1, <1>2, <1>3, PTL DEF VehicleSpec

-----------------------------------------------------------------------------
(* The corridor is driven as it was loaded *)

\* A bin that begins on the corridor has the road of a segment its midpoint lies on.
LEMMA BinLiesOnItsSegment ==
  ASSUME NEW route \in Route, EndToEnd(route.segments), NEW b \in Nat,
         Midpoint(b) <= SegmentEnd(Last(route.segments))
  PROVE  \E i \in 1 .. Len(route.segments) :
           /\ RoadOfBin(route, b).class = route.segments[i].class
           /\ route.segments[i].from <= Midpoint(b) /\ Midpoint(b) <= SegmentEnd(route.segments[i])
<1> DEFINE segs == route.segments
           n == Len(segs)
           i == SegmentOfBin(route, b)
           mid == Midpoint(b)
<1>1. segs \in Seq(Segment) /\ segs # <<>>
  BY DEF Route, EndToEnd
<1>2. n \in Nat \ {0} /\ \A j \in 1 .. n : segs[j] \in Segment
  BY <1>1, SequenceFacts
<1>3. \A j \in 1 .. n : segs[j].from \in Int /\ SegmentEnd(segs[j]) \in Int
  BY <1>2 DEF Segment, SegmentEnd
<1>4. mid \in Nat
  <2>1. b * Bin \in Nat /\ Bin \div 2 \in Nat
    BY EnvironmentAssumption
  <2> QED
    BY <2>1 DEF Midpoint
<1>5. /\ i \in 1 .. n
      /\ i = n \/ SegmentEnd(segs[i]) > mid
      /\ \A j \in 1 .. n : j < i => ~(SegmentEnd(segs[j]) > mid)
  BY SegmentOfBinIsFirst
<1>6. RoadOfBin(route, b).class = segs[i].class
  BY <1>1 DEF RoadOfBin
<1> HIDE DEF i, mid
<1>7. mid <= SegmentEnd(segs[i])
  <2>1. mid <= SegmentEnd(segs[n])
    BY DEF Last, mid
  <2> QED
    BY <1>3, <1>4, <1>5, <2>1
<1>8. segs[i].from <= mid
  <2>1. CASE i = 1
    BY <2>1, <1>4 DEF EndToEnd
  <2>2. CASE i # 1
    <3>1. i - 1 \in 1 .. n /\ i - 1 < i /\ i \in 2 .. n
      BY <1>2, <1>5, <2>2
    <3>2. segs[i].from = SegmentEnd(segs[i - 1])
      BY <3>1 DEF EndToEnd
    <3> QED
      BY <1>3, <1>4, <1>5, <3>1, <3>2
  <2> QED
    BY <2>1, <2>2
<1> QED
  BY <1>5, <1>6, <1>7, <1>8 DEF i, mid

\* Out and back, a bin has the road of a segment of the corridor it lies on.
LEMMA RoadOfBothWays ==
  ASSUME NEW route \in Route, EndToEnd(route.segments), NEW b \in Nat,
         Midpoint(b) <= SegmentEnd(Last(route.segments))
  PROVE  LET segments == route.segments
             total == SegmentEnd(Last(segments))
             classes(at) == {segments[i].class : i \in SegmentsAt(segments, at)}
         IN  /\ RoadOfBin(route, b).class \in classes(Midpoint(b))
             /\ RoadOfBin(ReversedRoute(route), b).class \in classes(total - Midpoint(b))
<1> DEFINE segs == route.segments
           n == Len(segs)
           total == SegmentEnd(segs[n])
           mid == Midpoint(b)
           back == ReversedRoute(route)
           road == back.segments
<1>1. segs \in Seq(Segment) /\ segs # <<>>
  BY DEF Route, EndToEnd
<1>2. n \in Nat \ {0} /\ DOMAIN segs = 1 .. n /\ \A j \in 1 .. n : segs[j] \in Segment
  BY <1>1, SequenceFacts
<1>3. \A j \in 1 .. n : segs[j].from \in Int /\ SegmentEnd(segs[j]) \in Int
  <2>1. \A s \in Segment : s.from \in Int /\ SegmentEnd(s) \in Int
    BY DEF Segment, SegmentEnd
  <2> QED
    BY <1>2, <2>1
<1>4. total \in Int /\ n \in 1 .. n /\ 1 \in 1 .. n /\ n - n + 1 = 1
  BY <1>2, <1>3
<1>5. mid \in Nat
  <2>1. b * Bin \in Nat /\ Bin \div 2 \in Nat
    BY EnvironmentAssumption
  <2> QED
    BY <2>1 DEF Midpoint
<1>6. total = SegmentEnd(Last(segs)) /\ segs[1].from = 0
  BY DEF Last, EndToEnd
<1>7. RoadOfBin(route, b).class \in {segs[i].class : i \in SegmentsAt(segs, mid)}
  <2>1. PICK i \in 1 .. n :
          /\ RoadOfBin(route, b).class = segs[i].class
          /\ segs[i].from <= mid /\ mid <= SegmentEnd(segs[i])
    BY BinLiesOnItsSegment
  <2>2. i \in SegmentsAt(segs, mid)
    BY <1>2, <2>1 DEF SegmentsAt
  <2> QED
    BY <2>1, <2>2
<1>8. /\ back \in Route /\ EndToEnd(road) /\ Len(road) = n
      /\ \A i \in 1 .. n : /\ road[i].class = segs[n - i + 1].class
                           /\ road[i].from = total - SegmentEnd(segs[n - i + 1])
                           /\ SegmentEnd(road[i]) = total - segs[n - i + 1].from
  BY ReversedIsARoute
<1>9. RoadOfBin(back, b).class \in {segs[i].class : i \in SegmentsAt(segs, total - mid)}
  <2>1. SegmentEnd(Last(road)) = total
    <3>1. SegmentEnd(road[n]) = total - segs[1].from
      BY <1>4, <1>8
    <3>2. SegmentEnd(road[n]) = total
      <4> HIDE DEF total, road, segs, n
      <4> QED
        BY <1>4, <1>6, <3>1
    <3> QED
      BY <1>8, <3>2 DEF Last
  <2>2. PICK i \in 1 .. n :
          /\ RoadOfBin(back, b).class = road[i].class
          /\ road[i].from <= mid /\ mid <= SegmentEnd(road[i])
    <3>1. mid <= SegmentEnd(Last(road))
      BY <1>6, <2>1
    <3> HIDE DEF back
    <3> QED
      BY <1>8, <3>1, BinLiesOnItsSegment
  <2> DEFINE j == n - i + 1
  <2>3. j \in 1 .. n
    BY <1>2
  <2>4. /\ road[i].class = segs[j].class
        /\ road[i].from = total - SegmentEnd(segs[j])
        /\ SegmentEnd(road[i]) = total - segs[j].from
    BY <1>8
  <2> HIDE DEF j, total, mid, segs, road, n, back
  <2>5. segs[j].from <= total - mid /\ total - mid <= SegmentEnd(segs[j])
    BY <1>3, <1>4, <1>5, <2>2, <2>3, <2>4
  <2>6. j \in SegmentsAt(segs, total - mid)
    BY <1>2, <2>3, <2>5 DEF SegmentsAt
  <2> QED
    BY <2>2, <2>4, <2>6
<1> QED
  BY <1>6, <1>7, <1>9

\* The corridor driven back is the road driven out.
LEMMA WaysAreOneRoad == WorldOK => BothWaysAreOneRoad
<1> SUFFICES ASSUME WorldOK, NEW e \in DOMAIN world.environments,
                    world.environments[e].route.reverse
             PROVE  LET back == world.environments[e]
                        forth == world.environments[e - 1]
                        segments == forth.route.segments
                        total == SegmentEnd(Last(segments))
                        classes(at) == {segments[i].class : i \in SegmentsAt(segments, at)}
                    IN  /\ \A b \in 0 .. (BinCount(forth.route) - 1) : Midpoint(b) <= total =>
                             /\ RoadOfBin(forth.route, b).class \in classes(Midpoint(b))
                             /\ RoadOfBin(back.route, b).class \in classes(total - Midpoint(b))
                        /\ \A x \in 0 .. forth.route.length :
                             Gradient(forth, x) + Gradient(back, forth.route.length - x) = 0
  BY DEF BothWaysAreOneRoad
<1> DEFINE back == world.environments[e]
           forth == world.environments[e - 1]
           segs == forth.route.segments
           total == SegmentEnd(Last(segs))
           classes(at) == {segs[i].class : i \in SegmentsAt(segs, at)}
<1>1. /\ Drivable(back) /\ Drivable(forth)
      /\ back.route = ReversedRoute(forth.route) /\ ~forth.route.reverse
  BY DEF WorldOK
<1>2. /\ forth.route \in Route /\ EndToEnd(segs)
  <2> HIDE DEF forth
  <2> QED
    BY <1>1 DEF Drivable
<1>3. forth.route.length \in Nat
  <2> HIDE DEF forth
  <2> QED
    BY <1>2 DEF Route
<1>4. /\ back.route.reverse
      /\ back.route.length = forth.route.length /\ back.route.hills = forth.route.hills
  BY <1>1, <1>2, ReversedIsARoute
<1>5. ASSUME NEW b \in 0 .. (BinCount(forth.route) - 1), Midpoint(b) <= total
      PROVE  /\ RoadOfBin(forth.route, b).class \in classes(Midpoint(b))
             /\ RoadOfBin(back.route, b).class \in classes(total - Midpoint(b))
  <2>1. b \in Nat
    OBVIOUS
  <2> HIDE DEF forth, back
  <2>2. /\ RoadOfBin(forth.route, b).class \in classes(Midpoint(b))
        /\ RoadOfBin(ReversedRoute(forth.route), b).class \in classes(total - Midpoint(b))
    BY <1>2, <1>5, <2>1, RoadOfBothWays
  <2> QED
    BY <1>1, <2>2
<1>6. ASSUME NEW x \in 0 .. forth.route.length
      PROVE  Gradient(forth, x) + Gradient(back, forth.route.length - x) = 0
  <2> HIDE DEF forth, back
  <2>1. forth.route.length - (forth.route.length - x) = x
    BY <1>3
  <2>2. Gradient(forth, x) = Drawn(forth.route.hills, x)
    BY <1>1 DEF Gradient
  <2>3. Gradient(back, forth.route.length - x) = - Drawn(forth.route.hills, x)
    BY <1>4, <2>1 DEF Gradient
  <2>4. Gradient(forth, x) \in Int
    BY <1>1, GradientIsASlope
  <2> QED
    BY <2>2, <2>3, <2>4
<1> QED
  BY <1>5, <1>6

\* Two offsets as far apart as some whole bins lie in bins no further apart.
LEMMA BinsApart ==
  ASSUME NEW x \in Nat, NEW y \in Nat, NEW r \in Nat, x - y <= r * Bin
  PROVE  x \div Bin <= y \div Bin + r
<1> DEFINE q == y \div Bin
<1>1. q \in Nat /\ y < Bin * q + Bin
  BY Quotient
<1>2. Bin \in Nat
  BY EnvironmentAssumption
<1> HIDE DEF q
<1>3. Bin * (q + r) = Bin * q + r * Bin /\ Bin * q \in Nat /\ r * Bin \in Nat
  BY <1>1, <1>2
<1>4. x < Bin * (q + r) + Bin
  BY <1>1, <1>2, <1>3
<1>5. x \div Bin <= q + r
  BY <1>1, <1>4, QuotientBelow
<1> QED
  BY <1>5 DEF q

\* The line ends in its last bin, or where that one ends.
LEMMA LineEndsInItsBins ==
  ASSUME NEW route \in Route
  PROVE  route.length \div Bin <= BinCount(route)
<1> DEFINE q == (route.length + Bin - 1) \div Bin
<1>1. route.length \in Nat /\ Bin \in Nat \ {0}
  BY EnvironmentAssumption DEF Route
<1>2. q \in Nat /\ route.length + Bin - 1 < Bin * q + Bin
  <2>1. route.length + Bin - 1 \in Nat
    BY <1>1
  <2> QED
    BY <2>1, Quotient
<1>3. BinCount(route) \in Nat /\ q <= BinCount(route)
  BY <1>2, MaxOfTwo DEF BinCount
<1> HIDE DEF q
<1>4. route.length < Bin * q + Bin
  BY <1>1, <1>2
<1>5. route.length \div Bin <= q
  BY <1>1, <1>2, <1>4, QuotientBelow
<1>6. route.length \div Bin \in Nat
  BY <1>1, Quotient
<1> QED
  BY <1>2, <1>3, <1>5, <1>6

\* The bin of an offset is among those an event within its reach is painted on.
LEMMA BinWithinReach ==
  ASSUME NEW route \in Route, NEW x \in 0 .. route.length, NEW at \in 0 .. route.length,
         NEW r \in Nat \ {0}, x - at \in - (r * Bin) .. (r * Bin)
  PROVE  BinOf(route, x) \in (at \div Bin - r) .. (at \div Bin + r)
<1> DEFINE p == at \div Bin
           q == x \div Bin
           last == route.length \div Bin
           n == BinCount(route)
           b == BinOf(route, x)
<1>1. route.length \in Nat /\ x \in Nat /\ at \in Nat
  BY DEF Route
<1>2. p \in Nat /\ q \in Nat /\ last \in Nat
  BY <1>1, Quotient
<1>3. q <= p + r /\ p <= q + r
  <2>1. r * Bin \in Nat
    BY EnvironmentAssumption
  <2>2. x - at <= r * Bin /\ at - x <= r * Bin
    BY <1>1, <2>1
  <2> QED
    BY <1>1, <2>2, BinsApart
<1>4. p <= n
  <2>1. at - route.length <= 0 * Bin
    BY <1>1, EnvironmentAssumption
  <2>2. p <= last + 0
    BY <1>1, <2>1, BinsApart
  <2>3. last <= n
    BY LineEndsInItsBins
  <2>4. n \in Nat
    BY <1>1, BinOfType
  <2> HIDE DEF p, last, n
  <2> QED
    BY <1>2, <2>2, <2>3, <2>4
<1>5. n \in Nat \ {0} /\ b \in Nat /\ b = IF q <= n - 1 THEN q ELSE n - 1
  BY <1>1, BinOfType
<1> HIDE DEF p, q, n, b
<1>6. b \in (p - r) .. (p + r)
  BY <1>2, <1>3, <1>4, <1>5
<1> QED
  BY <1>6 DEF p, b

\* Within its reach an event is felt.
LEMMA EventIsFelt ==
  ASSUME NEW env, Drivable(env), env.config.traffic = "observed", NEW v \in env.events,
         NEW x \in 0 .. env.route.length, NEW when,
         LET reach == Max({1, env.config.reach \div Bin}) * Bin IN x - v.at \in -reach .. reach
  PROVE  TrafficAt(env, x, when) >= EventSeverity(v)
<1> DEFINE r == Max({1, env.config.reach \div Bin})
           b == BinOf(env.route, x)
<1>1. /\ env.route \in Route /\ env.config.reach \in Nat
      /\ v \in TrafficEvent /\ v.at <= env.route.length
  BY DEF Drivable
<1>2. v.at \in 0 .. env.route.length
  BY <1>1 DEF TrafficEvent, Route
<1>3. r \in Nat \ {0}
  <2>1. env.config.reach \div Bin \in Nat
    BY <1>1, Quotient
  <2> QED
    BY <2>1, MaxOfTwo
<1>4. x - v.at \in - (r * Bin) .. (r * Bin)
  OBVIOUS
<1> HIDE DEF r
<1>5. b \in (v.at \div Bin - r) .. (v.at \div Bin + r)
  BY <1>1, <1>2, <1>3, <1>4, BinWithinReach
<1> HIDE DEF b
<1>6. EventSeverity(v) \in Reported(env, b)
  BY <1>5 DEF Reported, r
<1>7. PaintedOnBin(env, b) \in Severity /\ PaintedOnBin(env, b) >= EventSeverity(v)
  BY <1>6, PaintedIsTheWorst
<1>8. PaintedOnBin(env, b) # Unknown
  BY <1>7, EnvironmentAssumption
<1>9. TrafficAt(env, x, when) = PaintedOnBin(env, b)
  BY <1>8 DEF TrafficAt, b
<1> QED
  BY <1>7, <1>9

LEMMA NoTrafficIsNone ==
  ASSUME NEW env, Drivable(env), env.config.traffic = "none", NEW x, NEW when
  PROVE  TrafficAt(env, x, when) = 0
<1>1. PaintedOnBin(env, BinOf(env.route, x)) = Unknown
  BY PaintedIsTheWorst
<1> QED
  BY <1>1 DEF TrafficAt

LEMMA EventsFelt == WorldOK => EventsAreFelt
<1> SUFFICES ASSUME WorldOK, NEW e \in DOMAIN world.environments
             PROVE  LET env == world.environments[e]
                        config == env.config
                        reach == Max({1, config.reach \div Bin}) * Bin
                    IN  /\ config.traffic = "observed" =>
                             \A v \in env.events, x \in 0 .. env.route.length :
                               (x - v.at \in -reach .. reach)
                                 => TrafficAt(env, x, world.when) >= EventSeverity(v)
                        /\ config.traffic = "none" =>
                             \A x \in 0 .. env.route.length : TrafficAt(env, x, world.when) = 0
  BY DEF EventsAreFelt
<1> DEFINE env == world.environments[e]
<1>1. Drivable(env)
  BY DEF WorldOK
<1> HIDE DEF env
<1>2. ASSUME env.config.traffic = "observed", NEW v \in env.events, NEW x \in 0 .. env.route.length,
             LET reach == Max({1, env.config.reach \div Bin}) * Bin IN x - v.at \in -reach .. reach
      PROVE  TrafficAt(env, x, world.when) >= EventSeverity(v)
  BY <1>1, <1>2, EventIsFelt
<1>3. ASSUME env.config.traffic = "none", NEW x \in 0 .. env.route.length
      PROVE  TrafficAt(env, x, world.when) = 0
  BY <1>1, <1>3, NoTrafficIsNone
<1> QED
  BY <1>2, <1>3 DEF env

\* On any corridors, with any stored events: out and back are one road, an event is felt
\* as far as the whole bins of its reach, and a run without traffic has none.
THEOREM CorridorAlwaysFaithful == VehicleSpec => []CorridorIsFaithful
<1>1. VehicleInit => JourneyInv
  BY JourneyBegins
<1>2. JourneyInv /\ [VehicleNext]_vehicleVars => JourneyInv'
  BY JourneyGoesOn
<1>3. JourneyInv => CorridorIsFaithful
  BY WaysAreOneRoad, EventsFelt DEF JourneyInv, CorridorIsFaithful
<1> QED
  BY <1>1, <1>2, <1>3, PTL DEF VehicleSpec
=============================================================================
