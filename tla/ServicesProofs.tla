------------------------------ MODULE ServicesProofs ------------------------------
(***************************************************************************)
(* What the API tells of a live fleet and of a route, for every value of   *)
(* the constants.                                                          *)
(*                                                                         *)
(* The live map, for every fleet, every order in which samples are written *)
(* and every sequence of polls and lost connections: a vehicle's newest    *)
(* row is on the map, or the next poll brings it, unless it was written    *)
(* after a newer row of another vehicle.  The cursor is not enough to      *)
(* prove it: after a lost connection the new cursor is taken from the map. *)
(* The invariant therefore compares every row with what the map shows, and *)
(* keeps the cursor below that.                                            *)
(*                                                                         *)
(* The energy of a segment and the analysis of a route, for every vehicle, *)
(* corridor, report and reading: an answer is what was computed from the   *)
(* task, and the lemmas say what of sums, lists and bounds is true of it.  *)
(***************************************************************************)
EXTENDS Algorithms, FiniteSetTheorems, WellFoundedInduction, TLAPS

-----------------------------------------------------------------------------
(* The live map *)

Sample == [at : Nat, inside : BOOLEAN]

StreamTypeOK ==
  /\ clock \in Nat
  /\ unwritten \in [Car -> Seq(Sample)]
  /\ stored \in [Car -> SUBSET Sample]
  /\ boxed \in BOOLEAN
  /\ cursor \in Nat \cup {Nowhere}
  /\ screen \in [Car -> Sample \cup {Nowhere}]
  /\ connected \in BOOLEAN
  /\ late \in [Car -> SUBSET Sample]
  /\ losses \in Nat

\* A vehicle's samples are written in the order they were taken, one for each tick.
SamplesInOrder ==
  \A c \in Car :
    /\ \A i \in 1 .. Len(unwritten[c]) :
         /\ unwritten[c][i].at <= clock
         /\ \A s \in stored[c] : s.at < unwritten[c][i].at
         /\ \A j \in 1 .. Len(unwritten[c]) : i < j => unwritten[c][i].at < unwritten[c][j].at
    /\ \A s \in stored[c] : s.at <= clock
    /\ \A s, o \in stored[c] : s.at = o.at => s = o

Shown(c, s) == screen[c] # Nowhere /\ s.at <= screen[c].at

\* A row the client follows is on the map or superseded there, newer than all the map
\* shows, or was late.
RowsReachTheMap ==
  \A c \in Car : \A s \in Followed(c) :
    \/ Shown(c, s)
    \/ s \in late[c]
    \/ \A d \in Car : screen[d] # Nowhere => screen[d].at < s.at

\* The map shows rows of the table, and the cursor is never past them.
MapComesFromTable ==
  /\ \A c \in Car : screen[c] # Nowhere => screen[c] \in Followed(c)
  /\ cursor # Nowhere => \E d \in Car : screen[d] # Nowhere /\ cursor <= screen[d].at

StreamInv == StreamTypeOK /\ SamplesInOrder /\ RowsReachTheMap /\ MapComesFromTable

-----------------------------------------------------------------------------
(* The greatest of a bounded set *)

LEMMA LeastExists ==
  ASSUME NEW T \in SUBSET Nat, T # {}
  PROVE  \E x \in T : \A y \in T : x <= y
<1>1. IsWellFoundedOn(OpToRel(<, Nat), Nat)
  BY NatLessThanWellFounded
<1>2. \E x \in T : \A y \in T : ~(<<y, x>> \in OpToRel(<, Nat))
  BY <1>1, WFMin
<1>3. \A x, y \in T : ~(<<y, x>> \in OpToRel(<, Nat)) => x <= y
  BY DEF OpToRel
<1> QED
  BY <1>2, <1>3, Zenon

LEMMA GreatestExists ==
  ASSUME NEW T \in SUBSET Nat, T # {}, NEW b \in Nat, \A t \in T : t <= b
  PROVE  \E x \in T : \A y \in T : y <= x
<1> DEFINE D == {b - t : t \in T}
<1>0. \A t \in T : b - t \in Nat
  OBVIOUS
<1>1. D \in SUBSET Nat /\ D # {}
  BY <1>0
<1>2. PICK x \in D : \A y \in D : x <= y
  BY <1>1, LeastExists
<1>3. PICK t \in T : x = b - t
  BY <1>2
<1>4. \A w \in T : w <= t
  <2> TAKE w \in T
  <2>1. b - t <= b - w
    BY <1>2, <1>3
  <2> QED
    BY <2>1
<1> QED
  BY <1>3, <1>4

LEMMA MaxIsGreatest ==
  ASSUME NEW T \in SUBSET Nat, T # {}, NEW b \in Nat, \A t \in T : t <= b
  PROVE  Max(T) \in T /\ \A y \in T : y <= Max(T)
<1>1. PICK x \in T : \A y \in T : y <= x
  BY GreatestExists
<1>2. \E z \in T : \A y \in T : z >= y
  BY <1>1
<1>3. Max(T) \in T /\ \A y \in T : Max(T) >= y
  BY <1>2 DEF Max
<1> QED
  BY <1>3

\* A vehicle that has rows after the cursor has a newest one among them.
LEMMA NewestExists ==
  ASSUME NEW R \in SUBSET Sample, R # {}, NEW b \in Nat, \A s \in R : s.at <= b
  PROVE  Newest(R) # {}
<1> DEFINE T == {s.at : s \in R}
<1>1. T \in SUBSET Nat /\ T # {} /\ \A t \in T : t <= b
  BY DEF Sample
<1>2. PICK x \in T : \A y \in T : y <= x
  BY <1>1, GreatestExists
<1>3. PICK s \in R : s.at = x
  BY <1>2
<1>4. s \in Newest(R)
  BY <1>2, <1>3 DEF Newest
<1> QED
  BY <1>4

-----------------------------------------------------------------------------
(* The steps *)

LEMMA StreamStarts == StreamInit => StreamInv
BY StreamAssumption DEF StreamInit, StreamInv, StreamTypeOK, SamplesInOrder, RowsReachTheMap, MapComesFromTable,
   Followed

LEMMA FleetKeepsStream == ASSUME StreamInv, TickFleet PROVE StreamInv'
<1>1. PICK inside \in [Car -> BOOLEAN] :
        unwritten' = [c \in Car |-> Append(unwritten[c], [at |-> clock', inside |-> inside[c]])]
  BY DEF TickFleet
<1>2. /\ clock \in Nat /\ clock' = clock + 1
      /\ UNCHANGED <<stored, boxed, cursor, screen, connected, late, losses>>
      /\ unwritten \in [Car -> Seq(Sample)] /\ stored \in [Car -> SUBSET Sample]
  BY DEF StreamInv, StreamTypeOK, TickFleet
<1>3. ASSUME NEW c \in Car
      PROVE  /\ unwritten'[c] \in Seq(Sample)
             /\ Len(unwritten'[c]) = Len(unwritten[c]) + 1
             /\ \A i \in 1 .. Len(unwritten[c]) : unwritten'[c][i] = unwritten[c][i]
             /\ unwritten'[c][Len(unwritten[c]) + 1].at = clock + 1
  <2> DEFINE e == [at |-> clock', inside |-> inside[c]]
  <2>1. e \in Sample /\ e.at = clock + 1
    BY <1>2 DEF Sample
  <2> HIDE DEF e
  <2>2. unwritten'[c] = Append(unwritten[c], e) /\ unwritten[c] \in Seq(Sample)
    BY <1>1, <1>2 DEF e
  <2> QED
    BY <2>1, <2>2
<1>4. unwritten' \in [Car -> Seq(Sample)]
  BY <1>1, <1>3
<1>5. StreamTypeOK'
  BY <1>2, <1>4 DEF StreamInv, StreamTypeOK
<1>6. SamplesInOrder'
  <2> SUFFICES ASSUME NEW c \in Car
               PROVE  /\ \A i \in 1 .. Len(unwritten'[c]) :
                           /\ unwritten'[c][i].at <= clock'
                           /\ \A s \in stored[c] : s.at < unwritten'[c][i].at
                           /\ \A j \in 1 .. Len(unwritten'[c]) :
                                i < j => unwritten'[c][i].at < unwritten'[c][j].at
                      /\ \A s \in stored[c] : s.at <= clock'
                      /\ \A s, o \in stored[c] : s.at = o.at => s = o
    BY <1>2 DEF SamplesInOrder
  <2>1. /\ \A i \in 1 .. Len(unwritten[c]) :
             /\ unwritten[c][i] \in Sample
             /\ unwritten[c][i].at <= clock
             /\ \A s \in stored[c] : s.at < unwritten[c][i].at
             /\ \A j \in 1 .. Len(unwritten[c]) : i < j => unwritten[c][i].at < unwritten[c][j].at
        /\ \A s \in stored[c] : s \in Sample /\ s.at <= clock
        /\ \A s, o \in stored[c] : s.at = o.at => s = o
        /\ Len(unwritten[c]) \in Nat
    BY <1>2 DEF StreamInv, SamplesInOrder
  <2>2. \A i \in 1 .. Len(unwritten'[c]) : i \in 1 .. Len(unwritten[c]) \/ i = Len(unwritten[c]) + 1
    BY <1>3, <2>1
  <2> DEFINE u == unwritten'[c]
             n == Len(unwritten[c])
  <2>3. /\ \A i \in 1 .. n : u[i] = unwritten[c][i]
        /\ u[n + 1].at = clock + 1
        /\ \A i \in 1 .. Len(u) : i \in 1 .. n \/ i = n + 1
        /\ n \in Nat
    BY <1>3, <2>1, <2>2
  <2> HIDE DEF u
  <2>4. ASSUME NEW i \in 1 .. Len(u)
        PROVE  u[i].at <= clock' /\ \A s \in stored[c] : s.at < u[i].at
    <3>1. CASE i \in 1 .. n
      BY <1>2, <2>1, <2>3, <3>1 DEF Sample
    <3>2. CASE i = n + 1
      BY <1>2, <2>1, <2>3, <3>2 DEF Sample
    <3> QED
      BY <2>3, <3>1, <3>2
  <2>5. ASSUME NEW i \in 1 .. Len(u), NEW j \in 1 .. Len(u), i < j
        PROVE  u[i].at < u[j].at
    <3>1. i \in 1 .. n
      BY <2>3, <2>5
    <3>2. CASE j \in 1 .. n
      <4>1. unwritten[c][i].at < unwritten[c][j].at
        BY <2>1, <2>5, <3>1, <3>2
      <4> QED
        BY <2>3, <3>1, <3>2, <4>1
    <3>3. CASE j = n + 1
      <4>1. unwritten[c][i].at \in Nat /\ unwritten[c][i].at <= clock
        BY <2>1, <3>1 DEF Sample
      <4>2. u[i] = unwritten[c][i] /\ u[j].at = clock + 1
        BY <2>3, <3>1, <3>3
      <4> QED
        BY <1>2, <4>1, <4>2
    <3> QED
      BY <2>3, <3>2, <3>3
  <2>6. \A s \in stored[c] : s.at <= clock'
    BY <1>2, <2>1 DEF Sample
  <2> QED
    BY <2>1, <2>4, <2>5, <2>6 DEF u
<1>7. RowsReachTheMap' /\ MapComesFromTable'
  BY <1>2 DEF StreamInv, RowsReachTheMap, MapComesFromTable, Followed, Shown
<1> QED
  BY <1>5, <1>6, <1>7 DEF StreamInv

LEMMA WritesKeepStream ==
  ASSUME StreamInv, NEW c \in Car, NEW n \in 1 .. Len(unwritten[c]), Write(c, n)
  PROVE  StreamInv'
<1> DEFINE u == unwritten[c]
           batch == {u[i] : i \in 1 .. n}
<1>1. /\ u \in Seq(Sample) /\ Len(u) \in Nat /\ n \in 1 .. Len(u) /\ clock \in Nat
      /\ unwritten \in [Car -> Seq(Sample)] /\ stored \in [Car -> SUBSET Sample]
      /\ late \in [Car -> SUBSET Sample] /\ screen \in [Car -> Sample \cup {Nowhere}]
  BY DEF StreamInv, StreamTypeOK
<1>2. /\ \A i \in 1 .. Len(u) :
           /\ u[i] \in Sample /\ u[i].at \in Nat /\ u[i].at <= clock
           /\ \A s \in stored[c] : s.at < u[i].at
           /\ \A j \in 1 .. Len(u) : i < j => u[i].at < u[j].at
      /\ \A s \in stored[c] : s \in Sample /\ s.at \in Nat /\ s.at <= clock
      /\ \A s, o \in stored[c] : s.at = o.at => s = o
  <2>0. \A s \in Sample : s.at \in Nat
    BY DEF Sample
  <2>1. (\A i \in 1 .. Len(u) : u[i] \in Sample) /\ \A s \in stored[c] : s \in Sample
    BY <1>1
  <2>2. /\ \A i \in 1 .. Len(u) :
             /\ u[i].at <= clock
             /\ \A s \in stored[c] : s.at < u[i].at
             /\ \A j \in 1 .. Len(u) : i < j => u[i].at < u[j].at
        /\ \A s \in stored[c] : s.at <= clock
        /\ \A s, o \in stored[c] : s.at = o.at => s = o
    BY DEF StreamInv, SamplesInOrder
  <2> QED
    BY <2>0, <2>1, <2>2
<1>3. /\ unwritten' = [unwritten EXCEPT ![c] = SubSeq(u, n + 1, Len(u))]
      /\ stored' = [stored EXCEPT ![c] = stored[c] \cup batch]
      /\ late' = [late EXCEPT ![c] = late[c] \cup
                   {s \in batch : \E o \in UNION {Followed(d) : d \in Car} : s.at <= o.at}]
      /\ UNCHANGED <<clock, boxed, cursor, screen, connected, losses>>
  BY <1>1 DEF Write
<1>4. /\ unwritten'[c] \in Seq(Sample) /\ Len(unwritten'[c]) = Len(u) - n
      /\ \A i \in 1 .. Len(u) - n : unwritten'[c][i] = u[n + i] /\ n + i \in 1 .. Len(u)
  BY <1>1, <1>3
<1>5. batch \subseteq Sample /\ \A s \in batch : \E i \in 1 .. n : s = u[i] /\ i \in 1 .. Len(u)
  BY <1>1, <1>2
<1> HIDE DEF batch
<1>6. stored'[c] = stored[c] \cup batch /\ \A d \in Car : d # c => stored'[d] = stored[d]
  BY <1>1, <1>3
<1>7. StreamTypeOK'
  BY <1>1, <1>3, <1>4, <1>5, <1>6 DEF StreamInv, StreamTypeOK
<1>8. SamplesInOrder'
  <2>1. ASSUME NEW d \in Car, d # c
        PROVE  unwritten'[d] = unwritten[d] /\ stored'[d] = stored[d]
    BY <1>1, <1>3, <2>1
  <2> DEFINE w == unwritten'[c]
  <2>2. /\ Len(w) = Len(u) - n
        /\ \A i \in 1 .. Len(w) : w[i] = u[n + i] /\ n + i \in 1 .. Len(u)
    BY <1>1, <1>4
  <2> HIDE DEF w
  <2>3. ASSUME NEW i \in 1 .. Len(w)
        PROVE  w[i].at <= clock /\ \A s \in stored'[c] : s.at < w[i].at
    <3>1. w[i] = u[n + i] /\ n + i \in 1 .. Len(u) /\ n \in Nat /\ i \in Nat /\ i > 0
      BY <1>1, <2>2, <2>3
    <3>2. \A s \in batch : s.at < u[n + i].at
      <4> TAKE s \in batch
      <4>1. PICK k \in 1 .. n : s = u[k] /\ k \in 1 .. Len(u)
        BY <1>5
      <4>2. k < n + i
        BY <3>1, <4>1
      <4> QED
        BY <1>2, <3>1, <4>1, <4>2
    <3> QED
      BY <1>2, <1>6, <3>1, <3>2
  <2>4. ASSUME NEW i \in 1 .. Len(w), NEW j \in 1 .. Len(w), i < j PROVE w[i].at < w[j].at
    <3>1. n + i < n + j
      BY <1>1, <2>2, <2>4
    <3> QED
      BY <1>2, <2>2, <3>1
  <2>5. \A s \in stored'[c] : s.at <= clock
    BY <1>2, <1>5, <1>6
  <2>6. ASSUME NEW s \in stored'[c], NEW o \in stored'[c], s.at = o.at PROVE s = o
    <3>1. CASE s \in stored[c] /\ o \in stored[c]
      BY <1>2, <2>6, <3>1
    <3>2. CASE s \in batch /\ o \in batch
      <4>1. PICK i \in 1 .. Len(u), j \in 1 .. Len(u) : s = u[i] /\ o = u[j]
        BY <1>5, <3>2
      <4>2. ~(i < j) /\ ~(j < i)
        BY <1>2, <2>6, <4>1
      <4> QED
        BY <1>1, <4>1, <4>2
    <3>3. CASE s \in stored[c] /\ o \in batch
      BY <1>2, <1>5, <2>6, <3>3
    <3>4. CASE s \in batch /\ o \in stored[c]
      BY <1>2, <1>5, <2>6, <3>4
    <3> QED
      BY <1>6, <3>1, <3>2, <3>3, <3>4
  <2>7. ASSUME NEW d \in Car
        PROVE  /\ \A i \in 1 .. Len(unwritten'[d]) :
                    /\ unwritten'[d][i].at <= clock
                    /\ \A s \in stored'[d] : s.at < unwritten'[d][i].at
                    /\ \A j \in 1 .. Len(unwritten'[d]) :
                         i < j => unwritten'[d][i].at < unwritten'[d][j].at
               /\ \A s \in stored'[d] : s.at <= clock
               /\ \A s, o \in stored'[d] : s.at = o.at => s = o
    <3>1. CASE d = c
      BY <2>3, <2>4, <2>5, <2>6, <3>1 DEF w
    <3>2. CASE d # c
      BY <2>1, <3>2 DEF StreamInv, SamplesInOrder
    <3> QED
      BY <3>1, <3>2
  <2> QED
    BY <1>3, <2>7 DEF SamplesInOrder
<1>9. /\ \A d \in Car : d # c => Followed(d)' = Followed(d)
      /\ Followed(c)' = Followed(c) \cup {s \in batch : boxed => s.inside}
  BY <1>3, <1>6 DEF Followed
<1>10. MapComesFromTable'
  BY <1>3, <1>9 DEF StreamInv, MapComesFromTable
<1>11. /\ \A d \in Car : late[d] \subseteq late'[d]
       /\ \A s \in batch : s \in late'[c] \/ \A d \in Car : \A o \in Followed(d) : ~(s.at <= o.at)
  BY <1>1, <1>3
<1>12. RowsReachTheMap'
  <2> SUFFICES ASSUME NEW d \in Car, NEW s \in Followed(d)'
               PROVE  \/ Shown(d, s)
                      \/ s \in late'[d]
                      \/ \A e \in Car : screen[e] # Nowhere => screen[e].at < s.at
    BY <1>3 DEF RowsReachTheMap, Shown
  <2>1. CASE s \in Followed(d)
    BY <1>11, <2>1 DEF StreamInv, RowsReachTheMap
  <2>2. CASE s \notin Followed(d)
    <3>1. d = c /\ s \in batch
      BY <1>9, <2>2
    <3>2. CASE s \in late'[c]
      BY <3>1, <3>2
    <3>3. CASE s \notin late'[c]
      <4>1. ASSUME NEW e \in Car, screen[e] # Nowhere PROVE screen[e].at < s.at
        <5>1. screen[e] \in Followed(e) /\ screen[e].at \in Nat /\ s.at \in Nat
          BY <1>1, <1>5, <3>1, <4>1 DEF StreamInv, MapComesFromTable, Sample
        <5>2. ~(s.at <= screen[e].at)
          BY <1>11, <3>1, <3>3, <5>1
        <5> QED
          BY <5>1, <5>2
      <4> QED
        BY <4>1
    <3> QED
      BY <3>2, <3>3
  <2> QED
    BY <2>1, <2>2
<1> QED
  BY <1>7, <1>8, <1>10, <1>12 DEF StreamInv

\* The rows of one frame: each is the newest its vehicle has.
LEMMA FrameIsNewest ==
  ASSUME StreamInv, NEW c \in Car
  PROVE  /\ c \in DOMAIN Frame =>
              /\ Frame[c] \in Followed(c) /\ Frame[c] \in Sample /\ Frame[c] # Nowhere
              /\ \A s \in Followed(c) : s.at <= Frame[c].at
         /\ c \notin DOMAIN Frame =>
              \A s \in Followed(c) : cursor # Nowhere /\ s.at <= cursor
<1>1. /\ Followed(c) \subseteq Sample /\ clock \in Nat /\ cursor \in Nat \cup {Nowhere}
      /\ \A s \in Followed(c) : s.at \in Nat /\ s.at <= clock
  BY DEF StreamInv, StreamTypeOK, SamplesInOrder, Followed, Sample
<1>2. c \in DOMAIN Frame <=> Rows(c) # {}
  BY DEF Frame
<1>3. After(Followed(c)) \subseteq Followed(c)
  BY DEF After
<1>4. ASSUME Rows(c) # {}
      PROVE  /\ Frame[c] \in Followed(c) /\ Frame[c] \in Sample /\ Frame[c] # Nowhere
             /\ \A s \in Followed(c) : s.at <= Frame[c].at
  <2>1. Frame[c] \in Rows(c)
    BY <1>4 DEF Frame
  <2>2. /\ Frame[c] \in After(Followed(c)) /\ Frame[c] \in Followed(c) /\ Frame[c] \in Sample
        /\ \A o \in After(Followed(c)) : o.at <= Frame[c].at
    BY <1>1, <1>3, <2>1 DEF Rows, Newest
  <2>3. \A s \in Followed(c) : s \notin After(Followed(c)) => s.at <= Frame[c].at
    BY <1>1, <2>2 DEF After
  <2>4. Frame[c] # Nowhere
    BY <2>2, StreamAssumption DEF Sample
  <2> QED
    BY <2>2, <2>3, <2>4
<1>5. ASSUME Rows(c) = {}, NEW s \in Followed(c) PROVE cursor # Nowhere /\ s.at <= cursor
  <2>1. After(Followed(c)) = {}
    <3> SUFFICES ASSUME After(Followed(c)) # {} PROVE FALSE
      OBVIOUS
    <3>1. Newest(After(Followed(c))) # {}
      BY <1>1, <1>3, NewestExists
    <3> QED
      BY <1>5, <3>1 DEF Rows
  <2> QED
    BY <1>1, <2>1 DEF After
<1> QED
  BY <1>2, <1>4, <1>5

LEMMA PollKeepsStream == ASSUME StreamInv, Poll PROVE StreamInv'
<1>1. /\ clock \in Nat /\ screen \in [Car -> Sample \cup {Nowhere}]
      /\ UNCHANGED <<clock, unwritten, stored, boxed, connected, late, losses>>
      /\ screen' = [c \in Car |-> IF c \in DOMAIN Frame THEN Frame[c] ELSE screen[c]]
      /\ DOMAIN Frame \subseteq Car
  BY DEF StreamInv, StreamTypeOK, Poll, Frame
<1>2. \A c \in Car : Followed(c)' = Followed(c) /\ Followed(c) \subseteq Sample
  BY <1>1 DEF Followed, StreamInv, StreamTypeOK
<1>3. PICK d \in DOMAIN Frame : cursor' = Frame[d].at
  <2> DEFINE T == {Frame[c].at : c \in DOMAIN Frame}
  <2>1. \A c \in DOMAIN Frame : Frame[c].at \in Nat /\ Frame[c].at <= clock
    BY <1>1, FrameIsNewest DEF StreamInv, SamplesInOrder, Followed, Sample
  <2>2. T \in SUBSET Nat /\ T # {} /\ \A t \in T : t <= clock
    BY <2>1 DEF Poll
  <2>3. Max(T) \in T
    BY <1>1, <2>2, MaxIsGreatest
  <2>4. cursor' = Max(T)
    BY DEF Poll, Advanced
  <2> QED
    BY <2>3, <2>4
<1>4. \A c \in Car : screen'[c] = IF c \in DOMAIN Frame THEN Frame[c] ELSE screen[c]
  BY <1>1
<1>5. StreamTypeOK'
  <2>1. cursor' \in Nat
    BY <1>1, <1>3, FrameIsNewest DEF Sample
  <2>2. screen' \in [Car -> Sample \cup {Nowhere}]
    BY <1>1, <1>4, FrameIsNewest
  <2> QED
    BY <1>1, <2>1, <2>2 DEF StreamInv, StreamTypeOK
<1>6. SamplesInOrder'
  BY <1>1 DEF StreamInv, SamplesInOrder
<1>7. RowsReachTheMap'
  <2> SUFFICES ASSUME NEW c \in Car, NEW s \in Followed(c)
               PROVE  (screen'[c] # Nowhere /\ s.at <= screen'[c].at) \/ s \in late[c]
    BY <1>1, <1>2 DEF RowsReachTheMap, Shown
  <2>1. CASE c \in DOMAIN Frame
    BY <1>4, <2>1, FrameIsNewest
  <2>2. CASE c \notin DOMAIN Frame
    <3>1. cursor # Nowhere /\ s.at <= cursor /\ screen'[c] = screen[c]
      BY <1>4, <2>2, FrameIsNewest
    <3>2. PICK e \in Car : screen[e] # Nowhere /\ cursor <= screen[e].at
      BY <3>1 DEF StreamInv, MapComesFromTable
    <3>3. s.at <= screen[e].at
      <4>1. s.at \in Nat /\ cursor \in Nat /\ screen[e].at \in Nat
        BY <1>1, <1>2, <3>1, <3>2 DEF StreamInv, StreamTypeOK, Sample
      <4> QED
        BY <3>1, <3>2, <4>1
    <3>4. ~(screen[e].at < s.at)
      BY <1>1, <1>2, <3>2, <3>3 DEF Sample
    <3> QED
      BY <3>1, <3>2, <3>4 DEF StreamInv, RowsReachTheMap, Shown
  <2> QED
    BY <2>1, <2>2
<1>8. MapComesFromTable'
  <2>1. \A c \in Car : screen'[c] # Nowhere => screen'[c] \in Followed(c)
    BY <1>4, FrameIsNewest DEF StreamInv, MapComesFromTable
  <2>2. d \in Car /\ screen'[d] = Frame[d] /\ Frame[d] # Nowhere /\ Frame[d].at \in Nat
    BY <1>1, <1>3, <1>4, FrameIsNewest DEF Sample
  <2>3. screen'[d] # Nowhere /\ cursor' <= screen'[d].at
    BY <1>3, <2>2
  <2> QED
    BY <1>2, <2>1, <2>2, <2>3 DEF MapComesFromTable
<1> QED
  BY <1>5, <1>6, <1>7, <1>8 DEF StreamInv

LEMMA ConnectionsKeepStream == ASSUME StreamInv, LoseConnection \/ Reconnect PROVE StreamInv'
<1>1. /\ UNCHANGED <<clock, unwritten, stored, boxed, screen, late>>
      /\ connected' \in BOOLEAN /\ losses' \in Nat
      /\ clock \in Nat /\ screen \in [Car -> Sample \cup {Nowhere}]
  <2>1. losses' \in Nat
    BY DEF StreamInv, StreamTypeOK, LoseConnection, Reconnect
  <2>2. connected' \in BOOLEAN
    BY DEF LoseConnection, Reconnect
  <2> QED
    BY <2>1, <2>2 DEF StreamInv, StreamTypeOK, LoseConnection, Reconnect
<1>2. /\ cursor' \in Nat \cup {Nowhere}
      /\ cursor' # Nowhere => \E d \in Car : screen[d] # Nowhere /\ cursor' <= screen[d].at
  <2>1. CASE cursor' \in {cursor, Nowhere}
    BY <2>1 DEF StreamInv, StreamTypeOK, MapComesFromTable
  <2>2. CASE Seen # {} /\ cursor' = Max(Seen)
    <3>1. \A d \in Car : screen[d] # Nowhere => screen[d].at \in Nat /\ screen[d].at <= clock
      BY <1>1 DEF StreamInv, MapComesFromTable, SamplesInOrder, Followed, Sample
    <3>2. Seen \in SUBSET Nat /\ \A t \in Seen : t <= clock
      BY <3>1 DEF Seen
    <3>3. cursor' \in Seen
      BY <1>1, <2>2, <3>2, MaxIsGreatest
    <3>4. PICK d \in Car : screen[d] # Nowhere /\ cursor' = screen[d].at
      BY <3>3 DEF Seen
    <3> QED
      BY <3>1, <3>4
  <2> QED
    BY <2>1, <2>2 DEF LoseConnection, Reconnect
<1>3. StreamTypeOK' /\ SamplesInOrder' /\ RowsReachTheMap' /\ MapComesFromTable'
  BY <1>1, <1>2 DEF StreamInv, StreamTypeOK, SamplesInOrder, RowsReachTheMap, MapComesFromTable,
     Followed, Shown
<1> QED
  BY <1>3 DEF StreamInv

-----------------------------------------------------------------------------
(* The theorems *)

\* What the map shows comes from the table, each vehicle's rows come in order, and the
\* rows a client follows reach its map (telemetry_stream, fetch_live_vehicles).
THEOREM StreamAlwaysOK == StreamSpec => []StreamInv
<1>1. StreamInv /\ [StreamNext]_streamVars => StreamInv'
  <2> SUFFICES ASSUME StreamInv, [StreamNext]_streamVars PROVE StreamInv'
    OBVIOUS
  <2>1. CASE StreamNext
    BY <2>1, FleetKeepsStream, WritesKeepStream, PollKeepsStream, ConnectionsKeepStream
       DEF StreamNext
  <2>2. CASE UNCHANGED streamVars
    BY <2>2 DEF StreamInv, StreamTypeOK, SamplesInOrder, RowsReachTheMap, MapComesFromTable,
       Followed, Shown, streamVars
  <2> QED
    BY <2>1, <2>2
<1> QED
  BY <1>1, StreamStarts, PTL DEF StreamSpec

\* Between two polls of an open connection every vehicle's newest row is on the map, or
\* the next poll brings it, unless it was written after a newer one.
THEOREM ScreenStaysCurrent == StreamSpec => []ScreenIsCurrent
<1>1. StreamInv => ScreenIsCurrent
  <2> SUFFICES ASSUME StreamInv, NEW c \in Car, NEW s \in Newest(Followed(c)),
                      connected, cursor # Nowhere, ~(s.at > cursor), s \notin late[c]
               PROVE  screen[c] = s
    BY DEF ScreenIsCurrent
  <2>1. /\ s \in Followed(c) /\ s \in Sample /\ s.at \in Nat /\ cursor \in Nat
        /\ \A o \in Followed(c) : o.at <= s.at
        /\ screen \in [Car -> Sample \cup {Nowhere}]
    BY DEF Newest, Followed, StreamInv, StreamTypeOK, Sample
  <2>2. PICK d \in Car : screen[d] # Nowhere /\ cursor <= screen[d].at
    BY DEF StreamInv, MapComesFromTable
  <2>3. ~(screen[d].at < s.at)
    <3>1. screen[d].at \in Nat
      BY <2>1, <2>2 DEF Sample
    <3> QED
      BY <2>1, <2>2, <3>1
  <2>4. Shown(c, s)
    BY <2>1, <2>2, <2>3 DEF StreamInv, RowsReachTheMap
  <2>5. screen[c] \in Followed(c) /\ screen[c].at \in Nat
    BY <2>1, <2>4 DEF StreamInv, MapComesFromTable, Shown, Sample
  <2>6. screen[c].at = s.at
    BY <2>1, <2>4, <2>5 DEF Shown
  <2> QED
    BY <2>1, <2>5, <2>6 DEF StreamInv, SamplesInOrder, Followed
<1> QED
  BY <1>1, StreamAlwaysOK, PTL

-----------------------------------------------------------------------------
(* Numbers *)

LEMMA MaxOfTwo ==
  ASSUME NEW a \in Int, NEW b \in Int
  PROVE  Max({a, b}) = IF a >= b THEN a ELSE b
<1>1. \E x \in {a, b} : \A y \in {a, b} : x >= y
  OBVIOUS
<1>2. Max({a, b}) \in {a, b} /\ \A y \in {a, b} : Max({a, b}) >= y
  BY <1>1, Zenon DEF Max
<1> QED
  BY <1>2

LEMMA MinOfTwo ==
  ASSUME NEW a \in Int, NEW b \in Int
  PROVE  Min({a, b}) = IF a <= b THEN a ELSE b
<1>1. \E x \in {a, b} : \A y \in {a, b} : x <= y
  OBVIOUS
<1>2. Min({a, b}) \in {a, b} /\ \A y \in {a, b} : Min({a, b}) <= y
  BY <1>1, Zenon DEF Min
<1> QED
  BY <1>2

\* A set that has zero, and with a number the next one, has them all: of the numbers it
\* lacks none is the least.
LEMMA AllNumbers ==
  ASSUME NEW S, 0 \in S, \A n \in Nat : n \in S => n + 1 \in S
  PROVE  \A n \in Nat : n \in S
<1> DEFINE T == Nat \ S
<1>1. SUFFICES ASSUME T # {} PROVE FALSE
  OBVIOUS
<1>2. IsWellFoundedOn(OpToRel(<, Nat), Nat)
  BY NatLessThanWellFounded
<1>3. PICK x \in T : \A y \in T : ~(<<y, x>> \in OpToRel(<, Nat))
  BY <1>1, <1>2, WFMin
<1>4. x \in Nat /\ x \notin S
  OBVIOUS
<1>5. x # 0
  BY <1>4
<1>6. x - 1 \in Nat /\ x - 1 < x /\ x = (x - 1) + 1
  BY <1>4, <1>5
<1>7. \A y \in T : ~(y < x)
  BY <1>3, <1>4 DEF OpToRel
<1>8. x - 1 \in S
  BY <1>6, <1>7
<1> QED
  BY <1>4, <1>6, <1>8

-----------------------------------------------------------------------------
(* Sums *)

\* One round of the fold: the last element is added to the sum of those before it.
SumStep(e, h, s) == IF s = {} THEN 0 ELSE h[s \ {Max(s)}] + e[Max(s)]

\* The sums of the subsets of the first n elements.
SumsUpTo(e, n, h) == h = [s \in SUBSET (1 .. n) |-> SumStep(e, h, s)]

LEMMA LargestOfNext ==
  ASSUME NEW n \in Nat, NEW s \in SUBSET (1 .. (n + 1)), n + 1 \in s
  PROVE  Max(s) = n + 1
<1>1. \A x \in s : x \in Int /\ x <= n + 1
  OBVIOUS
<1>2. Max(s) \in s /\ \A y \in s : Max(s) >= y
  <2>1. \E x \in s : \A y \in s : x >= y
    BY <1>1
  <2> QED
    BY <2>1, Zenon DEF Max
<1> DEFINE m == Max(s)
<1> HIDE DEF m
<1>3. m \in s /\ m >= n + 1
  BY <1>2 DEF m
<1>4. m \in Int /\ m <= n + 1
  BY <1>1, <1>3
<1> QED
  BY <1>3, <1>4 DEF m

LEMMA SumsExist ==
  ASSUME NEW e
  PROVE  \A n \in Nat : \E h : SumsUpTo(e, n, h)
<1> DEFINE S == {n \in Nat : \E h : SumsUpTo(e, n, h)}
<1>1. 0 \in S
  <2> DEFINE h == [s \in SUBSET (1 .. 0) |-> 0]
  <2>1. \A s \in SUBSET (1 .. 0) : s = {}
    OBVIOUS
  <2>2. h = [s \in SUBSET (1 .. 0) |-> SumStep(e, h, s)]
    BY <2>1 DEF SumStep
  <2> QED
    BY <2>2 DEF SumsUpTo
<1>2. ASSUME NEW n \in Nat, n \in S PROVE n + 1 \in S
  <2>1. PICK h : SumsUpTo(e, n, h)
    BY <1>2
  <2> DEFINE last == e[n + 1]
             g == [s \in SUBSET (1 .. (n + 1)) |->
                     IF n + 1 \in s THEN h[s \ {n + 1}] + last ELSE h[s]]
  <2>2. ASSUME NEW s \in SUBSET (1 .. (n + 1)) PROVE g[s] = SumStep(e, g, s)
    <3>1. CASE n + 1 \in s
      <4>1. Max(s) = n + 1
        BY <3>1, LargestOfNext
      <4>2. s \ {n + 1} \in SUBSET (1 .. (n + 1)) /\ n + 1 \notin s \ {n + 1}
        OBVIOUS
      <4>3. g[s \ {n + 1}] = h[s \ {n + 1}] /\ g[s] = h[s \ {n + 1}] + last
        BY <3>1, <4>2
      <4> HIDE DEF g
      <4> QED
        BY <3>1, <4>1, <4>3 DEF SumStep
    <3>2. CASE n + 1 \notin s
      <4>1. s \in SUBSET (1 .. n)
        BY <3>2
      <4>2. \A x : s \ {x} \in SUBSET (1 .. (n + 1)) /\ n + 1 \notin s \ {x}
        BY <3>2
      <4>3. g[s] = h[s] /\ \A x : g[s \ {x}] = h[s \ {x}]
        BY <3>2, <4>2
      <4> HIDE DEF g
      <4>4. h[s] = SumStep(e, h, s)
        BY <2>1, <4>1 DEF SumsUpTo
      <4> QED
        BY <4>3, <4>4 DEF SumStep
    <3> QED
      BY <3>1, <3>2
  <2>3. g = [s \in SUBSET (1 .. (n + 1)) |-> SumStep(e, g, s)]
    <3>1. \A s \in SUBSET (1 .. (n + 1)) : g[s] = SumStep(e, g, s)
      BY <2>2
    <3>2. g = [s \in SUBSET (1 .. (n + 1)) |-> g[s]]
      OBVIOUS
    <3> HIDE DEF g
    <3> QED
      BY <3>1, <3>2
  <2>4. SumsUpTo(e, n + 1, g)
    BY <2>3, Zenon DEF SumsUpTo
  <2> QED
    BY <2>4
<1> HIDE DEF S
<1>3. \A n \in Nat : n \in S
  BY <1>1, <1>2, AllNumbers
<1> QED
  BY <1>3 DEF S

Agree(e, f, n) == \A i \in 1 .. n : e[i] = f[i]

\* The sum of the first few elements does not depend on how many there are.
LEMMA SumsAgree ==
  ASSUME NEW e, NEW f, NEW n \in Nat, NEW m \in Nat, n <= m, NEW g, NEW h,
         SumsUpTo(e, n, g), SumsUpTo(f, m, h), Agree(e, f, n)
  PROVE  g[1 .. n] = h[1 .. n]
<1> DEFINE S == {k \in Nat : k <= n => g[1 .. k] = h[1 .. k]}
<1>1. 0 \in S
  <2>1. 1 .. 0 = {} /\ {} \in SUBSET (1 .. n) /\ {} \in SUBSET (1 .. m)
    OBVIOUS
  <2> QED
    BY <2>1 DEF SumsUpTo, SumStep
<1>2. ASSUME NEW k \in Nat, k \in S PROVE k + 1 \in S
  <2> SUFFICES ASSUME k + 1 <= n PROVE g[1 .. (k + 1)] = h[1 .. (k + 1)]
    OBVIOUS
  <2> DEFINE s == 1 .. (k + 1)
  <2>1. /\ s \in SUBSET (1 .. n) /\ s \in SUBSET (1 .. m) /\ k + 1 \in s
        /\ s \ {k + 1} = 1 .. k
    OBVIOUS
  <2>2. Max(s) = k + 1
    BY <2>1, LargestOfNext
  <2> HIDE DEF s
  <2>3. /\ g[s] = g[1 .. k] + e[k + 1]
        /\ h[s] = h[1 .. k] + f[k + 1]
    BY <2>1, <2>2 DEF SumsUpTo, SumStep
  <2>4. g[1 .. k] = h[1 .. k] /\ e[k + 1] = f[k + 1]
    BY <1>2 DEF Agree
  <2> QED
    BY <2>3, <2>4 DEF s
<1> HIDE DEF S
<1>3. \A k \in Nat : k \in S
  BY <1>1, <1>2, AllNumbers
<1> QED
  BY <1>3 DEF S

LEMMA AddedIsASum ==
  ASSUME NEW S, NEW values \in Seq(S)
  PROVE  \E h : SumsUpTo(values, Len(values), h) /\ Added(values) = h[1 .. Len(values)]
<1> DEFINE iter == CHOOSE h : h = [s \in SUBSET (DOMAIN values) |->
                        IF s = {} THEN 0
                        ELSE LET x == Max(s) IN h[s \ {x}] + values[x]]
<1>1. Added(values) = iter[DOMAIN values]
  BY Zenon DEF Added, FoldLeft, MapThenFoldSet
<1>2. DOMAIN values = 1 .. Len(values) /\ Len(values) \in Nat
  OBVIOUS
<1>3. \E h : SumsUpTo(values, Len(values), h)
  BY <1>2, SumsExist
<1>4. iter = CHOOSE h : SumsUpTo(values, Len(values), h)
  BY <1>2, Zenon DEF SumsUpTo, SumStep
<1> QED
  BY <1>1, <1>2, <1>3, <1>4, Zenon

LEMMA AddedNothing == Added(<<>>) = 0
<1>1. PICK h : SumsUpTo(<<>>, Len(<<>>), h) /\ Added(<<>>) = h[1 .. Len(<<>>)]
  <2>1. <<>> \in Seq({})
    OBVIOUS
  <2> QED
    BY <2>1, AddedIsASum
<1>2. Len(<<>>) = 0 /\ 1 .. 0 = {} /\ {} \in SUBSET (1 .. 0)
  OBVIOUS
<1> QED
  BY <1>1, <1>2 DEF SumsUpTo, SumStep

\* A sequence's sum is that of all but its last element, and the last one.
LEMMA AddedOneMore ==
  ASSUME NEW S, NEW values \in Seq(S), NEW n \in Nat, n < Len(values)
  PROVE  Added(SubSeq(values, 1, n + 1)) = Added(SubSeq(values, 1, n)) + values[n + 1]
<1> DEFINE a == SubSeq(values, 1, n)
           b == SubSeq(values, 1, n + 1)
<1>1. /\ a \in Seq(S) /\ Len(a) = n /\ \A i \in 1 .. n : a[i] = values[i]
      /\ b \in Seq(S) /\ Len(b) = n + 1 /\ \A i \in 1 .. (n + 1) : b[i] = values[i]
  OBVIOUS
<1> HIDE DEF a, b
<1>2. PICK g : SumsUpTo(a, n, g) /\ Added(a) = g[1 .. n]
  BY <1>1, AddedIsASum
<1>3. PICK h : SumsUpTo(b, n + 1, h) /\ Added(b) = h[1 .. (n + 1)]
  BY <1>1, AddedIsASum
<1>4. g[1 .. n] = h[1 .. n]
  <2>1. \A i \in 1 .. n : i <= n + 1 => a[i] = b[i]
    BY <1>1
  <2> DEFINE m == n + 1
  <2>2. m \in Nat /\ n <= m
    OBVIOUS
  <2> HIDE DEF m
  <2>3. SumsUpTo(a, n, g) /\ SumsUpTo(b, m, h) /\ Agree(a, b, n)
    BY <1>2, <1>3, <2>1 DEF m, Agree
  <2> QED
    BY <2>2, <2>3, SumsAgree
<1> DEFINE s == 1 .. (n + 1)
<1>5. s \in SUBSET (1 .. (n + 1)) /\ n + 1 \in s /\ s \ {n + 1} = 1 .. n
  OBVIOUS
<1>6. Max(s) = n + 1
  BY <1>5, LargestOfNext
<1> HIDE DEF s
<1>7. h[s] = h[1 .. n] + b[n + 1]
  BY <1>3, <1>5, <1>6 DEF SumsUpTo, SumStep
<1> QED
  BY <1>1, <1>2, <1>3, <1>4, <1>7 DEF s, a, b

LEMMA Beginnings ==
  ASSUME NEW S, NEW values \in Seq(S)
  PROVE  /\ SubSeq(values, 1, 0) = <<>>
         /\ SubSeq(values, 1, Len(values)) = values
OBVIOUS

\* Of numbers between multiples of others, the sums are.
LEMMA BeginningsBetween ==
  ASSUME NEW values \in Seq(Int), NEW counts \in Seq(Nat), Len(counts) = Len(values),
         NEW low \in Int, NEW high \in Int,
         \A i \in 1 .. Len(values) : low * counts[i] <= values[i] /\ values[i] <= high * counts[i]
  PROVE  \A n \in 0 .. Len(values) :
           LET a == Added(SubSeq(values, 1, n))
               b == Added(SubSeq(counts, 1, n))
           IN  a \in Int /\ b \in Nat /\ low * b <= a /\ a <= high * b
<1> DEFINE a(n) == Added(SubSeq(values, 1, n))
           b(n) == Added(SubSeq(counts, 1, n))
           P(n) == a(n) \in Int /\ b(n) \in Nat /\ low * b(n) <= a(n) /\ a(n) <= high * b(n)
           S == {n \in Nat : n <= Len(values) => P(n)}
<1>1. 0 \in S
  <2>1. a(0) = 0 /\ b(0) = 0
    BY Beginnings, AddedNothing
  <2> HIDE DEF a, b
  <2> QED
    BY <2>1
<1>2. ASSUME NEW n \in Nat, n \in S PROVE n + 1 \in S
  <2> SUFFICES ASSUME n + 1 <= Len(values) PROVE P(n + 1)
    OBVIOUS
  <2>1. n < Len(values) /\ n < Len(counts) /\ n + 1 \in 1 .. Len(values)
    OBVIOUS
  <2>2. a(n + 1) = a(n) + values[n + 1]
    BY <2>1, AddedOneMore, Zenon
  <2>3. b(n + 1) = b(n) + counts[n + 1]
    BY <2>1, AddedOneMore, Zenon
  <2>4. P(n)
    BY <1>2, <2>1
  <2>5. values[n + 1] \in Int /\ counts[n + 1] \in Nat
        /\ low * counts[n + 1] <= values[n + 1] /\ values[n + 1] <= high * counts[n + 1]
    BY <2>1
  <2> HIDE DEF a, b
  <2> DEFINE x == a(n)
             y == b(n)
             v == values[n + 1]
             c == counts[n + 1]
  <2>6. /\ x \in Int /\ y \in Nat /\ v \in Int /\ c \in Nat
        /\ low * y <= x /\ x <= high * y /\ low * c <= v /\ v <= high * c
    BY <2>4, <2>5
  <2>7. a(n + 1) = x + v /\ b(n + 1) = y + c
    BY <2>2, <2>3
  <2> HIDE DEF x, y, v, c
  <2>8. /\ low * (y + c) = low * y + low * c
        /\ high * (y + c) = high * y + high * c
    BY <2>6
  <2>9. low * y \in Int /\ low * c \in Int /\ high * y \in Int /\ high * c \in Int
    BY <2>6
  <2> QED
    BY <2>6, <2>7, <2>8, <2>9
<1> HIDE DEF S
<1>3. \A n \in Nat : n \in S
  BY <1>1, <1>2, AllNumbers
<1>4. ASSUME NEW n \in 0 .. Len(values) PROVE P(n)
  BY <1>3 DEF S
<1> QED
  BY <1>4

LEMMA AddedBetween ==
  ASSUME NEW values \in Seq(Int), NEW counts \in Seq(Nat), Len(counts) = Len(values),
         NEW low \in Int, NEW high \in Int,
         \A i \in 1 .. Len(values) : low * counts[i] <= values[i] /\ values[i] <= high * counts[i]
  PROVE  /\ Added(values) \in Int /\ Added(counts) \in Nat
         /\ low * Added(counts) <= Added(values)
         /\ Added(values) <= high * Added(counts)
<1>1. Len(values) \in 0 .. Len(values)
  OBVIOUS
<1>2. SubSeq(values, 1, Len(values)) = values /\ SubSeq(counts, 1, Len(values)) = counts
  BY Beginnings
<1> QED
  BY <1>1, <1>2, BeginningsBetween

LEMMA AddedNaturals ==
  ASSUME NEW counts \in Seq(Nat)
  PROVE  /\ Added(counts) \in Nat
         /\ \A n \in 0 .. Len(counts) : Added(SubSeq(counts, 1, n)) \in Nat
<1>1. counts \in Seq(Int) /\ Len(counts) = Len(counts) /\ 0 \in Int /\ 1 \in Int
  OBVIOUS
<1>2. \A i \in 1 .. Len(counts) : 0 * counts[i] <= counts[i] /\ counts[i] <= 1 * counts[i]
  OBVIOUS
<1>3. \A n \in 0 .. Len(counts) : Added(SubSeq(counts, 1, n)) \in Nat
  BY <1>1, <1>2, BeginningsBetween, Zenon
<1>4. Added(counts) \in Nat
  BY <1>1, <1>2, AddedBetween, Zenon
<1> QED
  BY <1>3, <1>4

\* A number added makes a sum of numbers no smaller.
LEMMA SumsGrow ==
  ASSUME NEW counts \in Seq(Nat), NEW m \in 0 .. Len(counts), NEW n \in m .. Len(counts)
  PROVE  Added(SubSeq(counts, 1, m)) <= Added(SubSeq(counts, 1, n))
<1> DEFINE b(k) == Added(SubSeq(counts, 1, k))
           S == {k \in Nat : m + k <= Len(counts) => b(m) <= b(m + k)}
<1>1. \A k \in 0 .. Len(counts) : b(k) \in Nat
  BY AddedNaturals
<1>2. 0 \in S
  BY <1>1
<1>3. ASSUME NEW k \in Nat, k \in S PROVE k + 1 \in S
  <2> SUFFICES ASSUME m + (k + 1) <= Len(counts) PROVE b(m) <= b(m + (k + 1))
    OBVIOUS
  <2> DEFINE j == m + k
  <2>1. j \in Nat /\ j < Len(counts) /\ m + (k + 1) = j + 1 /\ j + 1 \in 1 .. Len(counts)
    OBVIOUS
  <2>2. b(m) <= b(j)
    BY <1>3, <2>1
  <2> HIDE DEF j
  <2>3. b(j + 1) = b(j) + counts[j + 1]
    BY <2>1, AddedOneMore, Zenon
  <2>4. counts[j + 1] \in Nat
    BY <2>1
  <2>5. b(m) \in Nat /\ b(j) \in Nat
    BY <1>1, <2>1
  <2>6. b(m + (k + 1)) = b(j + 1)
    BY <2>1
  <2> HIDE DEF b
  <2> QED
    BY <2>2, <2>3, <2>4, <2>5, <2>6
<1> HIDE DEF S
<1>4. \A k \in Nat : k \in S
  BY <1>2, <1>3, AllNumbers
<1>5. n - m \in Nat /\ m + (n - m) = n
  OBVIOUS
<1>6. n - m \in S
  BY <1>4, <1>5
<1> QED
  BY <1>5, <1>6 DEF S

-----------------------------------------------------------------------------
(* Lists *)

\* An order that tells any two rows apart.
Orders(before, rows) ==
  /\ \A a \in rows : <<a, a>> \notin before
  /\ \A a, b \in rows : a # b => <<a, b>> \in before \/ <<b, a>> \in before
  /\ \A a, b, c \in rows : <<a, b>> \in before /\ <<b, c>> \in before => <<a, c>> \in before

\* Each row is at one place of the list, behind those before it.
ListsInOrder(list, rows, before) ==
  LET n == Cardinality(rows)
  IN  /\ n \in Nat /\ list = [k \in 1 .. n |-> list[k]]
      /\ \A k \in 1 .. n : list[k] \in rows
      /\ \A a \in rows : \E k \in 1 .. n : list[k] = a
      /\ \A j, k \in 1 .. n : j < k => list[j] # list[k] /\ <<list[j], list[k]>> \in before

LEMMA SortedLists ==
  ASSUME NEW rows, IsFiniteSet(rows), NEW before, Orders(before, rows)
  PROVE  ListsInOrder(Sorted(rows, before), rows, before)
<1> DEFINE n == Cardinality(rows)
           below(e) == {f \in rows : <<f, e>> \in before}
           rank == [e \in rows |-> Cardinality(below(e))]
           list == Sorted(rows, before)
<1>1. n \in Nat
  BY FS_CardinalityType
<1>2. \A e \in rows : IsFiniteSet(below(e)) /\ rank[e] \in Nat
  <2> TAKE e \in rows
  <2>1. below(e) \subseteq rows
    OBVIOUS
  <2>2. IsFiniteSet(below(e)) /\ Cardinality(below(e)) \in Nat
    BY <2>1, FS_Subset, FS_CardinalityType
  <2> QED
    BY <2>2
<1>3. ASSUME NEW a \in rows, NEW b \in rows, <<a, b>> \in before PROVE rank[a] < rank[b]
  <2>1. below(a) \subseteq below(b) /\ a \in below(b) /\ a \notin below(a)
    BY <1>3 DEF Orders
  <2>2. IsFiniteSet(below(b)) /\ below(a) # below(b)
    BY <1>2, <2>1
  <2> HIDE DEF below
  <2>3. /\ Cardinality(below(a)) <= Cardinality(below(b))
        /\ Cardinality(below(a)) # Cardinality(below(b))
    BY <2>1, <2>2, FS_Subset
  <2>4. rank[a] \in Nat /\ rank[b] \in Nat /\ rank[a] = Cardinality(below(a))
        /\ rank[b] = Cardinality(below(b))
    BY <1>2
  <2> QED
    BY <2>3, <2>4
<1>4. \A e \in rows : rank[e] < n
  <2> TAKE e \in rows
  <2>1. below(e) \subseteq rows /\ e \notin below(e)
    BY DEF Orders
  <2>2. below(e) # rows
    BY <2>1
  <2> HIDE DEF below
  <2>3. Cardinality(below(e)) <= n /\ Cardinality(below(e)) # n
    BY <2>1, <2>2, FS_Subset
  <2>4. rank[e] = Cardinality(below(e)) /\ rank[e] \in Nat
    BY <1>2
  <2> QED
    BY <1>1, <2>3, <2>4
<1>5. \A e \in rows : rank[e] = Cardinality(below(e))
  OBVIOUS
<1>6. \A e \in rows : rank[e] \in Nat /\ rank[e] < n
  BY <1>2, <1>4
<1>7. \A a, b \in rows : <<a, b>> \in before => rank[a] < rank[b]
  BY <1>3
<1> HIDE DEF rank, n, below
<1>8. \A a, b \in rows : rank[a] = rank[b] => a = b
  <2> SUFFICES ASSUME NEW a \in rows, NEW b \in rows, rank[a] = rank[b], a # b PROVE FALSE
    OBVIOUS
  <2>1. rank[a] \in Nat /\ rank[b] \in Nat
    BY <1>6
  <2>2. <<a, b>> \notin before /\ <<b, a>> \notin before
    BY <1>7, <2>1
  <2> QED
    BY <2>2 DEF Orders
<1> DEFINE place == [e \in rows |-> rank[e] + 1]
<1>9. \A e \in rows : place[e] = rank[e] + 1 /\ place[e] \in 1 .. n
  BY <1>1, <1>6
<1>10. place \in Injection(rows, 1 .. n)
  <2>1. \A a, b \in rows : place[a] = place[b] => a = b
    BY <1>6, <1>8, <1>9
  <2>2. place \in [rows -> 1 .. n]
    BY <1>9
  <2> HIDE DEF place
  <2> QED
    BY <2>1, <2>2 DEF Injection, IsInjective
<1>11. IsFiniteSet(1 .. n) /\ Cardinality(1 .. n) = n /\ Cardinality(rows) = n
  BY <1>1, FS_Interval DEF n
<1> HIDE DEF place
<1>12. place \in Surjection(rows, 1 .. n)
  BY <1>10, <1>11, FS_Injection
<1>13. \A k \in 1 .. n : \E e \in rows : place[e] = k
  BY <1>12 DEF Surjection
<1>14. list = [k \in 1 .. n |-> CHOOSE e \in rows : Cardinality(below(e)) = k - 1]
  BY DEF Sorted, n, below
<1> HIDE DEF list
<1>15. list = [k \in 1 .. n |-> list[k]]
  BY <1>14
<1>16. \A k \in 1 .. n : list[k] = CHOOSE e \in rows : Cardinality(below(e)) = k - 1
  BY <1>14
<1>17. \A k \in 1 .. n : list[k] \in rows /\ place[list[k]] = k
  <2> TAKE k \in 1 .. n
  <2>1. PICK e \in rows : place[e] = k
    BY <1>13
  <2>2. Cardinality(below(e)) = k - 1
    BY <1>5, <1>6, <1>9, <2>1
  <2>3. list[k] \in rows /\ Cardinality(below(list[k])) = k - 1
    BY <1>16, <2>2, Zenon
  <2> QED
    BY <1>1, <1>5, <1>6, <1>9, <2>3
<1>18. \A a \in rows : \E k \in 1 .. n : list[k] = a
  <2> TAKE a \in rows
  <2>1. place[a] \in 1 .. n
    BY <1>9
  <2>2. list[place[a]] \in rows /\ place[list[place[a]]] = place[a]
    BY <1>17, <2>1
  <2>3. rank[list[place[a]]] = rank[a]
    BY <1>6, <1>9, <2>2
  <2> QED
    BY <1>8, <2>1, <2>2, <2>3
<1>19. ASSUME NEW j \in 1 .. n, NEW k \in 1 .. n, j < k
       PROVE  list[j] # list[k] /\ <<list[j], list[k]>> \in before
  <2> DEFINE a == list[j]
             b == list[k]
  <2>1. a \in rows /\ b \in rows /\ place[a] = j /\ place[b] = k
    BY <1>17
  <2> HIDE DEF a, b
  <2>2. rank[a] < rank[b] /\ rank[a] \in Nat /\ rank[b] \in Nat
    BY <1>1, <1>6, <1>9, <1>19, <2>1
  <2>3. a # b
    BY <2>2
  <2>4. <<b, a>> \notin before
    BY <1>7, <2>1, <2>2
  <2> QED
    BY <2>1, <2>3, <2>4 DEF Orders, a, b
<1> QED
  BY <1>1, <1>15, <1>17, <1>18, <1>19 DEF ListsInOrder, n, list

\* Each of some rows with a key is at one place of their list.
LEMMA ListedById ==
  ASSUME NEW rows, Keyed(rows), \A a \in rows : a.id \in Int
  PROVE  LET list == ById(rows)
             n == Cardinality(rows)
         IN  /\ n \in Nat /\ list = [k \in 1 .. n |-> list[k]]
             /\ \A k \in 1 .. n : list[k] \in rows
             /\ \A a \in rows : \E k \in 1 .. n : list[k] = a
             /\ \A j, k \in 1 .. n : j < k => list[j] # list[k]
<1> DEFINE before == {p \in rows \X rows : p[1].id < p[2].id}
           list == ById(rows)
<1>1. \A a, b \in rows : <<a, b>> \in before <=> a.id < b.id
  OBVIOUS
<1>2. list = Sorted(rows, before)
  BY DEF ById
<1> HIDE DEF before
<1>3. IsFiniteSet(rows) /\ \A a, b \in rows : a.id = b.id => a = b
  BY DEF Keyed
<1>4. Orders(before, rows)
  BY <1>1, <1>3 DEF Orders
<1>5. ListsInOrder(list, rows, before)
  BY <1>2, <1>3, <1>4, SortedLists
<1> HIDE DEF list
<1> QED
  BY <1>5 DEF ListsInOrder, list

-----------------------------------------------------------------------------

\* One round of the flattening.
JoinStep(seqs, f, i) == IF i = 1 THEN seqs[i] ELSE f[i - 1] \o seqs[i]

JoinedUpTo(seqs, n, f) == f = [i \in 1 .. n |-> JoinStep(seqs, f, i)]

LEMMA JoinsExist ==
  ASSUME NEW seqs
  PROVE  \A n \in Nat : \E f : JoinedUpTo(seqs, n, f)
<1> DEFINE S == {n \in Nat : \E f : JoinedUpTo(seqs, n, f)}
<1>1. 0 \in S
  <2> DEFINE f == [i \in 1 .. 0 |-> 0]
  <2>1. f = [i \in 1 .. 0 |-> JoinStep(seqs, f, i)]
    OBVIOUS
  <2> QED
    BY <2>1 DEF JoinedUpTo
<1>2. ASSUME NEW n \in Nat, n \in S PROVE n + 1 \in S
  <2>1. PICK f : JoinedUpTo(seqs, n, f)
    BY <1>2
  <2> DEFINE last == IF n = 0 THEN seqs[1] ELSE f[n] \o seqs[n + 1]
             g == [i \in 1 .. (n + 1) |-> IF i = n + 1 THEN last ELSE f[i]]
  <2>2. ASSUME NEW i \in 1 .. (n + 1) PROVE g[i] = JoinStep(seqs, g, i)
    <3>1. CASE i = n + 1 /\ n = 0
      BY <3>1 DEF JoinStep
    <3>2. CASE i = n + 1 /\ n # 0
      <4>1. n \in 1 .. (n + 1) /\ n # n + 1 /\ i - 1 = n /\ i # 1
        BY <3>2
      <4>2. g[n] = f[n] /\ g[i] = f[n] \o seqs[n + 1]
        BY <3>2, <4>1
      <4> HIDE DEF g
      <4> QED
        BY <3>2, <4>1, <4>2 DEF JoinStep
    <3>3. CASE i # n + 1
      <4>1. i \in 1 .. n /\ (i # 1 => i - 1 \in 1 .. (n + 1) /\ i - 1 # n + 1)
        BY <3>3
      <4>2. g[i] = f[i] /\ (i # 1 => g[i - 1] = f[i - 1])
        BY <3>3, <4>1
      <4>3. f[i] = JoinStep(seqs, f, i)
        BY <2>1, <4>1 DEF JoinedUpTo
      <4> HIDE DEF g
      <4> QED
        BY <4>2, <4>3 DEF JoinStep
    <3> QED
      BY <3>1, <3>2, <3>3
  <2>3. g = [i \in 1 .. (n + 1) |-> g[i]]
    OBVIOUS
  <2> HIDE DEF g
  <2>4. g = [i \in 1 .. (n + 1) |-> JoinStep(seqs, g, i)]
    BY <2>2, <2>3
  <2>5. JoinedUpTo(seqs, n + 1, g)
    BY <2>4, Zenon DEF JoinedUpTo
  <2> QED
    BY <2>5
<1> HIDE DEF S
<1>3. \A n \in Nat : n \in S
  BY <1>1, <1>2, AllNumbers
<1> QED
  BY <1>3 DEF S

LEMMA FlattenJoins ==
  ASSUME NEW seqs, Len(seqs) \in Nat \ {0}
  PROVE  \E f : JoinedUpTo(seqs, Len(seqs), f) /\ FlattenSeq(seqs) = f[Len(seqs)]
<1> DEFINE n == Len(seqs)
           join == CHOOSE f : f = [i \in 1 .. Len(seqs) |-> IF i = 1 THEN seqs[i] ELSE f[i - 1] \o seqs[i]]
<1>1. FlattenSeq(seqs) = join[Len(seqs)]
  BY Zenon DEF FlattenSeq
<1>2. \E f : JoinedUpTo(seqs, n, f)
  BY JoinsExist
<1>3. join = CHOOSE f : JoinedUpTo(seqs, n, f)
  BY Zenon DEF JoinedUpTo, JoinStep
<1> QED
  BY <1>1, <1>2, <1>3, Zenon

LEMMA JoinOfTwo ==
  ASSUME NEW S, NEW a \in Seq(S), NEW b \in Seq(S), NEW c, c = a \o b
  PROVE  /\ c \in Seq(S) /\ Len(c) = Len(a) + Len(b) /\ Len(a) \in Nat /\ Len(b) \in Nat
         /\ \A p \in 1 .. Len(a) : c[p] = a[p]
         /\ \A q \in 1 .. Len(b) : c[Len(a) + q] = b[q]
         /\ \A p \in 1 .. Len(c) : p \in 1 .. Len(a) \/ (p - Len(a) \in 1 .. Len(b))
         /\ \A p \in 1 .. Len(a) : p \in 1 .. Len(c)
         /\ \A q \in 1 .. Len(b) : Len(a) + q \in 1 .. Len(c)
<1>1. c \in Seq(S) /\ Len(c) = Len(a) + Len(b) /\ Len(a) \in Nat /\ Len(b) \in Nat
  OBVIOUS
<1>2. \A p \in 1 .. Len(a) : c[p] = a[p]
  OBVIOUS
<1>3. \A q \in 1 .. Len(b) : c[Len(a) + q] = b[q]
  OBVIOUS
<1> DEFINE m == Len(a)
           n == Len(b)
           k == Len(c)
<1>4. k = m + n /\ m \in Nat /\ n \in Nat
  BY <1>1
<1> HIDE DEF m, n, k
<1>5. /\ \A p \in 1 .. k : p \in 1 .. m \/ (p - m \in 1 .. n)
      /\ \A p \in 1 .. m : p \in 1 .. k
      /\ \A q \in 1 .. n : m + q \in 1 .. k
  BY <1>4
<1> QED
  BY <1>1, <1>2, <1>3, <1>5 DEF m, n, k

\* Lists without repetitions, each of elements of its own, one after the other.
LEMMA FlattenKeepsOrder ==
  ASSUME NEW n \in Nat \ {0}, NEW S, NEW seqs \in Seq(Seq(S)), Len(seqs) = n, NEW owner,
         \A i \in 1 .. n : \A p \in 1 .. Len(seqs[i]) : owner[seqs[i][p]] = i,
         \A i \in 1 .. n : \A p, q \in 1 .. Len(seqs[i]) : p < q => seqs[i][p] # seqs[i][q]
  PROVE  LET flat == FlattenSeq(seqs)
         IN  /\ flat \in Seq(S)
             /\ \A p \in 1 .. Len(flat) : \E i \in 1 .. n : \E q \in 1 .. Len(seqs[i]) : flat[p] = seqs[i][q]
             /\ \A i \in 1 .. n : \A q \in 1 .. Len(seqs[i]) : \E p \in 1 .. Len(flat) : flat[p] = seqs[i][q]
             /\ \A p, q \in 1 .. Len(flat) :
                  p < q => flat[p] # flat[q] /\ owner[flat[p]] <= owner[flat[q]]
<1>1. PICK f : JoinedUpTo(seqs, n, f) /\ FlattenSeq(seqs) = f[n]
  BY FlattenJoins
<1> DEFINE From(k, x) == \E i \in 1 .. k : \E q \in 1 .. Len(seqs[i]) : x = seqs[i][q]
           P(k) == /\ f[k] \in Seq(S)
                   /\ \A p \in 1 .. Len(f[k]) : From(k, f[k][p])
                   /\ \A i \in 1 .. k : \A q \in 1 .. Len(seqs[i]) :
                        \E p \in 1 .. Len(f[k]) : f[k][p] = seqs[i][q]
                   /\ \A p, q \in 1 .. Len(f[k]) :
                        p < q => f[k][p] # f[k][q] /\ owner[f[k][p]] <= owner[f[k][q]]
           T == {k \in Nat : k + 1 <= n => P(k + 1)}
<1>2. \A i \in 1 .. n : seqs[i] \in Seq(S)
  OBVIOUS
<1>3. 0 \in T
  <2>1. 1 \in 1 .. n /\ f[1] = seqs[1]
    BY <1>1 DEF JoinedUpTo, JoinStep
  <2>2. \A p \in 1 .. Len(seqs[1]) : owner[seqs[1][p]] = 1
    BY <2>1
  <2>3. P(1)
    BY <1>2, <2>1, <2>2
  <2> QED
    BY <2>3
<1>4. ASSUME NEW k \in Nat, k \in T PROVE k + 1 \in T
  <2> SUFFICES ASSUME (k + 1) + 1 <= n PROVE P((k + 1) + 1)
    <3> HIDE DEF P
    <3> QED
      OBVIOUS
  <2> DEFINE m == k + 1
             a == f[m]
             b == seqs[m + 1]
             c == f[m + 1]
  <2>1. m \in 1 .. n /\ m + 1 \in 1 .. n /\ m \in Nat /\ m + 1 # 1 /\ (m + 1) - 1 = m
    OBVIOUS
  <2>2. P(m)
    <3>1. k + 1 <= n
      BY <2>1
    <3> HIDE DEF P
    <3> QED
      BY <1>4, <3>1
  <2>3. c = a \o b
    BY <1>1, <2>1 DEF JoinedUpTo, JoinStep
  <2>4. a \in Seq(S) /\ b \in Seq(S)
    BY <1>2, <2>1, <2>2
  <2> HIDE DEF m
  <2>5. /\ c \in Seq(S) /\ Len(c) = Len(a) + Len(b) /\ Len(a) \in Nat /\ Len(b) \in Nat
        /\ \A p \in 1 .. Len(a) : c[p] = a[p]
        /\ \A q \in 1 .. Len(b) : c[Len(a) + q] = b[q]
        /\ \A p \in 1 .. Len(c) : p \in 1 .. Len(a) \/ (p - Len(a) \in 1 .. Len(b))
        /\ \A p \in 1 .. Len(a) : p \in 1 .. Len(c)
        /\ \A q \in 1 .. Len(b) : Len(a) + q \in 1 .. Len(c)
    <3> HIDE DEF a, b, c
    <3> QED
      BY <2>3, <2>4, JoinOfTwo
  <2>6. \A p \in 1 .. Len(a) : From(m, a[p])
    BY <2>2
  <2>7. \A p \in 1 .. Len(a) : owner[a[p]] \in 1 .. m
    <3> TAKE p \in 1 .. Len(a)
    <3>1. PICK i \in 1 .. m : \E q \in 1 .. Len(seqs[i]) : a[p] = seqs[i][q]
      BY <2>6
    <3>2. i \in 1 .. n
      BY <2>1
    <3> QED
      BY <3>1, <3>2
  <2>8. \A q \in 1 .. Len(b) : owner[b[q]] = m + 1
    BY <2>1
  <2>9. \A p \in 1 .. Len(c) : From(m + 1, c[p])
    <3> TAKE p \in 1 .. Len(c)
    <3>1. CASE p \in 1 .. Len(a)
      <4>1. c[p] = a[p]
        BY <2>5, <3>1
      <4>2. PICK i \in 1 .. m : \E q \in 1 .. Len(seqs[i]) : a[p] = seqs[i][q]
        BY <2>6, <3>1
      <4>3. i \in 1 .. (m + 1)
        BY <2>1
      <4> QED
        BY <4>1, <4>2, <4>3
    <3>2. CASE p - Len(a) \in 1 .. Len(b)
      <4>1. c[p] = b[p - Len(a)] /\ m + 1 \in 1 .. (m + 1)
        <5>1. Len(a) + (p - Len(a)) = p
          BY <2>5, <3>2
        <5> QED
          BY <2>1, <2>5, <3>2, <5>1
      <4> QED
        BY <3>2, <4>1
    <3> QED
      BY <2>5, <3>1, <3>2
  <2>10. \A i \in 1 .. (m + 1) : \A q \in 1 .. Len(seqs[i]) : \E p \in 1 .. Len(c) : c[p] = seqs[i][q]
    <3> SUFFICES ASSUME NEW i \in 1 .. (m + 1), NEW q \in 1 .. Len(seqs[i])
                 PROVE  \E p \in 1 .. Len(c) : c[p] = seqs[i][q]
      OBVIOUS
    <3>1. CASE i = m + 1
      <4>1. q \in 1 .. Len(b) /\ b[q] = seqs[i][q]
        BY <3>1
      <4>2. c[Len(a) + q] = b[q]
        BY <2>5, <4>1
      <4>3. Len(a) + q \in 1 .. Len(c)
        BY <2>5, <4>1
      <4> QED
        BY <4>1, <4>2, <4>3
    <3>2. CASE i \in 1 .. m
      <4>1. PICK p \in 1 .. Len(a) : a[p] = seqs[i][q]
        BY <2>2, <3>2
      <4>2. p \in 1 .. Len(c)
        BY <2>5
      <4>3. c[p] = a[p]
        BY <2>5
      <4> QED
        BY <4>1, <4>2, <4>3
    <3>3. i = m + 1 \/ i \in 1 .. m
      BY <2>1
    <3> QED
      BY <3>1, <3>2, <3>3
  <2>11. ASSUME NEW p \in 1 .. Len(c), NEW q \in 1 .. Len(c), p < q
         PROVE  c[p] # c[q] /\ owner[c[p]] <= owner[c[q]]
    <3> DEFINE y == q - Len(a)
               x == p - Len(a)
    <3>1. CASE q \in 1 .. Len(a)
      <4>1. p \in 1 .. Len(a)
        BY <2>5, <2>11, <3>1
      <4>2. a[p] # a[q] /\ owner[a[p]] <= owner[a[q]]
        BY <2>2, <2>11, <3>1, <4>1
      <4> QED
        BY <2>5, <3>1, <4>1, <4>2
    <3>2. CASE p \in 1 .. Len(a) /\ y \in 1 .. Len(b)
      <4>1. Len(a) + y = q
        BY <2>5
      <4> HIDE DEF y
      <4>2. c[p] = a[p] /\ c[q] = b[y]
        BY <2>5, <3>2, <4>1
      <4>3. owner[c[p]] \in 1 .. m /\ owner[c[q]] = m + 1
        BY <2>7, <2>8, <3>2, <4>2
      <4> QED
        BY <2>1, <4>3
    <3>3. CASE x \in 1 .. Len(b) /\ y \in 1 .. Len(b)
      <4>1. Len(a) + y = q /\ Len(a) + x = p /\ x < y
        BY <2>5, <2>11
      <4> HIDE DEF x, y
      <4>2. c[p] = b[x] /\ c[q] = b[y]
        BY <2>5, <3>3, <4>1
      <4>3. b[x] # b[y]
        BY <2>1, <3>3, <4>1
      <4>4. owner[c[p]] = m + 1 /\ owner[c[q]] = m + 1
        BY <2>8, <3>3, <4>2
      <4> QED
        BY <2>1, <4>2, <4>3, <4>4
    <3>4. (p \in 1 .. Len(a) \/ x \in 1 .. Len(b)) /\ (q \in 1 .. Len(a) \/ y \in 1 .. Len(b))
      BY <2>5
    <3>5. x \in 1 .. Len(b) /\ q \in 1 .. Len(a) => FALSE
      BY <2>5, <2>11
    <3> QED
      BY <3>1, <3>2, <3>3, <3>4, <3>5
  <2>12. P(m + 1)
    BY <2>5, <2>9, <2>10, <2>11
  <2> QED
    BY <2>12 DEF m
<1> HIDE DEF T
<1>5. \A k \in Nat : k \in T
  BY <1>3, <1>4, AllNumbers
<1>6. n - 1 \in Nat /\ (n - 1) + 1 = n
  OBVIOUS
<1>7. P(n)
  <2>1. n - 1 \in T
    BY <1>5, <1>6
  <2>2. (n - 1) + 1 <= n
    BY <1>6
  <2>3. P((n - 1) + 1)
    BY <2>1, <2>2 DEF T
  <2> QED
    BY <1>6, <2>3
<1> QED
  BY <1>1, <1>7

-----------------------------------------------------------------------------
(* The energy of a segment *)

\* Like SegmentConditions, at any speed and on any gradient.
MeasuredConditions ==
  [cells : Nat, speed : Int, grade : Int, temp : (-60) .. 60,
   battery : Int \cup {Unknown}, accel : Int, severity : 0 .. 3, headwind : Int,
   duration : Nat \cup {Unknown}]

\* A quotient and what is left over.
LEMMA Euclid ==
  ASSUME NEW a \in Int, NEW d \in Nat \ {0}
  PROVE  /\ a \div d \in Int
         /\ d * (a \div d) <= a
         /\ a < d * (a \div d) + d
OBVIOUS

\* The product grows with a factor.
LEMMA ProductMonotone ==
  ASSUME NEW a \in Int, NEW b \in Int, NEW d \in Nat, a <= b
  PROVE  d * a <= d * b
<1>1. b - a \in Nat
  OBVIOUS
<1>2. d * (b - a) \in Nat
  BY <1>1
<1>3. d * (b - a) = d * b - d * a /\ d * a \in Int /\ d * b \in Int
  OBVIOUS
<1> QED
  BY <1>2, <1>3

LEMMA HvacNeverNegative ==
  ASSUME NEW x \in Int
  PROVE  Hvac(x) \in Nat
<1> DEFINE curve == <<<<-20, 45>>, <<-10, 35>>, <<0, 22>>, <<10, 9>>, <<20, 0>>,
                <<25, 5>>, <<30, 12>>, <<35, 20>>, <<45, 32>>>>
           at(j) == curve[j - 1][1] <= x /\ x < curve[j][1]
           i == CHOOSE j \in 2 .. Len(curve) : at(j)
           between == curve[i - 1][2]
                        + ((x - curve[i - 1][1]) * (curve[i][2] - curve[i - 1][2]))
                            \div (curve[i][1] - curve[i - 1][1])
<1>1. Len(curve) = 9 /\ Last(curve) = <<45, 32>> /\ curve[1] = <<-20, 45>>
  BY DEF Last
<1>2. Hvac(x) = IF x <= curve[1][1] THEN curve[1][2]
                ELSE IF x >= Last(curve)[1] THEN Last(curve)[2] ELSE between
  BY Zenon DEF Hvac, Interpolate
<1>3. Hvac(x) = IF x <= -20 THEN 45 ELSE IF x >= 45 THEN 32 ELSE between
  <2> HIDE DEF curve, between
  <2> QED
    BY <1>1, <1>2
<1>4. CASE x <= -20 \/ x >= 45
  <2> HIDE DEF between
  <2> QED
    BY <1>3, <1>4
<1>5. CASE -20 < x /\ x < 45
  <2>1. \E j \in 2 .. Len(curve) : at(j)
    <3>1. at(2) \/ at(3) \/ at(4) \/ at(5) \/ at(6) \/ at(7) \/ at(8) \/ at(9)
      BY <1>5
    <3> QED
      BY <1>1, <3>1
  <2>2. i \in 2 .. 9 /\ at(i)
    <3> HIDE DEF at
    <3>1. i \in 2 .. Len(curve) /\ at(i)
      BY <2>1, Zenon
    <3> QED
      BY <1>1, <3>1
  <2> HIDE DEF i
  <2>3. i \in {2, 3, 4, 5, 6, 7, 8, 9}
    BY <2>2
  <2>4. between \in Nat
    BY <2>2, <2>3
  <2> HIDE DEF between
  <2> QED
    BY <1>3, <1>5, <2>4
<1> QED
  BY <1>4, <1>5

\* A pack no warmer has no less resistance.
LEMMA ColdFactorGrows ==
  ASSUME NEW p \in Int, NEW b \in Int, b <= p
  PROVE  /\ ColdFactor(p) \in Nat \ {0} /\ ColdFactor(b) \in Nat \ {0}
         /\ ColdFactor(p) <= ColdFactor(b)
<1>1. \A t \in Int : Max({0, 15 - t}) = IF 0 >= 15 - t THEN 0 ELSE 15 - t
  BY MaxOfTwo
<1> QED
  BY <1>1 DEF ColdFactor

\* The power at the battery has the sign of that at the wheel, and a colder pack never
\* makes it smaller.
LEMMA ColdPowerGrows ==
  ASSUME NEW w \in Int, NEW p \in Int, NEW b \in Int, b <= p
  PROVE  /\ BatteryPower(w, p) \in Int /\ BatteryPower(w, b) \in Int
         /\ BatteryPower(w, p) <= BatteryPower(w, b)
         /\ w >= 0 => BatteryPower(w, p) >= 0
         /\ w <= 0 => BatteryPower(w, b) <= 0
<1> DEFINE P == ColdFactor(p)
           B == ColdFactor(b)
<1>1. P \in Nat \ {0} /\ B \in Nat \ {0} /\ P <= B
  BY ColdFactorGrows
<1> HIDE DEF P, B
<1>2. CASE w >= 0
  <2>1. BatteryPower(w, p) = (w * P) \div 900 /\ BatteryPower(w, b) = (w * B) \div 900
    BY <1>2 DEF BatteryPower, P, B
  <2>2. w * P \in Nat /\ w * B \in Nat /\ w * P <= w * B
    BY <1>1, <1>2, ProductMonotone
  <2>3. \A x, y \in Nat : x <= y => x \div 900 \in Nat /\ x \div 900 <= y \div 900
    OBVIOUS
  <2>4. w = 0 => w * B = 0
    BY <1>1
  <2>5. 0 \div 900 = 0
    OBVIOUS
  <2> QED
    BY <1>2, <2>1, <2>2, <2>3, <2>4, <2>5
<1>3. CASE w < 0
  <2> DEFINE a == w * 650
             u == a \div P
             v == a \div B
  <2>1. /\ BatteryPower(w, p) = Max({RegenFloor, u})
        /\ BatteryPower(w, b) = Max({RegenFloor, v})
    BY <1>3 DEF BatteryPower, P, B
  <2>2. a \in Int /\ a < 0
    BY <1>3
  <2> HIDE DEF a
  <2>3. /\ u \in Int /\ P * u <= a /\ a < P * u + P
        /\ v \in Int /\ B * v <= a /\ a < B * v + B
    BY <1>1, <2>2, Euclid
  <2> HIDE DEF u, v
  <2>4. u < 0 /\ v < 0
    <3>1. \A f \in Nat \ {0}, q \in Int : q >= 0 => f * q >= 0
      OBVIOUS
    <3> QED
      BY <1>1, <2>2, <2>3, <3>1
  <2>5. u <= v
    <3>1. SUFFICES ASSUME v + 1 <= u PROVE FALSE
      BY <2>3
    <3>2. B * (v + 1) <= B * u
      BY <1>1, <2>3, <3>1, ProductMonotone
    <3>3. B * (v + 1) = B * v + B /\ B * u \in Int /\ B * v \in Int /\ P * u \in Int
      BY <1>1, <2>3
    <3>4. (-u) * P <= (-u) * B /\ (-u) * P = -(P * u) /\ (-u) * B = -(B * u)
      BY <1>1, <2>3, <2>4, ProductMonotone
    <3>5. \A x, y, z \in Int : x + B <= y /\ z >= y /\ z <= a => ~(a < x + B)
      BY <1>1, <2>2
    <3> QED
      BY <1>1, <2>2, <2>3, <3>2, <3>3, <3>4, <3>5
  <2>6. \A x \in Int : Max({RegenFloor, x}) = IF RegenFloor >= x THEN RegenFloor ELSE x
    BY MaxOfTwo DEF RegenFloor
  <2> QED
    BY <1>3, <2>1, <2>3, <2>4, <2>5, <2>6 DEF RegenFloor
<1> QED
  BY <1>2, <1>3

\* A sum of rounded quotients of one factor is less than one a term below the whole.
LEMMA RoundedShares ==
  ASSUME NEW d \in Nat \ {0}, NEW a \in Int, NEW b \in Int, NEW c \in Int, NEW e \in Int
  PROVE  LET sum == a \div d + b \div d + c \div d + e \div d
         IN  /\ sum \in Int
             /\ d * sum <= a + b + c + e
             /\ a + b + c + e < d * (sum + 4)
<1> DEFINE p == a \div d
           q == b \div d
           r == c \div d
           s == e \div d
<1>1. /\ p \in Int /\ d * p <= a /\ a < d * p + d
      /\ q \in Int /\ d * q <= b /\ b < d * q + d
      /\ r \in Int /\ d * r <= c /\ c < d * r + d
      /\ s \in Int /\ d * s <= e /\ e < d * s + d
  BY Euclid
<1> HIDE DEF p, q, r, s
<1>2. d * (p + q + r + s) = d * p + d * q + d * r + d * s
  BY <1>1
<1>3. d * (p + q + r + s + 4) = d * p + d * q + d * r + d * s + d + d + d + d
  BY <1>1
<1>4. d * p \in Int /\ d * q \in Int /\ d * r \in Int /\ d * s \in Int
  BY <1>1
<1>5. /\ d * (p + q + r + s) <= a + b + c + e
      /\ a + b + c + e < d * (p + q + r + s + 4)
  <2> DEFINE x == d * p
             y == d * q
             z == d * r
             w == d * s
  <2> HIDE DEF x, y, z, w
  <2>1. x \in Int /\ y \in Int /\ z \in Int /\ w \in Int
    BY <1>4 DEF x, y, z, w
  <2>2. /\ x <= a /\ a < x + d /\ y <= b /\ b < y + d /\ z <= c /\ c < z + d /\ w <= e /\ e < w + d
    BY <1>1 DEF x, y, z, w
  <2>3. x + y + z + w <= a + b + c + e /\ a + b + c + e < x + y + z + w + d + d + d + d
    BY <2>1, <2>2
  <2> QED
    BY <1>2, <1>3, <2>3 DEF x, y, z, w
<1> QED
  BY <1>1, <1>5 DEF p, q, r, s

\* Division by a positive factor on both sides.
LEMMA FactorOut ==
  ASSUME NEW d \in Nat \ {0}, NEW a \in Int, NEW b \in Int
  PROVE  /\ d * a <= d * b => a <= b
         /\ d * a < d * b => a < b
<1>1. ASSUME b + 1 <= a PROVE d * b + d <= d * a
  <2>1. d * (b + 1) <= d * a
    BY <1>1, ProductMonotone
  <2>2. d * (b + 1) = d * b + d
    OBVIOUS
  <2> QED
    BY <2>1, <2>2
<1>2. ASSUME b <= a PROVE d * b <= d * a
  BY <1>2, ProductMonotone
<1>3. d * a \in Int /\ d * b \in Int
  OBVIOUS
<1> DEFINE x == d * a
           y == d * b
<1> HIDE DEF x, y
<1>4. (b + 1 <= a => y + d <= x) /\ (b <= a => y <= x) /\ x \in Int /\ y \in Int
  BY <1>1, <1>2, <1>3 DEF x, y
<1>5. (x <= y => a <= b) /\ (x < y => a < b)
  BY <1>4
<1> QED
  BY <1>5 DEF x, y

\* The four terms of a segment.
LEMMA TermsAre ==
  /\ \A t \in Terms : t \in {"rolling", "aero", "gradient", "inertia"}
  /\ \A f \in [Terms -> Int] :
       /\ f["rolling"] \in Int /\ f["aero"] \in Int /\ f["gradient"] \in Int /\ f["inertia"] \in Int
       /\ Total(f) \in Int
  BY DEF Terms, Total

LEMMA WheelPowerIsTyped ==
  ASSUME NEW c \in MeasuredConditions
  PROVE  WheelPower(c) \in [Terms -> Int]
<1> DEFINE air == c.speed + c.headwind
<1>1. /\ c.speed \in Int /\ c.headwind \in Int /\ c.temp \in -60 .. 60
      /\ c.grade \in Int /\ c.accel \in Int
  BY DEF MeasuredConditions
<1>2. air \in Int /\ Magnitude(air) \in Int
  BY <1>1 DEF Magnitude
<1>3. AirDensity(c.temp) \in Int
  BY <1>1 DEF AirDensity
<1>4. c.speed * air * Magnitude(air) * AirDensity(c.temp) \in Int
  BY <1>1, <1>2, <1>3
<1>5. (c.speed * air * Magnitude(air) * AirDensity(c.temp)) \div 1300 \in Int
  <2> DEFINE n == c.speed * air * Magnitude(air) * AirDensity(c.temp)
  <2> HIDE DEF n
  <2>1. n \div 1300 \in Int
    BY <1>4 DEF n
  <2> QED
    BY <2>1 DEF n
<1>6. 5 * c.speed \in Int /\ 5 * c.grade * c.speed \in Int /\ 5 * c.accel * c.speed \in Int
  BY <1>1
<1> QED
  BY <1>5, <1>6 DEF WheelPower, Terms

LEMMA DurationIsNatural ==
  ASSUME NEW c \in MeasuredConditions
  PROVE  Duration(c) \in Nat
<1>1. c.speed \in Int /\ c.cells \in Nat /\ c.duration \in Nat \cup {Unknown}
  BY DEF MeasuredConditions
<1>2. ASSUME c.speed > 0 PROVE (1800 * c.cells) \div c.speed \in Nat
  BY <1>1, <1>2
<1> QED
  BY <1>1, <1>2 DEF Duration

LEMMA PackTemperatureIsTyped ==
  ASSUME NEW c \in MeasuredConditions
  PROVE  PackTemperature(c) \in Int
BY DEF MeasuredConditions, PackTemperature

\* The terms of a segment add up to the energy at the battery, less what is rounded off.
LEMMA TermsAddUp ==
  ASSUME NEW c \in MeasuredConditions
  PROVE  LET power == BatteryPower(Total(WheelPower(c)), PackTemperature(c))
             terms == Allocated(c)
         IN  /\ power \in Int
             /\ terms \in [Terms -> Int]
             /\ 36 * Total(terms) <= power * Duration(c)
             /\ power * Duration(c) < 36 * (Total(terms) + 4)
<1> DEFINE wheel == WheelPower(c)
           W == Total(wheel)
           B == BatteryPower(W, PackTemperature(c))
           D == Duration(c)
           terms == Allocated(c)
<1>1. wheel \in [Terms -> Int] /\ W \in Int
  BY WheelPowerIsTyped, TermsAre, Zenon
<1>2. D \in Nat
  BY DurationIsNatural
<1>3. B \in Int /\ (W >= 0 => B >= 0) /\ (W <= 0 => B <= 0)
  <2>1. PackTemperature(c) <= PackTemperature(c) /\ PackTemperature(c) \in Int
    BY PackTemperatureIsTyped
  <2> HIDE DEF W
  <2> QED
    BY <1>1, <2>1, ColdPowerGrows
<1>4. terms = [t \in Terms |->
                 IF W = 0 THEN 0 ELSE (wheel[t] * Magnitude(B) * D) \div (Magnitude(W) * 36)]
  BY DEF Allocated
<1>5. wheel["rolling"] \in Int /\ wheel["aero"] \in Int /\ wheel["gradient"] \in Int
      /\ wheel["inertia"] \in Int
  BY <1>1, TermsAre, Zenon
<1>6. W = wheel["rolling"] + wheel["aero"] + wheel["gradient"] + wheel["inertia"]
  BY DEF Total
<1>7. Total(terms) = terms["rolling"] + terms["aero"] + terms["gradient"] + terms["inertia"]
  BY DEF Total
<1> HIDE DEF wheel, W, B, D, terms
<1>8. CASE W = 0
  <2>1. B = 0 /\ B * D = 0
    BY <1>2, <1>3, <1>8
  <2>2. terms = [t \in Terms |-> 0]
    BY <1>4, <1>8
  <2>3. Total(terms) = 0
    BY <1>7, <2>2 DEF Terms
  <2>4. terms \in [Terms -> Int]
    BY <2>2
  <2> QED
    BY <1>3, <2>1, <2>3, <2>4 DEF wheel, W, B, D, terms
<1>9. CASE W # 0
  <2> DEFINE m == Magnitude(B)
             n == Magnitude(W)
             d == n * 36
             share(x) == x * m * D
  <2>1. m \in Nat /\ n \in Nat \ {0} /\ d \in Nat \ {0}
    BY <1>1, <1>3, <1>9 DEF Magnitude
  <2>2. W * m = n * B
    <3>1. CASE W > 0
      BY <1>1, <1>3, <3>1 DEF Magnitude
    <3>2. CASE W < 0
      BY <1>1, <1>3, <3>2 DEF Magnitude
    <3> QED
      BY <1>1, <1>9, <3>1, <3>2
  <2> HIDE DEF m, n, d
  <2>3. \A x \in Int : share(x) \in Int
    BY <1>2, <2>1
  <2>4. \A t \in Terms : terms[t] = share(wheel[t]) \div d
    BY <1>4, <1>9 DEF m, n, d
  <2>5. \A t \in Terms : wheel[t] \in Int /\ share(wheel[t]) \div d \in Int
    BY <1>1, <2>1, <2>3, Euclid
  <2>6. share(wheel["rolling"]) + share(wheel["aero"]) + share(wheel["gradient"])
          + share(wheel["inertia"]) = n * (B * D)
    <3> DEFINE x == wheel["rolling"]
               y == wheel["aero"]
               z == wheel["gradient"]
               u == wheel["inertia"]
    <3> HIDE DEF x, y, z, u
    <3>1. x \in Int /\ y \in Int /\ z \in Int /\ u \in Int /\ W = x + y + z + u
      BY <1>5, <1>6 DEF x, y, z, u
    <3>2. share(x) + share(y) + share(z) + share(u) = W * m * D
      BY <1>2, <2>1, <3>1
    <3>3. W * m * D = n * (B * D)
      BY <1>1, <1>2, <1>3, <2>1, <2>2
    <3> HIDE DEF share
    <3> QED
      BY <3>2, <3>3, Zenon DEF x, y, z, u
  <2> HIDE DEF share
  <2>7. terms \in [Terms -> Int]
    BY <1>4, <1>9, <2>4, <2>5
  <2>8. Total(terms) = share(wheel["rolling"]) \div d + share(wheel["aero"]) \div d
                         + share(wheel["gradient"]) \div d + share(wheel["inertia"]) \div d
    BY <1>7, <2>4 DEF Terms
  <2>9. /\ Total(terms) \in Int
        /\ d * Total(terms) <= n * (B * D)
        /\ n * (B * D) < d * (Total(terms) + 4)
    <3>1. share(wheel["rolling"]) \in Int /\ share(wheel["aero"]) \in Int
          /\ share(wheel["gradient"]) \in Int /\ share(wheel["inertia"]) \in Int
      BY <1>5, <2>3
    <3> QED
      BY <2>1, <2>6, <2>8, <3>1, RoundedShares
  <2>10. /\ d * Total(terms) = n * (36 * Total(terms))
         /\ d * (Total(terms) + 4) = n * (36 * (Total(terms) + 4))
    BY <2>1, <2>9 DEF d
  <2>11. /\ 36 * Total(terms) \in Int /\ 36 * (Total(terms) + 4) \in Int /\ B * D \in Int
    BY <1>2, <1>3, <2>9
  <2>12. /\ 36 * Total(terms) <= B * D /\ B * D < 36 * (Total(terms) + 4)
    BY <2>1, <2>9, <2>10, <2>11, FactorOut
  <2> QED
    BY <1>3, <2>7, <2>12 DEF wheel, W, B, D, terms
<1> QED
  BY <1>1, <1>8, <1>9

\* What the cap takes from a term below zero.
LEMMA CappedTermsVanish ==
  ASSUME NEW terms \in [Terms -> Int], NEW standing \in Nat, Total(terms) + standing < 0
  PROVE  /\ Capped(terms, standing) \in [Terms -> Int]
         /\ Total(Capped(terms, standing)) + standing <= 0
         /\ Total(Capped(terms, standing)) + standing > -4
<1> DEFINE below == [t \in Terms |-> Min({0, terms[t]})]
           N == Total(below)
           E == Total(terms) + standing
           capped == Capped(terms, standing)
           d == -N
           k == E - N
<1>1. \A t \in Terms : terms[t] \in Int /\ Min({0, terms[t]}) = IF terms[t] < 0 THEN terms[t] ELSE 0
  <2>1. \A n \in Int : Min({0, n}) = IF n < 0 THEN n ELSE 0
    BY MinOfTwo
  <2> QED
    BY <2>1
<1>2. below \in [Terms -> Int]
  BY <1>1
<1>4. Capped(terms, standing) =
        [t \in Terms |-> IF terms[t] < 0 THEN (terms[t] * k) \div d ELSE terms[t]]
  BY Zenon DEF Capped
<1>5. N = below["rolling"] + below["aero"] + below["gradient"] + below["inertia"]
  BY DEF Total
<1>6. Total(terms) = terms["rolling"] + terms["aero"] + terms["gradient"] + terms["inertia"]
  BY DEF Total
<1>7. \A t \in Terms : below[t] = IF terms[t] < 0 THEN terms[t] ELSE 0
  BY <1>1
<1> HIDE DEF below, N
<1> DEFINE rest(t) == terms[t] - below[t]
           R == rest("rolling") + rest("aero") + rest("gradient") + rest("inertia")
<1>8. "rolling" \in Terms /\ "aero" \in Terms /\ "gradient" \in Terms /\ "inertia" \in Terms
  BY DEF Terms
<1>9. \A t \in Terms : terms[t] \in Int /\ below[t] \in Int /\ below[t] <= 0 /\ rest(t) \in Nat
  BY <1>1, <1>7
<1>10. /\ N \in Int /\ R \in Nat /\ Total(terms) = N + R /\ N <= 0
  BY <1>5, <1>6, <1>8, <1>9
<1>11. d \in Nat \ {0} /\ k = R + standing /\ k \in Nat
  BY <1>10
<1> HIDE DEF R, d, k, E
<1> DEFINE q(t) == (below[t] * k) \div d
<1>12. \A t \in Terms : below[t] * k \in Int /\ q(t) \in Int
  <2> SUFFICES ASSUME NEW t \in Terms PROVE below[t] * k \in Int /\ q(t) \in Int
    OBVIOUS
  <2>1. below[t] * k \in Int
    BY <1>9, <1>11
  <2> QED
    BY <1>11, <2>1, Euclid
<1>13. \A t \in Terms : capped[t] = q(t) + rest(t)
  <2> SUFFICES ASSUME NEW t \in Terms PROVE capped[t] = q(t) + rest(t)
    OBVIOUS
  <2>1. capped[t] = IF terms[t] < 0 THEN (terms[t] * k) \div d ELSE terms[t]
    BY <1>4 DEF k, d, E
  <2>2. CASE terms[t] < 0
    <3>1. below[t] = terms[t] /\ rest(t) = 0
      BY <1>7, <1>9, <2>2
    <3> HIDE DEF q
    <3>2. capped[t] = q(t)
      BY <2>1, <2>2, <3>1 DEF q
    <3> QED
      BY <1>12, <3>1, <3>2
  <2>3. CASE ~(terms[t] < 0)
    <3>1. below[t] = 0 /\ rest(t) = terms[t]
      BY <1>7, <1>9, <2>3
    <3>2. below[t] * k = 0
      BY <1>11, <3>1
    <3>3. q(t) = 0
      <4>1. \A n \in Nat \ {0} : 0 \div n = 0
        OBVIOUS
      <4> QED
        BY <1>11, <3>2, <4>1
    <3> HIDE DEF q
    <3> QED
      BY <1>9, <2>1, <2>3, <3>1, <3>3
  <2> QED
    BY <2>2, <2>3
<1> DEFINE Q == q("rolling") + q("aero") + q("gradient") + q("inertia")
<1>14. /\ Q \in Int
       /\ d * Q <= below["rolling"] * k + below["aero"] * k + below["gradient"] * k + below["inertia"] * k
       /\ below["rolling"] * k + below["aero"] * k + below["gradient"] * k + below["inertia"] * k
            < d * (Q + 4)
  BY <1>8, <1>11, <1>12, RoundedShares
<1>15. below["rolling"] * k + below["aero"] * k + below["gradient"] * k + below["inertia"] * k = d * (-k)
  <2> DEFINE x == below["rolling"]
             y == below["aero"]
             z == below["gradient"]
             u == below["inertia"]
  <2> HIDE DEF x, y, z, u
  <2>1. x \in Int /\ y \in Int /\ z \in Int /\ u \in Int /\ N = x + y + z + u
    BY <1>5, <1>8, <1>9 DEF x, y, z, u
  <2>2. x * k + y * k + z * k + u * k = N * k
    BY <1>11, <2>1
  <2>3. N * k = d * (-k)
    BY <1>10, <1>11 DEF d
  <2> QED
    BY <2>2, <2>3, Zenon DEF x, y, z, u
<1> HIDE DEF Q
<1>16. Q <= -k /\ -k < Q + 4
  <2>1. d * Q <= d * (-k) /\ d * (-k) < d * (Q + 4)
    BY <1>14, <1>15, Zenon
  <2>2. -k \in Int /\ Q + 4 \in Int
    BY <1>11, <1>14
  <2> QED
    BY <1>11, <1>14, <2>1, <2>2, FactorOut
<1> HIDE DEF q, rest
<1>17. /\ capped \in [Terms -> Int]
  <2>1. \A t \in Terms : capped[t] \in Int
    BY <1>9, <1>12, <1>13
  <2> QED
    BY <1>4, <2>1
<1>18. Total(capped) = Q + R
  <2>1. Total(capped) = capped["rolling"] + capped["aero"] + capped["gradient"] + capped["inertia"]
    BY DEF Total
  <2>2. \A t \in Terms : q(t) \in Int /\ rest(t) \in Int /\ capped[t] = q(t) + rest(t)
    BY <1>9, <1>12, <1>13
  <2> HIDE DEF capped
  <2> QED
    BY <1>8, <2>1, <2>2 DEF Q, R
<1> QED
  BY <1>10, <1>11, <1>14, <1>16, <1>17, <1>18

\* What a segment takes: its standing load and its terms, or nothing.
LEMMA SegmentAddsUp ==
  ASSUME NEW c \in MeasuredConditions
  PROVE  \E sum \in Int, standing \in Nat :
           /\ SegmentEnergy(c).kwh = IF sum + standing < 0 THEN 0 ELSE sum + standing
           /\ standing = (Base * Duration(c)) \div 36 + (Hvac(c.temp) * Duration(c)) \div 36
           /\ Total(SegmentEnergy(c).terms) + SegmentEnergy(c).auxiliary + SegmentEnergy(c).hvac
                - SegmentEnergy(c).kwh \in (-3) .. 3
           /\ IF c.speed <= 0 \/ Duration(c) <= 0 THEN sum = 0
              ELSE LET power == BatteryPower(Total(WheelPower(c)), PackTemperature(c))
                   IN  /\ power \in Int
                       /\ 36 * sum <= power * Duration(c)
                       /\ power * Duration(c) < 36 * (sum + 4)
<1> DEFINE D == Duration(c)
           auxiliary == (Base * D) \div 36
           hvac == (Hvac(c.temp) * D) \div 36
           standing == auxiliary + hvac
           terms == IF c.speed <= 0 \/ D <= 0 THEN NoTerms ELSE Allocated(c)
           sum == Total(terms)
           power == BatteryPower(Total(WheelPower(c)), PackTemperature(c))
           e == SegmentEnergy(c)
<1>1. D \in Nat /\ Hvac(c.temp) \in Nat
  <2>1. c.temp \in Int
    BY DEF MeasuredConditions
  <2> QED
    BY <2>1, DurationIsNatural, HvacNeverNegative
<1>2. auxiliary \in Nat /\ hvac \in Nat
  <2>1. Base * D \in Nat /\ Hvac(c.temp) * D \in Nat
    BY <1>1 DEF Base
  <2>2. \A n \in Nat : n \div 36 \in Nat
    OBVIOUS
  <2> QED
    BY <2>1, <2>2
<1>3. /\ terms \in [Terms -> Int]
      /\ IF c.speed <= 0 \/ D <= 0 THEN sum = 0
         ELSE power \in Int /\ 36 * sum <= power * D /\ power * D < 36 * (sum + 4)
  <2>1. CASE c.speed <= 0 \/ D <= 0
    <3>1. terms = NoTerms
      BY <2>1
    <3>2. NoTerms \in [Terms -> Int] /\ Total(NoTerms) = 0
      BY DEF NoTerms, Total, Terms
    <3> HIDE DEF terms
    <3> QED
      BY <2>1, <3>1, <3>2
  <2>2. CASE ~(c.speed <= 0 \/ D <= 0)
    <3>1. terms = Allocated(c)
      BY <2>2
    <3>2. /\ power \in Int
          /\ Allocated(c) \in [Terms -> Int]
          /\ 36 * Total(Allocated(c)) <= power * D
          /\ power * D < 36 * (Total(Allocated(c)) + 4)
      BY TermsAddUp
    <3> HIDE DEF terms, power, D
    <3> QED
      BY <2>2, <3>1, <3>2
  <2> QED
    BY <2>1, <2>2
<1>4. e = IF sum + standing < 0 THEN EnergyOf(Capped(terms, standing), c, 0)
          ELSE EnergyOf(terms, c, sum + standing)
  BY Zenon DEF SegmentEnergy
<1>5. \A t, k : /\ EnergyOf(t, c, k).kwh = k /\ EnergyOf(t, c, k).terms = t
                /\ EnergyOf(t, c, k).auxiliary = auxiliary /\ EnergyOf(t, c, k).hvac = hvac
  BY DEF EnergyOf
<1>6. sum \in Int
  BY <1>3, TermsAre
<1> HIDE DEF terms, sum, auxiliary, hvac, D, power, e
<1>7. standing \in Nat
  BY <1>2
<1>8. sum + standing < 0 =>
        /\ Total(Capped(terms, standing)) \in Int
        /\ Total(Capped(terms, standing)) + standing <= 0
        /\ Total(Capped(terms, standing)) + standing > -4
  <2> SUFFICES ASSUME sum + standing < 0
               PROVE  /\ Capped(terms, standing) \in [Terms -> Int]
                      /\ Total(Capped(terms, standing)) + standing <= 0
                      /\ Total(Capped(terms, standing)) + standing > -4
    BY TermsAre
  <2>1. Total(terms) + standing < 0
    BY DEF sum
  <2> HIDE DEF standing
  <2> QED
    BY <1>3, <1>7, <2>1, CappedTermsVanish
<1>9. /\ e.kwh = IF sum + standing < 0 THEN 0 ELSE sum + standing
      /\ Total(e.terms) + e.auxiliary + e.hvac - e.kwh \in (-3) .. 3
  <2>1. CASE sum + standing < 0
    <3>1. e.kwh = 0 /\ e.terms = Capped(terms, standing) /\ e.auxiliary = auxiliary /\ e.hvac = hvac
      BY <1>4, <1>5, <2>1
    <3> DEFINE capped == Total(Capped(terms, standing))
    <3>2. Total(e.terms) = capped
      BY <3>1
    <3> HIDE DEF capped
    <3>3. capped \in Int /\ capped + standing <= 0 /\ capped + standing > -4
      BY <1>8, <2>1 DEF capped
    <3> QED
      BY <1>2, <2>1, <3>1, <3>2, <3>3
  <2>2. CASE ~(sum + standing < 0)
    <3>1. e.kwh = sum + standing /\ e.terms = terms /\ e.auxiliary = auxiliary /\ e.hvac = hvac
      BY <1>4, <1>5, <2>2
    <3>2. Total(e.terms) = sum
      BY <3>1 DEF sum
    <3> QED
      BY <1>2, <1>6, <2>2, <3>1, <3>2
  <2> QED
    BY <2>1, <2>2
<1> QED
  BY <1>3, <1>6, <1>7, <1>9 DEF D, e, power, auxiliary, hvac

\* A segment on a colder pack takes as much, but for the rounding of its terms.
LEMMA ColderIsNoCheaper ==
  ASSUME NEW c \in MeasuredConditions, NEW b \in Int, b <= PackTemperature(c)
  PROVE  SegmentEnergy([c EXCEPT !.battery = b]).kwh + 4 >= SegmentEnergy(c).kwh
<1> DEFINE d == [c EXCEPT !.battery = b]
           w == Total(WheelPower(c))
           P == BatteryPower(w, PackTemperature(c))
           B == BatteryPower(w, b)
           D == Duration(c)
           kwh(x) == SegmentEnergy(x).kwh
<1>1. d \in MeasuredConditions
  BY DEF MeasuredConditions
<1>2. /\ d.battery = b /\ d.speed = c.speed /\ d.headwind = c.headwind /\ d.temp = c.temp
      /\ d.grade = c.grade /\ d.accel = c.accel /\ d.duration = c.duration /\ d.cells = c.cells
  BY DEF MeasuredConditions
<1> HIDE DEF d
<1>3. /\ WheelPower(d) = WheelPower(c) /\ Duration(d) = D
      /\ PackTemperature(d) = b
  BY <1>2, EnergyAssumption DEF WheelPower, Duration, PackTemperature
<1>4. w \in Int /\ PackTemperature(c) \in Int /\ D \in Nat
  BY WheelPowerIsTyped, TermsAre, PackTemperatureIsTyped, DurationIsNatural, Zenon
<1>5. P \in Int /\ B \in Int /\ P <= B
  <2> HIDE DEF w
  <2> QED
    BY <1>4, ColdPowerGrows
<1>6. P * D <= B * D /\ P * D \in Int /\ B * D \in Int
  <2> HIDE DEF P, B, D
  <2>1. D * P <= D * B
    BY <1>4, <1>5, ProductMonotone DEF D
  <2> QED
    BY <1>4, <1>5, <2>1 DEF D
<1>7. PICK s \in Int, standing \in Nat :
        /\ kwh(c) = IF s + standing < 0 THEN 0 ELSE s + standing
        /\ standing = (Base * D) \div 36 + (Hvac(c.temp) * D) \div 36
        /\ IF c.speed <= 0 \/ D <= 0 THEN s = 0 ELSE 36 * s <= P * D
  BY SegmentAddsUp
<1>8. PICK t \in Int, load \in Nat :
        /\ kwh(d) = IF t + load < 0 THEN 0 ELSE t + load
        /\ load = (Base * D) \div 36 + (Hvac(c.temp) * D) \div 36
        /\ IF c.speed <= 0 \/ D <= 0 THEN t = 0 ELSE B * D < 36 * (t + 4)
  <2>1. \E t \in Int, load \in Nat :
        /\ kwh(d) = IF t + load < 0 THEN 0 ELSE t + load
        /\ load = (Base * Duration(d)) \div 36 + (Hvac(d.temp) * Duration(d)) \div 36
        /\ IF d.speed <= 0 \/ Duration(d) <= 0 THEN t = 0
           ELSE BatteryPower(Total(WheelPower(d)), PackTemperature(d)) * Duration(d) < 36 * (t + 4)
    BY <1>1, SegmentAddsUp
  <2> QED
    BY <1>2, <1>3, <2>1
<1> HIDE DEF P, B, D, kwh
<1>9. load = standing
  BY <1>7, <1>8
<1>10. s <= t + 3
  BY <1>6, <1>7, <1>8
<1>11. kwh(d) + 4 >= kwh(c)
  BY <1>7, <1>8, <1>9, <1>10
<1> QED
  BY <1>11 DEF kwh, d

LEMMA FourTerms == Rounding = 4
<1>1. /\ Cardinality({"rolling"}) = 1 /\ IsFiniteSet({"rolling"})
  BY FS_Singleton
<1>2. /\ Cardinality({"rolling", "aero"}) = 2 /\ IsFiniteSet({"rolling", "aero"})
  <2>1. {"rolling", "aero"} = {"rolling"} \cup {"aero"} /\ "aero" \notin {"rolling"}
    OBVIOUS
  <2> QED
    BY <1>1, <2>1, FS_AddElement
<1>3. /\ Cardinality({"rolling", "aero", "gradient"}) = 3 /\ IsFiniteSet({"rolling", "aero", "gradient"})
  <2>1. /\ {"rolling", "aero", "gradient"} = {"rolling", "aero"} \cup {"gradient"}
        /\ "gradient" \notin {"rolling", "aero"}
    OBVIOUS
  <2> QED
    BY <1>2, <2>1, FS_AddElement
<1>4. /\ Terms = {"rolling", "aero", "gradient"} \cup {"inertia"}
      /\ "inertia" \notin {"rolling", "aero", "gradient"}
  BY DEF Terms
<1> QED
  BY <1>3, <1>4, FS_AddElement DEF Rounding

LEMMA EnergyNeverHelps ==
  ASSUME task.condition \in SegmentConditions, result = SegmentEnergy(task.condition)
  PROVE  ColdNeverHelps
<1> DEFINE c == task.condition
<1>1. c \in MeasuredConditions /\ PackTemperature(c) \in Int
  <2>1. c \in MeasuredConditions
    BY DEF SegmentConditions, MeasuredConditions
  <2> QED
    BY <2>1, PackTemperatureIsTyped
<1>2. /\ result.kwh \in Nat
      /\ Total(result.terms) + result.auxiliary + result.hvac - result.kwh \in (-3) .. 3
  BY <1>1, SegmentAddsUp
<1>3. \A b \in Int : b <= PackTemperature(c) =>
        SegmentEnergy([c EXCEPT !.battery = b]).kwh + 4 >= result.kwh
  BY <1>1, ColderIsNoCheaper
<1>4. \A n \in (-3) .. 3 : Magnitude(n) <= 4
  BY DEF Magnitude
<1> QED
  BY <1>1, <1>2, <1>3, <1>4, FourTerms DEF ColdNeverHelps

-----------------------------------------------------------------------------
(* The segments of a route *)

LEMMA StretchesFollow ==
  ASSUME NEW lengths \in Seq(Nat)
  PROVE  /\ \A i \in 1 .. (Len(lengths) + 1) : StartOf(lengths, i) \in Nat
         /\ \A i \in 1 .. Len(lengths) : StartOf(lengths, i + 1) = StartOf(lengths, i) + lengths[i]
         /\ \A i \in 1 .. Len(lengths) :
              StartOf(lengths, i + 1) <= StartOf(lengths, Len(lengths) + 1)
<1>1. ASSUME NEW i \in 1 .. (Len(lengths) + 1) PROVE StartOf(lengths, i) \in Nat
  <2>1. i - 1 \in 0 .. Len(lengths)
    OBVIOUS
  <2> QED
    BY <2>1, AddedNaturals DEF StartOf
<1>2. ASSUME NEW i \in 1 .. Len(lengths)
      PROVE  StartOf(lengths, i + 1) = StartOf(lengths, i) + lengths[i]
  <2> DEFINE n == i - 1
  <2>1. n \in Nat /\ n < Len(lengths) /\ i = n + 1 /\ (i + 1) - 1 = n + 1
    OBVIOUS
  <2> HIDE DEF n
  <2>2. Added(SubSeq(lengths, 1, n + 1)) = Added(SubSeq(lengths, 1, n)) + lengths[n + 1]
    BY <2>1, AddedOneMore, Zenon
  <2> QED
    BY <2>1, <2>2 DEF StartOf, n
<1>3. ASSUME NEW i \in 1 .. Len(lengths)
      PROVE  StartOf(lengths, i + 1) <= StartOf(lengths, Len(lengths) + 1)
  <2>1. /\ i \in 0 .. Len(lengths) /\ Len(lengths) \in i .. Len(lengths)
        /\ (i + 1) - 1 = i /\ (Len(lengths) + 1) - 1 = Len(lengths)
    OBVIOUS
  <2> QED
    BY <2>1, SumsGrow DEF StartOf
<1> QED
  BY <1>1, <1>2, <1>3

LEMMA LargestOf ==
  ASSUME NEW T, NEW x \in T, T \subseteq Int, \A y \in T : x >= y
  PROVE  Max(T) = x
<1> DEFINE m == Max(T)
<1>1. m \in T /\ \A y \in T : m >= y
  BY Zenon DEF Max
<1> HIDE DEF m
<1>2. m \in Int /\ x \in Int /\ m >= x /\ x >= m
  BY <1>1
<1>3. m = x
  BY <1>2
<1> QED
  BY <1>3 DEF m

LEMMA SmallestOf ==
  ASSUME NEW T, NEW x \in T, T \subseteq Int, \A y \in T : x <= y
  PROVE  Min(T) = x
<1> DEFINE m == Min(T)
<1>1. m \in T /\ \A y \in T : m <= y
  BY Zenon DEF Min
<1> HIDE DEF m
<1>2. m \in Int /\ x \in Int /\ m <= x /\ x <= m
  BY <1>1
<1>3. m = x
  BY <1>2
<1> QED
  BY <1>3 DEF m

LEMMA MaxOfThree ==
  ASSUME NEW a \in Int, NEW b \in Int, NEW c \in Int
  PROVE  /\ Max({a, b, c}) \in {a, b, c}
         /\ Max({a, b, c}) >= a /\ Max({a, b, c}) >= b /\ Max({a, b, c}) >= c
<1>1. \E x \in {a, b, c} : \A y \in {a, b, c} : x >= y
  OBVIOUS
<1>2. Max({a, b, c}) \in {a, b, c} /\ \A y \in {a, b, c} : Max({a, b, c}) >= y
  BY <1>1, Zenon DEF Max
<1> QED
  BY <1>2

\* The first of the greatest of some elements.
LEMMA FirstGreatest ==
  ASSUME NEW n \in Nat, NEW f, \A i \in 1 .. n : f[i] \in Int,
         NEW met \in SUBSET (1 .. n), met # {}
  PROVE  \E i \in met : \A j \in met : f[j] <= f[i] /\ (j < i => f[j] < f[i])
<1> DEFINE Greatest(k, i) == \A j \in met : j <= k => f[j] <= f[i] /\ (j < i => f[j] < f[i])
           S == {k \in Nat : (\E j \in met : j <= k) => \E i \in met : i <= k /\ Greatest(k, i)}
<1>1. 0 \in S
  OBVIOUS
<1>2. ASSUME NEW k \in Nat, k \in S PROVE k + 1 \in S
  <2> SUFFICES ASSUME NEW j0 \in met, j0 <= k + 1
               PROVE  \E i \in met : i <= k + 1 /\ Greatest(k + 1, i)
    OBVIOUS
  <2>0. \A j \in met : j \in Nat /\ f[j] \in Int
    OBVIOUS
  <2>1. CASE k + 1 \notin met
    <3>1. \A j \in met : j <= k + 1 => j <= k
      BY <2>0, <2>1
    <3>2. PICK i \in met : i <= k /\ Greatest(k, i)
      BY <1>2, <3>1
    <3>3. i <= k + 1 /\ Greatest(k + 1, i)
      BY <2>0, <3>1, <3>2
    <3> QED
      BY <3>3
  <2>2. CASE k + 1 \in met /\ ~\E j \in met : j <= k
    <3>1. \A j \in met : j <= k + 1 => j = k + 1
      BY <2>0, <2>2
    <3>2. Greatest(k + 1, k + 1)
      BY <2>0, <2>2, <3>1
    <3> QED
      BY <2>2, <3>2
  <2>3. CASE k + 1 \in met /\ \E j \in met : j <= k
    <3>1. PICK i \in met : i <= k /\ Greatest(k, i)
      BY <1>2, <2>3
    <3>2. \A j \in met : j <= k + 1 => j <= k \/ j = k + 1
      BY <2>0
    <3>3. CASE f[k + 1] > f[i]
      <4>1. ASSUME NEW j \in met, j <= k + 1
            PROVE  f[j] <= f[k + 1] /\ (j < k + 1 => f[j] < f[k + 1])
        <5>1. CASE j = k + 1
          BY <2>0, <5>1
        <5>2. CASE j <= k
          <6>1. f[j] <= f[i]
            BY <3>1, <5>2
          <6> QED
            BY <2>0, <2>3, <3>3, <6>1
        <5> QED
          BY <3>2, <4>1, <5>1, <5>2
      <4> QED
        BY <2>3, <4>1
    <3>4. CASE ~(f[k + 1] > f[i])
      <4>1. Greatest(k + 1, i) /\ i <= k + 1
        BY <2>0, <2>3, <3>1, <3>2, <3>4
      <4> QED
        BY <4>1
    <3> QED
      BY <3>3, <3>4
  <2> QED
    BY <2>1, <2>2, <2>3
<1> HIDE DEF S
<1>3. n \in S
  BY <1>1, <1>2, AllNumbers
<1>4. \E j \in met : j <= n
  <2>1. PICK j \in met : TRUE
    OBVIOUS
  <2>2. j \in 1 .. n
    OBVIOUS
  <2> QED
    BY <2>2
<1>5. PICK i \in met : i <= n /\ Greatest(n, i)
  BY <1>3, <1>4 DEF S
<1> QED
  BY <1>5

LEMMA SpeedIsTyped ==
  ASSUME NEW assumed \in Int \cup {Unknown}, NEW class, NEW limit \in Int \cup {Unknown}
  PROVE  SegmentSpeed(assumed, class, limit) \in Int
<1>1. DefaultSpeed(class) \in Int /\ SlowestSpeed \in Int
  BY DEF DefaultSpeed, SlowestSpeed
<1>2. \A a \in Int, b \in Int : Max({a, b}) \in Int /\ Min({a, b}) \in Int
  BY MaxOfTwo, MinOfTwo
<1>3. assumed # Unknown => Max({SlowestSpeed, assumed}) \in Int
  BY <1>1, <1>2
<1>4. limit # Unknown => Min({DefaultSpeed(class), limit}) \in Int
  BY <1>1, <1>2
<1> DEFINE posted == IF limit = Unknown THEN DefaultSpeed(class)
                     ELSE Min({DefaultSpeed(class), limit})
<1>5. posted \in Int
  BY <1>1, <1>4
<1> HIDE DEF posted
<1>6. Max({SlowestSpeed, posted}) \in Int
  BY <1>1, <1>2, <1>5
<1> QED
  BY <1>3, <1>6 DEF SegmentSpeed, posted

LEMMA AddedIntegers ==
  ASSUME NEW values \in Seq(Int)
  PROVE  Added(values) \in Int
<1> DEFINE counts == [i \in 1 .. Len(values) |-> Magnitude(values[i])]
<1>1. \A v \in Int : Magnitude(v) \in Nat /\ (-1) * Magnitude(v) <= v /\ v <= 1 * Magnitude(v)
  BY DEF Magnitude
<1>2. \A i \in 1 .. Len(values) : values[i] \in Int
  OBVIOUS
<1>3. counts \in Seq(Nat) /\ Len(counts) = Len(values)
  <2>1. ASSUME NEW i \in 1 .. Len(values) PROVE Magnitude(values[i]) \in Nat
    <3>1. values[i] \in Int
      BY <1>2
    <3> QED
      BY <1>1, <3>1
  <2> QED
    BY <2>1
<1>4. \A i \in 1 .. Len(values) : (-1) * counts[i] <= values[i] /\ values[i] <= 1 * counts[i]
  BY <1>1, <1>2
<1> HIDE DEF counts
<1>5. \E low \in Int, high \in Int :
        \A i \in 1 .. Len(values) : low * counts[i] <= values[i] /\ values[i] <= high * counts[i]
  <2>1. -1 \in Int /\ 1 \in Int
    OBVIOUS
  <2> WITNESS -1 \in Int, 1 \in Int
  <2> QED
    BY <1>4
<1> QED
  BY <1>3, <1>5, AddedBetween

LEMMA SharedIsNatural ==
  ASSUME NEW a \in Int, NEW b \in Int, NEW c \in Int, NEW d \in Int
  PROVE  Shared(a, b, c, d) \in Nat
<1>1. Min({b, d}) \in Int /\ Max({a, c}) \in Int
  BY MinOfTwo, MaxOfTwo
<1> DEFINE x == Min({b, d}) - Max({a, c})
<1>2. x \in Int
  BY <1>1
<1> HIDE DEF x
<1>3. Max({0, x}) = IF 0 >= x THEN 0 ELSE x
  BY <1>2, MaxOfTwo
<1> QED
  BY <1>2, <1>3 DEF Shared, x

LEMMA ProjectedIsTyped ==
  ASSUME NEW steps \in RoutingSteps, NEW average \in Int, NEW from \in Int, NEW to \in Int
  PROVE  /\ Projected(steps, average, from, to).limit \in Int \cup {Unknown}
         /\ Projected(steps, average, from, to).speed \in Int
<1> DEFINE lengths == [i \in DOMAIN steps |-> steps[i].cells]
           on(i) == Shared(from, to, StartOf(lengths, i), StartOf(lengths, i + 1))
           met == {i \in DOMAIN steps : on(i) > 0}
           share == [i \in DOMAIN steps |->
                       Added([j \in DOMAIN steps |->
                                IF steps[j].class = steps[i].class THEN on(j) ELSE 0])]
           Dominant(i) == \A j \in met : share[j] <= share[i] /\ (j < i => share[j] < share[i])
           best == CHOOSE i \in met : Dominant(i)
           dominant == steps[best]
           timed == [i \in DOMAIN steps |-> IF steps[i].speed > 0 THEN on(i) ELSE 0]
           covered == Added(timed)
           driven == Added([i \in DOMAIN steps |-> timed[i] * steps[i].speed])
           p == Projected(steps, average, from, to)
<1>1. /\ Len(steps) \in Nat /\ DOMAIN steps = 1 .. Len(steps)
      /\ \A i \in DOMAIN steps : /\ steps[i].cells \in Nat /\ steps[i].class \in STRING
                                 /\ steps[i].limit \in Int \cup {Unknown} /\ steps[i].speed \in Int
  <2> DEFINE Step == [cells : Nat, class : STRING, limit : Int \cup {Unknown}, speed : Int]
  <2>1. steps \in Seq(Step)
    BY DEF RoutingSteps
  <2>2. \A s \in Step : /\ s.cells \in Nat /\ s.class \in STRING
                        /\ s.limit \in Int \cup {Unknown} /\ s.speed \in Int
    OBVIOUS
  <2> HIDE DEF Step
  <2>3. Len(steps) \in Nat /\ DOMAIN steps = 1 .. Len(steps) /\ \A i \in DOMAIN steps : steps[i] \in Step
    BY <2>1
  <2> QED
    BY <2>2, <2>3
<1>2. lengths \in Seq(Nat) /\ Len(lengths) = Len(steps)
  BY <1>1
<1>3. \A i \in DOMAIN steps : on(i) \in Nat
  <2> TAKE i \in DOMAIN steps
  <2>1. i \in 1 .. (Len(lengths) + 1) /\ i + 1 \in 1 .. (Len(lengths) + 1)
    BY <1>1, <1>2
  <2>2. StartOf(lengths, i) \in Nat /\ StartOf(lengths, i + 1) \in Nat
    BY <1>2, <2>1, StretchesFollow
  <2>3. StartOf(lengths, i) \in Int /\ StartOf(lengths, i + 1) \in Int
    BY <2>2
  <2> HIDE DEF lengths
  <2> QED
    BY <2>3, SharedIsNatural, Zenon
<1>4. /\ met = {} => p = [class |-> "unknown", limit |-> Unknown, speed |-> average]
      /\ met # {} => p = [class |-> dominant.class, limit |-> dominant.limit,
                          speed |-> IF covered = 0 THEN average ELSE driven \div covered]
  BY Zenon DEF Projected
<1> HIDE DEF on, lengths, p
<1>5. ASSUME NEW i \in DOMAIN steps PROVE share[i] \in Int
  <2> DEFINE like == [j \in DOMAIN steps |-> IF steps[j].class = steps[i].class THEN on(j) ELSE 0]
  <2>1. like \in Seq(Nat)
    BY <1>1, <1>3
  <2> HIDE DEF like
  <2>2. Added(like) \in Nat
    BY <2>1, AddedNaturals
  <2> QED
    BY <2>2 DEF like
<1>6. covered \in Nat
  <2>1. timed \in Seq(Nat)
    BY <1>1, <1>3
  <2> HIDE DEF timed
  <2> QED
    BY <2>1, AddedNaturals
<1>7. driven \in Int
  <2> DEFINE run == [i \in DOMAIN steps |-> timed[i] * steps[i].speed]
  <2>1. \A i \in DOMAIN steps : timed[i] \in Int
    BY <1>1, <1>3
  <2> HIDE DEF timed
  <2>2. \A i \in DOMAIN steps : timed[i] * steps[i].speed \in Int
    BY <1>1, <2>1
  <2>3. run \in Seq(Int)
    BY <1>1, <2>2
  <2> HIDE DEF run
  <2>4. Added(run) \in Int
    BY <2>3, AddedIntegers
  <2> QED
    BY <2>4 DEF run
<1>8. met # {} => best \in DOMAIN steps
  <2> SUFFICES ASSUME met # {} PROVE best \in DOMAIN steps
    OBVIOUS
  <2> HIDE DEF share
  <2>1. met \in SUBSET (1 .. Len(steps))
    BY <1>1
  <2> HIDE DEF met
  <2>2. \E i \in met : Dominant(i)
    BY <1>1, <1>5, <2>1, FirstGreatest
  <2> HIDE DEF Dominant
  <2>3. best \in met
    BY <2>2, Zenon
  <2> QED
    BY <1>1, <2>1, <2>3
<1> HIDE DEF met, best, covered, driven
<1>9. CASE met = {}
  <2>1. p.limit = Unknown /\ p.speed = average
    BY <1>4, <1>9
  <2>3. p.limit \in Int \cup {Unknown} /\ p.speed \in Int
    BY <2>1
  <2> QED
    BY <2>3 DEF p
<1>10. CASE met # {}
  <2>1. dominant.limit \in Int \cup {Unknown}
    BY <1>1, <1>8, <1>10
  <2>2. covered # 0 => driven \div covered \in Int
    BY <1>6, <1>7
  <2> QED
    BY <1>4, <1>10, <2>1, <2>2 DEF p
<1> QED
  BY <1>9, <1>10

\* What the energy needs to know of a stretch.
IsStretch(s) == s.from \in Nat /\ s.cells \in Nat /\ s.free \in Int

LEMMA StretchIsTyped ==
  ASSUME NEW from \in Nat, NEW cells \in Nat, NEW class,
         NEW limit \in Int \cup {Unknown}, NEW assumed \in Int \cup {Unknown}
  PROVE  /\ IsStretch(Segment(from, cells, class, limit, assumed))
         /\ Segment(from, cells, class, limit, assumed).from = from
         /\ Segment(from, cells, class, limit, assumed).cells = cells
BY SpeedIsTyped DEF Segment, IsStretch

\* The stretches of a route follow each other from its start.
RouteOf(segments, lengths) ==
  /\ lengths \in Seq(Nat)
  /\ segments = [i \in 1 .. Len(lengths) |-> segments[i]]
  /\ \A i \in 1 .. Len(lengths) :
       /\ IsStretch(segments[i])
       /\ segments[i].from = StartOf(lengths, i)
       /\ segments[i].cells = lengths[i]

LEMMA ResolvedIsTyped ==
  ASSUME NEW request \in RouteRequests
  PROVE  \E lengths : RouteOf(Resolved(request), lengths)
<1>1. CASE request.rows = Unknown
  <2> DEFINE lengths == request.pieces
             segments == PlannedSegments(request)
             n == Len(lengths)
  <2>1. lengths \in Seq(Nat) /\ request.steps \in RoutingSteps /\ request.average \in Int
    BY DEF RouteRequests
  <2>2. DOMAIN lengths = 1 .. n /\ n \in Nat /\ \A i \in 1 .. n : lengths[i] \in Nat
    BY <2>1
  <2>6. \A i \in 1 .. (n + 1) : StartOf(lengths, i) \in Nat
    <3> HIDE DEF lengths, segments
    <3> QED
      BY <2>1, StretchesFollow
  <2>3. ASSUME NEW i \in 1 .. n
        PROVE  /\ IsStretch(segments[i])
               /\ segments[i].from = StartOf(lengths, i) /\ segments[i].cells = lengths[i]
    <3> DEFINE from == StartOf(lengths, i)
               p == Projected(request.steps, request.average, from, from + lengths[i])
    <3>1. from \in Nat /\ from + lengths[i] \in Int
      <4>1. i \in 1 .. (n + 1) /\ lengths[i] \in Nat
        BY <2>2
      <4>2. from \in Nat
        BY <2>6, <4>1
      <4> HIDE DEF from
      <4> QED
        BY <4>1, <4>2
    <3>2. segments[i] = Segment(from, lengths[i], p.class, p.limit, p.speed)
      BY <2>2 DEF PlannedSegments
    <3> HIDE DEF from
    <3>3. p.limit \in Int \cup {Unknown} /\ p.speed \in Int
      BY <2>1, <3>1, ProjectedIsTyped
    <3>4. lengths[i] \in Nat /\ p.speed \in Int \cup {Unknown}
      BY <2>2, <3>3
    <3> DEFINE class == p.class
               limit == p.limit
               speed == p.speed
               cells == lengths[i]
    <3>5. /\ from \in Nat /\ cells \in Nat /\ limit \in Int \cup {Unknown}
          /\ speed \in Int \cup {Unknown} /\ segments[i] = Segment(from, cells, class, limit, speed)
      BY <3>1, <3>2, <3>3, <3>4
    <3> HIDE DEF class, limit, speed, cells, segments
    <3>6. IsStretch(segments[i]) /\ segments[i].from = from /\ segments[i].cells = cells
      BY <3>5, StretchIsTyped
    <3> QED
      BY <3>6 DEF from, cells
  <2>4. segments = [i \in 1 .. n |-> segments[i]]
    BY <2>2 DEF PlannedSegments
  <2>5. Resolved(request) = segments
    BY <1>1 DEF Resolved
  <2> HIDE DEF segments
  <2> QED
    BY <2>1, <2>3, <2>4, <2>5 DEF RouteOf
<1>2. CASE request.rows # Unknown
  <2> DEFINE rows == request.rows
             lengths == [i \in DOMAIN rows |-> rows[i].cells]
             segments == StoredSegments(rows)
             n == Len(rows)
             Row == [cells : Nat, class : STRING, limit : Int \cup {Unknown},
                     assumed : Int \cup {Unknown}]
  <2>1. rows \in Seq(Row)
    BY <1>2 DEF RouteRequests, StoredRows
  <2>2. /\ DOMAIN rows = 1 .. n /\ n \in Nat
        /\ \A i \in 1 .. n : /\ rows[i].cells \in Nat
                             /\ rows[i].limit \in Int \cup {Unknown}
                             /\ rows[i].assumed \in Int \cup {Unknown}
    <3>1. \A r \in Row : /\ r.cells \in Nat
                         /\ r.limit \in Int \cup {Unknown} /\ r.assumed \in Int \cup {Unknown}
      OBVIOUS
    <3> HIDE DEF Row, rows
    <3>2. DOMAIN rows = 1 .. n /\ n \in Nat /\ \A i \in 1 .. n : rows[i] \in Row
      BY <2>1
    <3> QED
      BY <3>1, <3>2
  <2>3. lengths \in Seq(Nat) /\ Len(lengths) = n
    BY <2>2
  <2>4. segments = [i \in 1 .. n |-> Segment(StartOf(lengths, i), rows[i].cells, rows[i].class,
                                             rows[i].limit, rows[i].assumed)]
    BY <2>2 DEF StoredSegments
  <2>5. \A i \in 1 .. n : lengths[i] = rows[i].cells
    BY <2>2
  <2> HIDE DEF segments, lengths
  <2>6. ASSUME NEW i \in 1 .. n
        PROVE  /\ IsStretch(segments[i])
               /\ segments[i].from = StartOf(lengths, i) /\ segments[i].cells = lengths[i]
    <3>1. StartOf(lengths, i) \in Nat
      BY <2>2, <2>3, StretchesFollow
    <3>2. segments[i] = Segment(StartOf(lengths, i), rows[i].cells, rows[i].class,
                                rows[i].limit, rows[i].assumed)
      BY <2>4
    <3>3. rows[i].cells \in Nat
          /\ rows[i].limit \in Int \cup {Unknown} /\ rows[i].assumed \in Int \cup {Unknown}
      BY <2>2
    <3> DEFINE from == StartOf(lengths, i)
               class == rows[i].class
               limit == rows[i].limit
               assumed == rows[i].assumed
               cells == rows[i].cells
    <3>4. /\ from \in Nat /\ cells \in Nat /\ limit \in Int \cup {Unknown}
          /\ assumed \in Int \cup {Unknown}
          /\ segments[i] = Segment(from, cells, class, limit, assumed)
      BY <3>1, <3>2, <3>3
    <3> HIDE DEF class, limit, assumed, cells, from
    <3>5. IsStretch(segments[i]) /\ segments[i].from = from /\ segments[i].cells = cells
      BY <3>4, StretchIsTyped
    <3> QED
      BY <2>5, <3>5 DEF from, cells
  <2>7. segments = [i \in 1 .. n |-> segments[i]]
    BY <2>4
  <2>8. Resolved(request) = segments
    BY <1>2 DEF Resolved, segments
  <2> HIDE DEF n
  <2> QED
    BY <2>3, <2>6, <2>7, <2>8 DEF RouteOf
<1> QED
  BY <1>1, <1>2

LEMMA IsASeq ==
  ASSUME NEW S, NEW n \in Nat, NEW f, f = [i \in 1 .. n |-> f[i]], \A i \in 1 .. n : f[i] \in S
  PROVE  f \in Seq(S) /\ Len(f) = n
OBVIOUS

LEMMA BoundedHasBounds ==
  ASSUME NEW a \in Int, NEW b \in Int, NEW T \in SUBSET (a .. b), T # {}
  PROVE  /\ Max(T) \in T /\ \A y \in T : Max(T) >= y
         /\ Min(T) \in T /\ \A y \in T : Min(T) <= y
<1> DEFINE n == b - a + 1
           met == {i \in 1 .. n : a + i - 1 \in T}
           up == [i \in 1 .. n |-> i]
           down == [i \in 1 .. n |-> 0 - i]
<1>1. PICK t \in T : TRUE
  OBVIOUS
<1>2. t \in a .. b /\ a <= b /\ n \in Nat
  BY <1>1
<1>3. t - a + 1 \in 1 .. n /\ a + (t - a + 1) - 1 = t
  BY <1>2
<1>4. met # {} /\ met \in SUBSET (1 .. n)
  BY <1>1, <1>3
<1>5. \A i \in 1 .. n : up[i] = i /\ up[i] \in Int /\ down[i] = 0 - i /\ down[i] \in Int
  BY <1>2
<1>6. \A y \in T : y - a + 1 \in met /\ y \in Int
  <2> TAKE y \in T
  <2>1. y \in a .. b
    OBVIOUS
  <2>2. y - a + 1 \in 1 .. n /\ a + (y - a + 1) - 1 = y /\ y \in Int
    BY <1>2, <2>1
  <2> QED
    BY <2>2
<1>7. \A i \in met : i \in 1 .. n /\ i \in Int /\ a + i - 1 \in T
  BY <1>2
<1> HIDE DEF n, met, up, down
<1>8. PICK i \in met : \A j \in met : up[j] <= up[i]
  BY <1>2, <1>4, <1>5, FirstGreatest
<1>9. PICK k \in met : \A j \in met : down[j] <= down[k]
  BY <1>2, <1>4, <1>5, FirstGreatest
<1>10. \A j \in met : j <= i /\ k <= j
  <2> TAKE j \in met
  <2>1. i \in 1 .. n /\ j \in 1 .. n /\ k \in 1 .. n /\ i \in Int /\ j \in Int /\ k \in Int
    BY <1>7
  <2>2. up[j] <= up[i] /\ down[j] <= down[k]
    BY <1>8, <1>9
  <2>3. up[j] = j /\ up[i] = i /\ down[j] = 0 - j /\ down[k] = 0 - k
    BY <1>5, <2>1
  <2> QED
    BY <2>1, <2>2, <2>3
<1>11. \A y \in T : a + i - 1 >= y /\ a + k - 1 <= y
  <2> TAKE y \in T
  <2> DEFINE j == y - a + 1
  <2>1. j \in met /\ y \in Int /\ j \in Int /\ y = a + j - 1
    BY <1>6
  <2> HIDE DEF j
  <2>2. j <= i /\ k <= j /\ i \in Int /\ k \in Int
    BY <1>7, <1>10, <2>1
  <2> QED
    BY <2>1, <2>2
<1>12. a + i - 1 \in T /\ a + k - 1 \in T /\ T \subseteq Int
  BY <1>7
<1>13. (\E x \in T : \A y \in T : x >= y) /\ (\E x \in T : \A y \in T : x <= y)
  BY <1>11, <1>12
<1> QED
  BY <1>13, Zenon DEF Max, Min

LEMMA WorstIsASeverity ==
  ASSUME NEW events \in SUBSET TrafficReports
  PROVE  Worst(events) \in 0 .. 3
<1> DEFINE T == {0} \cup {e.severity : e \in events}
<1>1. \A e \in events : e.severity \in 0 .. 3
  <2>1. \A e \in TrafficReports : e.severity \in 0 .. 3
    <3> TAKE e \in TrafficReports
    <3>1. e \in [id : Nat, from : Int, to : Int, off : Nat, severity : 0 .. 3,
                starts : Int \cup {Unknown}, ends : Int \cup {Unknown}, mode : STRING]
      BY DEF TrafficReports
    <3> QED
      BY <3>1
  <2> QED
    BY <2>1
<1>2. T \in SUBSET (0 .. 3) /\ T # {}
  BY <1>1
<1> HIDE DEF T
<1>3. Max(T) \in T
  BY <1>2, BoundedHasBounds
<1> QED
  BY <1>2, <1>3 DEF Worst, T

LEMMA ReadingsAreTyped ==
  ASSUME NEW request \in RouteRequests
  PROVE  \A r \in request.readings :
           /\ r.id \in Nat /\ r.at \in Int /\ r.off \in Nat /\ r.time \in Int
           /\ r.temp \in ((-60) .. 60) \cup {Unknown}
<1>1. request.readings \in SUBSET WeatherReadings
  BY DEF RouteRequests
<1>2. \A r \in WeatherReadings :
           /\ r.id \in Nat /\ r.at \in Int /\ r.off \in Nat /\ r.time \in Int
           /\ r.temp \in ((-60) .. 60) \cup {Unknown}
  BY DEF WeatherReadings
<1> QED
  BY <1>1, <1>2

\* A segment adopts at most one reading.
LEMMA AdoptedIsOne ==
  ASSUME NEW request \in RouteRequests, NEW segment, IsStretch(segment),
         NEW recent \in SUBSET request.readings,
         NEW r \in Adopted(segment, recent), NEW o \in Adopted(segment, recent)
  PROVE  r = o
<1>1. r \in recent /\ o \in recent
  BY DEF Adopted
<1>2. \A x \in recent : DistanceTo(segment, x) \in Int /\ x.id \in Int
  <2> TAKE x \in recent
  <2>1. x.id \in Nat /\ x.at \in Int /\ x.off \in Nat
    BY ReadingsAreTyped
  <2>2. segment.from \in Nat /\ segment.cells \in Nat
    BY DEF IsStretch
  <2> QED
    BY <2>1, <2>2 DEF DistanceTo, Magnitude
<1>3. SUFFICES ASSUME r # o PROVE FALSE
  OBVIOUS
<1>4. /\ \/ DistanceTo(segment, r) < DistanceTo(segment, o)
         \/ DistanceTo(segment, r) = DistanceTo(segment, o) /\ r.id < o.id
      /\ \/ DistanceTo(segment, o) < DistanceTo(segment, r)
         \/ DistanceTo(segment, o) = DistanceTo(segment, r) /\ o.id < r.id
  BY <1>1, <1>3 DEF Adopted
<1> QED
  BY <1>1, <1>2, <1>4

LEMMA WeatherIsOne ==
  ASSUME NEW request \in RouteRequests, NEW segments, NEW lengths, RouteOf(segments, lengths),
         NEW i \in DOMAIN segments
  PROVE  /\ WeatherOf(request, segments, i) \subseteq request.readings
         /\ \A r, o \in WeatherOf(request, segments, i) : r = o
<1>1. Recent(segments, request.readings) \in SUBSET request.readings
  BY DEF Recent
<1>2. IsStretch(segments[i])
  <2>1. DOMAIN segments = 1 .. Len(lengths)
    BY DEF RouteOf
  <2> QED
    BY <2>1 DEF RouteOf
<1>3. WeatherOf(request, segments, i) \subseteq Adopted(segments[i], Recent(segments, request.readings))
  BY DEF WeatherOf
<1>4. Adopted(segments[i], Recent(segments, request.readings)) \subseteq request.readings
  BY <1>1 DEF Adopted
<1>5. \A r, o \in Adopted(segments[i], Recent(segments, request.readings)) : r = o
  BY <1>1, <1>2, AdoptedIsOne
<1> QED
  BY <1>3, <1>4, <1>5

\* Numbers of which one is positive add up to something.
LEMMA AddedPositive ==
  ASSUME NEW counts \in Seq(Nat), NEW i \in 1 .. Len(counts), counts[i] > 0
  PROVE  Added(counts) > 0
<1> DEFINE n == i - 1
<1>1. /\ n \in Nat /\ n < Len(counts) /\ i = n + 1 /\ n \in 0 .. Len(counts)
      /\ n + 1 \in 0 .. Len(counts) /\ Len(counts) \in (n + 1) .. Len(counts)
      /\ counts[i] \in Nat
  OBVIOUS
<1> HIDE DEF n
<1>2. Added(SubSeq(counts, 1, n + 1)) = Added(SubSeq(counts, 1, n)) + counts[n + 1]
  BY <1>1, AddedOneMore, Zenon
<1>3. Added(SubSeq(counts, 1, n)) \in Nat /\ Added(SubSeq(counts, 1, n + 1)) \in Nat
  BY <1>1, AddedNaturals
<1>4. Added(SubSeq(counts, 1, n + 1)) <= Added(SubSeq(counts, 1, Len(counts)))
  BY <1>1, SumsGrow
<1>5. SubSeq(counts, 1, Len(counts)) = counts /\ Added(counts) \in Nat
  BY Beginnings, AddedNaturals
<1> DEFINE a == Added(SubSeq(counts, 1, n))
           b == Added(SubSeq(counts, 1, n + 1))
<1>6. a \in Nat /\ b = a + counts[n + 1] /\ counts[n + 1] \in Nat /\ counts[n + 1] > 0
  BY <1>1, <1>2, <1>3
<1>7. b <= Added(counts) /\ Added(counts) \in Nat
  BY <1>4, <1>5
<1> HIDE DEF a, b
<1> QED
  BY <1>6, <1>7

\* The mean lies between what it is the mean of.
LEMMA MeanIsBetween ==
  ASSUME NEW request \in RouteRequests, NEW segments, NEW lengths, RouteOf(segments, lengths),
         NEW low \in Int, NEW high \in Int,
         \A i \in DOMAIN segments : \A r \in WeatherOf(request, segments, i) :
           r.temp # Unknown => r.temp \in low .. high
  PROVE  \/ MeanTemperature(request, segments) = Reference
         \/ /\ MeanTemperature(request, segments) \in low .. high
            /\ \E i \in DOMAIN segments : \E r \in WeatherOf(request, segments, i) : r.temp # Unknown
<1> DEFINE measured == {i \in DOMAIN segments :
                          \E r \in WeatherOf(request, segments, i) : r.temp # Unknown}
           at(i) == (CHOOSE r \in WeatherOf(request, segments, i) : TRUE).temp
           warmth == [i \in DOMAIN segments |-> IF i \in measured THEN [j \in measured |-> at(j)][i] ELSE 0]
           counts == [i \in DOMAIN segments |-> IF i \in measured THEN [j \in measured |-> 1][i] ELSE 0]
           n == Len(lengths)
<1>1. DOMAIN segments = 1 .. n /\ n \in Nat
  BY DEF RouteOf
<1>2. MeanTemperature(request, segments) = IF measured = {} THEN Reference
                                           ELSE Added(warmth) \div Added(counts)
  BY Zenon DEF MeanTemperature
<1>3. SUFFICES ASSUME measured # {} PROVE Added(warmth) \div Added(counts) \in low .. high
  BY <1>2
<1>4. \A i \in measured : at(i) \in low .. high
  <2> TAKE i \in measured
  <2>1. PICK r \in WeatherOf(request, segments, i) : r.temp # Unknown
    OBVIOUS
  <2>2. (CHOOSE o \in WeatherOf(request, segments, i) : TRUE) \in WeatherOf(request, segments, i)
    BY <2>1, Zenon
  <2>3. (CHOOSE o \in WeatherOf(request, segments, i) : TRUE) = r
    BY <2>1, <2>2, WeatherIsOne
  <2>4. r.temp \in low .. high
    BY <2>1
  <2> QED
    BY <2>3, <2>4
<1> HIDE DEF at, measured
<1>5. /\ \A i \in 1 .. n : warmth[i] = IF i \in measured THEN at(i) ELSE 0
      /\ \A i \in 1 .. n : counts[i] = IF i \in measured THEN 1 ELSE 0
  BY <1>1
<1>6. warmth = [i \in 1 .. n |-> warmth[i]] /\ counts = [i \in 1 .. n |-> counts[i]]
  BY <1>1
<1> HIDE DEF warmth, counts, n
<1>7. \A i \in 1 .. n : warmth[i] \in Int /\ counts[i] \in Nat
                        /\ low * counts[i] <= warmth[i] /\ warmth[i] <= high * counts[i]
  BY <1>4, <1>5
<1>8. warmth \in Seq(Int) /\ counts \in Seq(Nat) /\ Len(warmth) = n /\ Len(counts) = n
  <2>1. (\A i \in 1 .. n : warmth[i] \in Int) /\ (\A i \in 1 .. n : counts[i] \in Nat)
    BY <1>7
  <2>2. warmth \in Seq(Int) /\ Len(warmth) = n
    BY <1>1, <1>6, <2>1, IsASeq
  <2>3. counts \in Seq(Nat) /\ Len(counts) = n
    BY <1>1, <1>6, <2>1, IsASeq
  <2> QED
    BY <2>2, <2>3
<1>9. /\ Added(warmth) \in Int /\ Added(counts) \in Nat
      /\ low * Added(counts) <= Added(warmth) /\ Added(warmth) <= high * Added(counts)
  BY <1>7, <1>8, AddedBetween
<1>10. Added(counts) > 0
  <2>1. PICK i \in measured : i \in 1 .. n
    BY <1>1, <1>3 DEF measured
  <2>2. counts[i] > 0
    BY <1>5, <2>1
  <2> QED
    BY <1>8, <2>1, <2>2, AddedPositive
<1> DEFINE a == Added(warmth)
           b == Added(counts)
           q == a \div b
<1>11. a \in Int /\ b \in Nat \ {0} /\ low * b <= a /\ a <= high * b
  BY <1>9, <1>10
<1> HIDE DEF a, b
<1>12. q \in Int /\ b * q <= a /\ a < b * q + b
  BY <1>11, Euclid
<1> HIDE DEF q
<1>13. /\ b * (q + 1) = b * q + b /\ b * low = low * b /\ b * high = high * b
       /\ b * q \in Int /\ b * low \in Int /\ b * high \in Int /\ q + 1 \in Int
  BY <1>11, <1>12
<1>14. b * low < b * (q + 1) /\ b * q <= b * high
  BY <1>11, <1>12, <1>13
<1>15. low < q + 1 /\ q <= high
  BY <1>11, <1>12, <1>13, <1>14, FactorOut
<1> QED
  BY <1>12, <1>15 DEF a, b, q

LEMMA SlowedIsTyped ==
  ASSUME NEW free \in Int, NEW severity \in 0 .. 3
  PROVE  Slowed(free, severity) \in Int
<1>1. DelayFactor(severity) \in {100, 115, 140, 200}
  <2>1. severity = 0 \/ severity = 1 \/ severity = 2 \/ severity = 3
    OBVIOUS
  <2> QED
    BY <2>1 DEF DelayFactor
<1> DEFINE q == (free * 100) \div DelayFactor(severity)
<1>2. q \in Int
  BY <1>1
<1> HIDE DEF q
<1>3. Max({1, q}) \in Int
  BY <1>2, MaxOfTwo
<1> QED
  BY <1>3 DEF Slowed, SlowestSpeed, q

LEMMA EventsAreTyped ==
  ASSUME NEW request \in RouteRequests, NEW segments, NEW i
  PROVE  EventsOn(request, segments, i) \in SUBSET TrafficReports
<1>1. request.events \in SUBSET TrafficReports
  BY DEF RouteRequests
<1> QED
  BY <1>1 DEF EventsOn

LEMMA ConditionIsTyped ==
  ASSUME NEW request \in RouteRequests, NEW segments, NEW lengths, RouteOf(segments, lengths),
         NEW i \in DOMAIN segments
  PROVE  SegmentCondition(request, segments, i) \in MeasuredConditions
<1> DEFINE severity == Worst(EventsOn(request, segments, i))
           temperatures == {r.temp : r \in WeatherOf(request, segments, i)} \ {Unknown}
           temp == IF temperatures = {} THEN MeanTemperature(request, segments)
                   ELSE CHOOSE t \in temperatures : TRUE
           speed == Slowed(segments[i].free, severity)
           c == SegmentCondition(request, segments, i)
<1>1. IsStretch(segments[i])
  <2>1. DOMAIN segments = 1 .. Len(lengths)
    BY DEF RouteOf
  <2> QED
    BY <2>1 DEF RouteOf
<1>2. severity \in 0 .. 3
  BY EventsAreTyped, WorstIsASeverity
<1>3. speed \in Int
  BY <1>1, <1>2, SlowedIsTyped DEF IsStretch
<1>4. ASSUME NEW j \in DOMAIN segments, NEW r \in WeatherOf(request, segments, j), r.temp # Unknown
      PROVE  r.temp \in (-60) .. 60
  <2>1. r \in request.readings
    BY WeatherIsOne
  <2> QED
    BY <1>4, <2>1, ReadingsAreTyped
<1>5. temp \in (-60) .. 60
  <2>1. CASE temperatures = {}
    <3>1. \E low \in Int, high \in Int :
            /\ low = -60 /\ high = 60
            /\ \A j \in DOMAIN segments : \A r \in WeatherOf(request, segments, j) :
                 r.temp # Unknown => r.temp \in low .. high
      <4> WITNESS -60 \in Int, 60 \in Int
      <4> QED
        BY <1>4
    <3>2. PICK low \in Int, high \in Int :
            /\ low = -60 /\ high = 60
            /\ \A j \in DOMAIN segments : \A r \in WeatherOf(request, segments, j) :
                 r.temp # Unknown => r.temp \in low .. high
      BY <3>1
    <3>3. MeanTemperature(request, segments) = Reference
          \/ MeanTemperature(request, segments) \in low .. high
      BY <3>2, MeanIsBetween
    <3>4. low .. high = (-60) .. 60
      BY <3>2
    <3> QED
      BY <2>1, <3>3, <3>4 DEF Reference
  <2>2. CASE temperatures # {}
    <3>1. temp \in temperatures
      BY <2>2, Zenon
    <3> QED
      BY <1>4, <3>1
  <2> QED
    BY <2>1, <2>2
<1>6. c = [cells |-> segments[i].cells, speed |-> speed,
           severity |-> severity, grade |-> 0, accel |-> 0, headwind |-> 0,
           battery |-> Unknown, duration |-> Unknown, temp |-> temp]
  BY Zenon DEF SegmentCondition
<1> HIDE DEF severity, temp, speed, c
<1>7. c \in MeasuredConditions
  BY <1>1, <1>2, <1>3, <1>5, <1>6 DEF MeasuredConditions, IsStretch
<1> QED
  BY <1>7 DEF c

LEMMA ServedIsNatural ==
  ASSUME NEW request \in RouteRequests, NEW c \in MeasuredConditions
  PROVE  Served(request, c) \in Nat
<1> DEFINE physical == SegmentEnergy(c).kwh
<1>1. PICK sum \in Int, standing \in Nat : physical = IF sum + standing < 0 THEN 0 ELSE sum + standing
  BY SegmentAddsUp
<1>2. physical \in Nat
  BY <1>1
<1>3. request.rate \in Int \cup {Unknown} /\ c.cells \in Nat
  BY DEF RouteRequests, MeasuredConditions
<1>4. request.rate # Unknown => Max({0, request.rate}) \in Nat
  BY <1>3, MaxOfTwo
<1>5. request.rate # Unknown => Predicted(request, c.cells) \in Nat
  BY <1>3, <1>4 DEF Predicted
<1> HIDE DEF physical
<1> QED
  BY <1>2, <1>5 DEF Served, physical

-----------------------------------------------------------------------------
(* The charge along a route *)

LEMMA ClampedIs ==
  ASSUME NEW x \in Int
  PROVE  Clamped(x) = IF x < 0 THEN 0 ELSE IF x > Usable THEN Usable ELSE x
<1>1. Usable \in Nat
  BY RouteAssumption
<1>2. Min({Usable, x}) = IF Usable <= x THEN Usable ELSE x
  BY <1>1, MinOfTwo
<1> DEFINE m == Min({Usable, x})
<1>3. m \in Int
  BY <1>1, <1>2
<1> HIDE DEF m
<1>4. Max({0, m}) = IF 0 >= m THEN 0 ELSE m
  BY <1>3, MaxOfTwo
<1> QED
  BY <1>1, <1>2, <1>4 DEF Clamped, m

\* The charges that are left after each of these energies.
ChargesOf(energies, start) ==
  [n \in 1 .. Len(energies) |-> Clamped(start - Added(SubSeq(energies, 1, n)))]

\* The least charge is the last; below the reserve at some segment is below it at the end.
LEMMA ChargesFall ==
  ASSUME NEW energies \in Seq(Nat), Len(energies) > 0,
         NEW start \in 0 .. Usable, NEW reserve \in 0 .. Usable
  PROVE  LET charges == ChargesOf(energies, start)
             all == {charges[i] : i \in 1 .. Len(energies)}
             arrival == start - Added(SubSeq(energies, 1, Len(energies)))
             deficit == Max({0, reserve - arrival})
         IN  /\ (\E c \in all : c < reserve) => deficit > 0
             /\ deficit > 0 => (\E c \in all : c < reserve) \/ (reserve = 0 /\ 0 \in all)
             /\ \A i, j \in 1 .. Len(energies) : i < j => charges[i] >= charges[j]
             /\ Clamped(arrival) = Min(all)
<1> DEFINE N == Len(energies)
           left(n) == start - Added(SubSeq(energies, 1, n))
           charges == ChargesOf(energies, start)
           all == {charges[i] : i \in 1 .. N}
           deficit == Max({0, reserve - left(N)})
<1>1. /\ N \in Nat \ {0} /\ start \in Int /\ reserve \in Int /\ reserve >= 0 /\ reserve <= Usable
      /\ Usable \in Nat
  BY RouteAssumption
<1>2. \A n \in 1 .. N : left(n) \in Int
  <2> TAKE n \in 1 .. N
  <2>1. n \in 0 .. Len(energies)
    BY <1>1
  <2>2. Added(SubSeq(energies, 1, n)) \in Nat
    BY <2>1, AddedNaturals
  <2> QED
    BY <1>1, <2>2
<1>3. \A i, j \in 1 .. N : i <= j => left(i) >= left(j)
  <2> SUFFICES ASSUME NEW i \in 1 .. N, NEW j \in 1 .. N, i <= j PROVE left(i) >= left(j)
    OBVIOUS
  <2>1. i \in 0 .. Len(energies) /\ j \in i .. Len(energies) /\ j \in 0 .. Len(energies)
    BY <1>1
  <2>2. Added(SubSeq(energies, 1, i)) <= Added(SubSeq(energies, 1, j))
    BY <2>1, SumsGrow
  <2>3. Added(SubSeq(energies, 1, i)) \in Nat /\ Added(SubSeq(energies, 1, j)) \in Nat
    BY <2>1, AddedNaturals
  <2> QED
    BY <1>1, <2>2, <2>3
<1>4. \A n \in 1 .. N : charges[n] = Clamped(left(n))
  BY DEF ChargesOf
<1> HIDE DEF left, charges
<1>5. \A n \in 1 .. N : charges[n] = IF left(n) < 0 THEN 0 ELSE IF left(n) > Usable THEN Usable ELSE left(n)
  BY <1>2, <1>4, ClampedIs
<1>6. N \in 1 .. N /\ \A i \in 1 .. N : i <= N
  BY <1>1
<1>7. deficit = IF 0 >= reserve - left(N) THEN 0 ELSE reserve - left(N)
  BY <1>1, <1>2, <1>6, MaxOfTwo
<1> HIDE DEF deficit, N
<1>8. ASSUME NEW i \in 1 .. N, charges[i] < reserve PROVE deficit > 0
  <2>1. left(i) \in Int /\ left(N) \in Int /\ left(i) >= left(N)
    BY <1>2, <1>3, <1>6
  <2>2. left(i) < reserve
    BY <1>1, <1>5, <1>8, <2>1
  <2> QED
    BY <1>1, <1>7, <2>1, <2>2
<1>9. ASSUME deficit > 0 PROVE charges[N] < reserve \/ (reserve = 0 /\ charges[N] = 0)
  <2>1. left(N) \in Int /\ left(N) < reserve
    BY <1>1, <1>2, <1>6, <1>7, <1>9
  <2> QED
    BY <1>1, <1>5, <1>6, <2>1
<1>10. ASSUME NEW i \in 1 .. N, NEW j \in 1 .. N, i <= j PROVE charges[i] >= charges[j]
  <2>1. left(i) \in Int /\ left(j) \in Int /\ left(i) >= left(j)
    BY <1>2, <1>3, <1>10
  <2> QED
    BY <1>1, <1>5, <2>1
<1>11. charges[N] = Min(all)
  <2>1. \A i \in 1 .. N : charges[i] \in Int
    BY <1>1, <1>2, <1>5
  <2>2. charges[N] \in all /\ all \subseteq Int /\ \A c \in all : charges[N] <= c
    <3>1. \A i \in 1 .. N : charges[N] <= charges[i]
      BY <1>6, <1>10, <2>1
    <3> QED
      BY <1>6, <2>1, <3>1
  <2> HIDE DEF all
  <2> QED
    BY <2>2, SmallestOf
<1>12. \A i, j \in 1 .. N : i < j => charges[i] >= charges[j]
  BY <1>1, <1>10
<1>13. charges[N] \in all
  BY <1>6
<1>14. (\E c \in all : c < reserve) => deficit > 0
  BY <1>8
<1>15. deficit > 0 => (\E c \in all : c < reserve) \/ (reserve = 0 /\ 0 \in all)
  BY <1>9, <1>13
<1>16. Clamped(left(N)) = Min(all)
  BY <1>4, <1>6, <1>11
<1> QED
  BY <1>12, <1>14, <1>15, <1>16 DEF left, charges, deficit, N

-----------------------------------------------------------------------------
(* The traffic of a route *)

LEMMA ReportsAreTyped ==
  ASSUME NEW request \in RouteRequests
  PROVE  \A e \in request.events : e.id \in Nat /\ e.from \in Int /\ e.to \in Int /\ e.off \in Nat
<1>1. request.events \in SUBSET TrafficReports
  BY DEF RouteRequests
<1>2. \A e \in TrafficReports : e.id \in Nat /\ e.from \in Int /\ e.to \in Int /\ e.off \in Nat
  BY DEF TrafficReports
<1> QED
  BY <1>1, <1>2

\* What is within a buffer no wider than the padding is in the padded box.
LEMMA ReachedIsInBox ==
  ASSUME NEW request \in RouteRequests, NEW segments, NEW lengths, RouteOf(segments, lengths),
         request.buffer <= BoxPadding,
         NEW i \in DOMAIN segments, NEW e \in request.events,
         ReachesSegment(request, segments[i], e)
  PROVE  InBox(segments, e.from, e.to, e.off)
<1> DEFINE n == Len(lengths)
           from == segments[i].from
           end == EndOfSegment(segments[i])
           M == Max({0, from - e.to, e.from - end})
           R == RouteCells(segments)
<1>1. DOMAIN segments = 1 .. n /\ n \in Nat /\ Len(segments) = n /\ lengths \in Seq(Nat)
      /\ \A j \in 1 .. n : lengths[j] \in Nat
  BY DEF RouteOf
<1>2. i \in 1 .. n /\ n \in 1 .. n /\ i \in 1 .. (n + 1) /\ n + 1 \in 1 .. (n + 1)
  BY <1>1
<1>3. \A j \in 1 .. n : /\ segments[j].from = StartOf(lengths, j) /\ segments[j].cells = lengths[j]
                        /\ StartOf(lengths, j + 1) = StartOf(lengths, j) + lengths[j]
                        /\ StartOf(lengths, j + 1) <= StartOf(lengths, n + 1)
  BY <1>1, StretchesFollow DEF RouteOf
<1>4. R = segments[n].from + segments[n].cells
  BY <1>1 DEF RouteCells, Last, EndOfSegment
<1>5. R = StartOf(lengths, n + 1) /\ end = StartOf(lengths, i + 1)
  BY <1>2, <1>3, <1>4 DEF EndOfSegment
<1>6. from \in Nat /\ StartOf(lengths, n + 1) \in Nat /\ lengths[i] \in Nat /\ from = StartOf(lengths, i)
  BY <1>1, <1>2, <1>3, StretchesFollow
<1>7. end \in Int /\ R \in Int /\ end <= R
  BY <1>2, <1>3, <1>5, <1>6
<1>8. e.from \in Int /\ e.to \in Int /\ e.off \in Nat
  BY ReportsAreTyped
<1>9. request.buffer \in Nat /\ BoxPadding \in Nat
  BY RouteAssumption DEF RouteRequests
<1>10. e.off + M <= request.buffer
  BY DEF ReachesSegment
<1> HIDE DEF from, end, R
<1> DEFINE x == from - e.to
           y == e.from - end
<1>11. x \in Int /\ y \in Int
  BY <1>6, <1>7, <1>8
<1>12. M \in {0, x, y} /\ M >= 0 /\ M >= x /\ M >= y
  <2> HIDE DEF x, y
  <2> DEFINE z == 0
  <2>0. z \in Int /\ x \in Int /\ y \in Int
    BY <1>11
  <2> HIDE DEF z
  <2>1. Max({z, x, y}) \in {z, x, y} /\ Max({z, x, y}) >= z /\ Max({z, x, y}) >= x /\ Max({z, x, y}) >= y
    BY <2>0, MaxOfThree
  <2> QED
    BY <2>1 DEF x, y, z
<1>13. M \in Int
  BY <1>11, <1>12
<1> HIDE DEF M
<1>14. e.off <= BoxPadding /\ from - e.to <= BoxPadding /\ e.from - end <= BoxPadding
  BY <1>8, <1>9, <1>10, <1>11, <1>12, <1>13
<1>15. e.to >= -BoxPadding /\ e.from <= R + BoxPadding
  BY <1>6, <1>7, <1>8, <1>9, <1>14
<1> QED
  BY <1>14, <1>15 DEF InBox, R

LEMMA EventsAreComplete ==
  ASSUME NEW request \in RouteRequests, NEW segments, NEW lengths, RouteOf(segments, lengths),
         request.buffer <= BoxPadding, NEW i \in DOMAIN segments
  PROVE  EventsOn(request, segments, i) =
           {e \in request.events : Active(e) /\ ReachesSegment(request, segments[i], e)}
<1>1. \A e \in request.events : ReachesSegment(request, segments[i], e) => InBox(segments, e.from, e.to, e.off)
  BY ReachedIsInBox
<1> QED
  BY <1>1 DEF EventsOn

\* Lists of S, each with elements of its own; and their elements in one list.
Owned(n, S, seqs, owner) ==
  /\ n \in Nat \ {0} /\ seqs \in Seq(Seq(S)) /\ Len(seqs) = n
  /\ \A i \in 1 .. n : \A p \in 1 .. Len(seqs[i]) : owner[seqs[i][p]] = i
  /\ \A i \in 1 .. n : \A p, q \in 1 .. Len(seqs[i]) : p < q => seqs[i][p] # seqs[i][q]

InOrderOf(n, S, seqs, owner, flat) ==
  /\ flat \in Seq(S)
  /\ \A p \in 1 .. Len(flat) : \E i \in 1 .. n : \E q \in 1 .. Len(seqs[i]) : flat[p] = seqs[i][q]
  /\ \A i \in 1 .. n : \A q \in 1 .. Len(seqs[i]) : \E p \in 1 .. Len(flat) : flat[p] = seqs[i][q]
  /\ \A p, q \in 1 .. Len(flat) :
       p < q => flat[p] # flat[q] /\ owner[flat[p]] <= owner[flat[q]]

LEMMA OwnedInOrder ==
  ASSUME NEW n, NEW S, NEW seqs, NEW owner, Owned(n, S, seqs, owner)
  PROVE  InOrderOf(n, S, seqs, owner, FlattenSeq(seqs))
<1>1. n \in Nat \ {0} /\ seqs \in Seq(Seq(S)) /\ Len(seqs) = n
  BY DEF Owned
<1>2. \A i \in 1 .. n : \A p \in 1 .. Len(seqs[i]) : owner[seqs[i][p]] = i
  BY DEF Owned
<1>3. \A i \in 1 .. n : \A p, q \in 1 .. Len(seqs[i]) : p < q => seqs[i][p] # seqs[i][q]
  BY DEF Owned
<1> QED
  BY <1>1, <1>2, <1>3, FlattenKeepsOrder DEF InOrderOf

\* The list has every event on the route once, in the order of the segments they begin on.
LEMMA EventsAreListed ==
  ASSUME NEW request \in RouteRequests, Keyed(request.events),
         NEW segments, NEW lengths, RouteOf(segments, lengths), Len(lengths) > 0
  PROVE  LET on(i) == EventsOn(request, segments, i)
             first(e) == Min({i \in DOMAIN segments : e \in on(i)})
             listed == EventsInOrder(request, segments)
         IN  /\ ToSet(listed) = UNION {on(i) : i \in DOMAIN segments}
             /\ \A j, k \in DOMAIN listed :
                  j < k => listed[j] # listed[k] /\ first(listed[j]) <= first(listed[k])
<1> DEFINE n == Len(lengths)
           S == request.events
           on(i) == EventsOn(request, segments, i)
           new(i) == on(i) \ UNION {on(j) : j \in 1 .. (i - 1)}
           first(e) == Min({i \in DOMAIN segments : e \in on(i)})
           seqs == [i \in DOMAIN segments |-> ById(new(i))]
           owner == [e \in S |-> first(e)]
           listed == EventsInOrder(request, segments)
<1>1. DOMAIN segments = 1 .. n /\ n \in Nat \ {0}
  BY DEF RouteOf
<1>2. \A i : on(i) \subseteq S
  BY DEF EventsOn
<1>3. listed = FlattenSeq(seqs)
  BY Zenon DEF EventsInOrder
<1> HIDE DEF on
<1>4. ASSUME NEW i \in 1 .. n, NEW e \in new(i) PROVE first(e) = i
  <2> DEFINE T == {j \in DOMAIN segments : e \in on(j)}
  <2>1. i \in T /\ T \subseteq Int
    BY <1>1
  <2>2. \A j \in T : i <= j
    <3> SUFFICES ASSUME NEW j \in T, j < i PROVE FALSE
      BY <1>1, <2>1
    <3>1. j \in 1 .. (i - 1) /\ e \in on(j)
      BY <1>1
    <3> QED
      BY <3>1
  <2> HIDE DEF T
  <2>3. Min(T) = i
    BY <2>1, <2>2, SmallestOf
  <2> QED
    BY <2>3 DEF T
<1>5. ASSUME NEW e, NEW j \in 1 .. n, e \in on(j) PROVE \E i \in 1 .. n : e \in new(i)
  <2> DEFINE T == {i \in 1 .. n : e \in on(i)}
  <2>1. T \in SUBSET (1 .. n) /\ T # {} /\ 1 \in Int /\ n \in Int
    BY <1>1, <1>5
  <2> HIDE DEF T
  <2>2. Min(T) \in T /\ \A y \in T : Min(T) <= y
    BY <2>1, BoundedHasBounds
  <2> DEFINE m == Min(T)
  <2>3. m \in 1 .. n /\ e \in on(m)
    BY <2>2 DEF T
  <2>4. \A i \in 1 .. (m - 1) : e \notin on(i)
    <3> SUFFICES ASSUME NEW i \in 1 .. (m - 1), e \in on(i) PROVE FALSE
      OBVIOUS
    <3>1. i \in T
      BY <1>1, <2>3 DEF T
    <3> HIDE DEF m
    <3>2. m <= i
      BY <2>2, <3>1 DEF m
    <3> QED
      BY <1>1, <2>3, <3>2
  <2> HIDE DEF m
  <2> QED
    BY <2>3, <2>4
<1>6. ASSUME NEW i \in 1 .. n
      PROVE  LET list == seqs[i]
                 k == Cardinality(new(i))
             IN  /\ k \in Nat /\ list \in Seq(S) /\ Len(list) = k
                 /\ \A p \in 1 .. k : list[p] \in new(i)
                 /\ \A a \in new(i) : \E p \in 1 .. k : list[p] = a
                 /\ \A p, q \in 1 .. k : p < q => list[p] # list[q]
  <2> DEFINE list == ById(new(i))
             k == Cardinality(new(i))
  <2>1. new(i) \subseteq S
    BY <1>2
  <2>2. \A e \in S : e.id \in Nat
    BY ReportsAreTyped
  <2>3. seqs[i] = list
    BY <1>1
  <2> HIDE DEF new, seqs
  <2>4. Keyed(new(i))
    BY <2>1, FS_Subset DEF Keyed
  <2>5. \A e \in new(i) : e.id \in Int
    BY <2>1, <2>2
  <2>6. /\ k \in Nat /\ list = [p \in 1 .. k |-> list[p]]
        /\ \A p \in 1 .. k : list[p] \in new(i)
        /\ \A a \in new(i) : \E p \in 1 .. k : list[p] = a
        /\ \A p, q \in 1 .. k : p < q => list[p] # list[q]
    BY <2>4, <2>5, ListedById
  <2> HIDE DEF list, k
  <2>7. \A p \in 1 .. k : list[p] \in S
    BY <2>1, <2>6
  <2>8. list \in Seq(S) /\ Len(list) = k
    BY <2>6, <2>7, IsASeq
  <2> QED
    BY <2>3, <2>6, <2>8 DEF k
<1>7. seqs = [i \in 1 .. n |-> seqs[i]]
  BY <1>1
<1> HIDE DEF seqs, new
<1>8. seqs \in Seq(Seq(S)) /\ Len(seqs) = n
  <2>1. \A i \in 1 .. n : seqs[i] \in Seq(S)
    BY <1>6
  <2> QED
    BY <1>1, <1>7, <2>1, IsASeq
<1>9. \A i \in 1 .. n : \A p \in 1 .. Len(seqs[i]) : seqs[i][p] \in new(i) /\ seqs[i][p] \in S
  BY <1>6
<1>10. \A i \in 1 .. n : \A p \in 1 .. Len(seqs[i]) : owner[seqs[i][p]] = i
  BY <1>4, <1>9
<1>11. \A i \in 1 .. n : \A p, q \in 1 .. Len(seqs[i]) : p < q => seqs[i][p] # seqs[i][q]
  BY <1>6
<1>16. \A e \in S : owner[e] = first(e)
  OBVIOUS
<1>17. n \in Nat \ {0}
  BY <1>1
<1> HIDE DEF owner, first, n, S
<1>18. Owned(n, S, seqs, owner)
  BY <1>8, <1>10, <1>11, <1>17 DEF Owned
<1>19. InOrderOf(n, S, seqs, owner, listed)
  BY <1>3, <1>18, OwnedInOrder
<1>12. /\ listed \in Seq(S)
       /\ \A p \in 1 .. Len(listed) : \E i \in 1 .. n : \E q \in 1 .. Len(seqs[i]) : listed[p] = seqs[i][q]
       /\ \A i \in 1 .. n : \A q \in 1 .. Len(seqs[i]) : \E p \in 1 .. Len(listed) : listed[p] = seqs[i][q]
       /\ \A p, q \in 1 .. Len(listed) :
            p < q => listed[p] # listed[q] /\ owner[listed[p]] <= owner[listed[q]]
  BY <1>19 DEF InOrderOf
<1> HIDE DEF listed
<1>13. DOMAIN listed = 1 .. Len(listed) /\ \A p \in 1 .. Len(listed) : listed[p] \in S
  BY <1>12
<1>14. \A j, k \in DOMAIN listed :
         j < k => listed[j] # listed[k] /\ first(listed[j]) <= first(listed[k])
  <2> SUFFICES ASSUME NEW j \in DOMAIN listed, NEW k \in DOMAIN listed, j < k
               PROVE  listed[j] # listed[k] /\ first(listed[j]) <= first(listed[k])
    OBVIOUS
  <2>1. j \in 1 .. Len(listed) /\ k \in 1 .. Len(listed) /\ listed[j] \in S /\ listed[k] \in S
    BY <1>13
  <2>2. listed[j] # listed[k] /\ owner[listed[j]] <= owner[listed[k]]
    BY <1>12, <2>1
  <2>3. owner[listed[j]] = first(listed[j]) /\ owner[listed[k]] = first(listed[k])
    BY <1>16, <2>1
  <2> QED
    BY <2>2, <2>3
<1>15. ToSet(listed) = UNION {on(i) : i \in DOMAIN segments}
  <2>1. ASSUME NEW p \in DOMAIN listed PROVE \E i \in DOMAIN segments : listed[p] \in on(i)
    <3>1. PICK i \in 1 .. n : \E q \in 1 .. Len(seqs[i]) : listed[p] = seqs[i][q]
      BY <1>12, <1>13
    <3>2. listed[p] \in new(i)
      BY <1>9, <3>1
    <3> QED
      BY <1>1, <3>2 DEF new
  <2>2. ASSUME NEW j \in DOMAIN segments, NEW e \in on(j) PROVE \E p \in DOMAIN listed : listed[p] = e
    <3>1. PICK i \in 1 .. n : e \in new(i)
      BY <1>1, <1>5
    <3>2. PICK q \in 1 .. Len(seqs[i]) : seqs[i][q] = e
      BY <1>6, <3>1
    <3> QED
      BY <1>12, <1>13, <3>2
  <2> QED
    BY <2>1, <2>2 DEF ToSet
<1> QED
  BY <1>14, <1>15 DEF on, listed, first

-----------------------------------------------------------------------------
(* The weather of a route *)

\* The readings that are near and fresh enough for some segment, and what they measured.
UsableOn(request, segments) ==
  {r \in request.readings : r.time <= Now /\ \E i \in DOMAIN segments : UsableReading(request, segments[i], r)}

KnownOn(request, segments) ==
  {r.temp : r \in {u \in UsableOn(request, segments) : u.temp # Unknown}}

LEMMA WeatherIsNear ==
  ASSUME NEW request, NEW segments, NEW i \in DOMAIN segments
  PROVE  WeatherOf(request, segments, i) \subseteq UsableOn(request, segments)
BY DEF WeatherOf, Adopted, Recent, UsableOn

LEMMA TemperatureIsUsable ==
  ASSUME NEW request \in RouteRequests, NEW segments, NEW lengths, RouteOf(segments, lengths),
         NEW i \in DOMAIN segments
  PROVE  LET temp == SegmentCondition(request, segments, i).temp
             known == KnownOn(request, segments)
         IN  temp = Reference \/ (known # {} /\ temp \in Min(known) .. Max(known))
<1> DEFINE known == KnownOn(request, segments)
           temperatures == {r.temp : r \in WeatherOf(request, segments, i)} \ {Unknown}
           temp == SegmentCondition(request, segments, i).temp
<1>1. \A j \in DOMAIN segments : \A r \in WeatherOf(request, segments, j) :
        r.temp # Unknown => r.temp \in known
  BY WeatherIsNear DEF KnownOn
<1>2. known \in SUBSET ((-60) .. 60)
  BY ReadingsAreTyped DEF KnownOn, UsableOn
<1>3. temp = IF temperatures = {} THEN MeanTemperature(request, segments)
             ELSE CHOOSE t \in temperatures : TRUE
  BY DEF SegmentCondition
<1> HIDE DEF known, temp
<1>4. ASSUME known # {} PROVE Min(known) \in Int /\ Max(known) \in Int /\ \A t \in known : t \in Min(known) .. Max(known)
  <2>1. -60 \in Int /\ 60 \in Int
    OBVIOUS
  <2>2. PICK a, b : a = -60 /\ b = 60 /\ a \in Int /\ b \in Int
    BY <2>1
  <2>3. known \in SUBSET (a .. b)
    BY <1>2, <2>2
  <2>4. /\ Max(known) \in known /\ \A y \in known : Max(known) >= y
        /\ Min(known) \in known /\ \A y \in known : Min(known) <= y
    BY <1>4, <2>2, <2>3, BoundedHasBounds
  <2>5. known \subseteq Int
    BY <1>2
  <2> DEFINE low == Min(known)
             high == Max(known)
  <2>6. low \in Int /\ high \in Int /\ \A t \in known : t \in Int /\ low <= t /\ t <= high
    BY <2>4, <2>5
  <2> HIDE DEF low, high
  <2> QED
    BY <2>6 DEF low, high
<1>5. CASE temperatures = {}
  <2>1. CASE known = {}
    <3>1. 0 \in Int /\ \A j \in DOMAIN segments : \A r \in WeatherOf(request, segments, j) :
            r.temp # Unknown => r.temp \in 0 .. 0
      BY <1>1, <2>1
    <3>2. MeanTemperature(request, segments) = Reference
      <4>1. PICK z \in Int : z = 0
        BY <3>1
      <4>2. \A j \in DOMAIN segments : \A r \in WeatherOf(request, segments, j) :
              r.temp # Unknown => r.temp \in z .. z
        BY <3>1, <4>1
      <4>3. \/ MeanTemperature(request, segments) = Reference
            \/ \E j \in DOMAIN segments : \E r \in WeatherOf(request, segments, j) : r.temp # Unknown
        BY <4>2, MeanIsBetween
      <4> QED
        BY <1>1, <2>1, <4>3
    <3> QED
      BY <1>3, <1>5, <3>2 DEF temp
  <2>2. CASE known # {}
    <3> DEFINE low == Min(known)
               high == Max(known)
    <3>1. low \in Int /\ high \in Int /\ \A t \in known : t \in low .. high
      BY <1>4, <2>2
    <3> HIDE DEF low, high
    <3>2. \A j \in DOMAIN segments : \A r \in WeatherOf(request, segments, j) :
            r.temp # Unknown => r.temp \in low .. high
      BY <1>1, <3>1
    <3>3. MeanTemperature(request, segments) = Reference
          \/ MeanTemperature(request, segments) \in low .. high
      BY <3>1, <3>2, MeanIsBetween
    <3> QED
      BY <1>3, <1>5, <2>2, <3>3 DEF low, high, known, temp
  <2> QED
    BY <2>1, <2>2
<1>6. CASE temperatures # {}
  <2>1. temp \in temperatures
    BY <1>3, <1>6, Zenon
  <2>2. temp \in known
    BY <1>1, <2>1
  <2>3. temp \in Min(known) .. Max(known)
    BY <1>4, <2>2
  <2> QED
    BY <2>2, <2>3 DEF known, temp
<1> QED
  BY <1>5, <1>6

\* What the weather of the response claims no reading of it contradicts.
LEMMA ModesAreWeakest ==
  ASSUME NEW readings, NEW r \in readings
  PROVE  LET mode == WeakestMode({StoredMode(o.mode) : o \in readings})
         IN  mode # "live" /\ (r.mode = "fixture" => mode = "fixture")
<1> DEFINE modes == {StoredMode(o.mode) : o \in readings}
<1>1. StoredMode(r.mode) \in modes
  OBVIOUS
<1>2. \A m \in modes : m \in {"fixture", "cache"}
  BY DEF StoredMode
<1>3. r.mode = "fixture" => StoredMode(r.mode) = "fixture"
  BY DEF StoredMode
<1> HIDE DEF modes
<1> QED
  BY <1>1, <1>2, <1>3 DEF WeakestMode, modes

-----------------------------------------------------------------------------
(* The cuts of a route *)

\* The start of a route, the sites on it in their order, and its end.
Cuts(P, n, length) ==
  /\ n \in Nat /\ length \in Nat
  /\ \A i \in 0 .. (n + 1) : P[i] \in Nat
  /\ \A i, j \in 0 .. (n + 1) : i <= j => P[i] <= P[j]
  /\ P[0] = 0 /\ P[n + 1] = length

LEMMA CellHasAGap ==
  ASSUME NEW P, NEW n, NEW length, Cuts(P, n, length), NEW c \in 0 .. (length - 1)
  PROVE  \E m \in 1 .. (n + 1) :
           /\ P[m - 1] <= c /\ c < P[m]
           /\ \A j \in 1 .. (n + 1) : P[j - 1] <= c /\ c < P[j] => j = m
<1> DEFINE T == {i \in 1 .. (n + 1) : c < P[i]}
<1>0. /\ n \in Nat /\ length \in Nat /\ P[0] = 0 /\ P[n + 1] = length
      /\ \A i \in 0 .. (n + 1) : P[i] \in Nat
      /\ \A i, j \in 0 .. (n + 1) : i <= j => P[i] <= P[j]
  BY DEF Cuts
<1>1. n + 1 \in T
  BY <1>0
<1>2. T \in SUBSET Nat /\ T # {}
  BY <1>1
<1>3. PICK m \in T : \A i \in T : m <= i
  BY <1>2, LeastExists
<1>4. m \in 1 .. (n + 1) /\ c < P[m] /\ m \in Nat /\ m - 1 \in 0 .. (n + 1)
  BY <1>0, <1>3
<1>5. P[m - 1] <= c
  <2>1. CASE m = 1
    BY <1>0, <2>1
  <2>2. CASE m # 1
    <3>1. m - 1 \in 1 .. (n + 1)
      BY <1>0, <1>4, <2>2
    <3>2. m - 1 \notin T
      BY <1>3, <1>4
    <3> QED
      BY <1>0, <1>4, <3>1, <3>2
  <2> QED
    BY <2>1, <2>2
<1>6. ASSUME NEW j \in 1 .. (n + 1), P[j - 1] <= c, c < P[j] PROVE j = m
  <2>1. j \in T /\ m <= j
    BY <1>3, <1>6
  <2>2. j - 1 \in 0 .. (n + 1) /\ m \in 0 .. (n + 1)
    BY <1>0, <1>4
  <2>3. ~(m <= j - 1)
    BY <1>0, <1>4, <1>6, <2>2
  <2> QED
    BY <1>4, <2>1, <2>3
<1> QED
  BY <1>4, <1>5, <1>6

LEMMA NoCutInside ==
  ASSUME NEW P, NEW n, NEW length, Cuts(P, n, length),
         NEW m \in 1 .. (n + 1), NEW j \in 0 .. (n + 1)
  PROVE  P[j] <= P[m - 1] \/ P[j] >= P[m]
<1>1. n \in Nat /\ m - 1 \in 0 .. (n + 1) /\ m \in 0 .. (n + 1)
  BY DEF Cuts
<1>2. j <= m - 1 \/ m <= j
  BY <1>1
<1>3. /\ P[j] \in Nat /\ P[m - 1] \in Nat /\ P[m] \in Nat
      /\ j <= m - 1 => P[j] <= P[m - 1]
      /\ m <= j => P[m] <= P[j]
  BY <1>1 DEF Cuts
<1> QED
  BY <1>2, <1>3

LEMMA BareIsInAGap ==
  ASSUME NEW P, NEW n, NEW length, Cuts(P, n, length),
         NEW a \in 0 .. length, NEW b \in 0 .. length, a < b,
         \A j \in 1 .. n : ~(a < P[j] /\ P[j] < b)
  PROVE  \E m \in 1 .. (n + 1) : P[m - 1] <= a /\ a < P[m] /\ b <= P[m]
<1>1. n \in Nat /\ length \in Nat /\ P[n + 1] = length /\ \A i \in 0 .. (n + 1) : P[i] \in Nat
  BY DEF Cuts
<1>2. a \in 0 .. (length - 1)
  BY <1>1
<1>3. PICK m \in 1 .. (n + 1) : P[m - 1] <= a /\ a < P[m]
  BY <1>2, CellHasAGap
<1>4. m \in 0 .. (n + 1) /\ P[m] \in Nat
  BY <1>1
<1>5. CASE m = n + 1
  BY <1>1, <1>3, <1>5
<1>6. CASE m # n + 1
  <2>1. m \in 1 .. n
    BY <1>1, <1>6
  <2>2. ~(P[m] < b)
    BY <1>3, <2>1
  <2> QED
    BY <1>1, <1>3, <1>4, <2>2
<1> QED
  BY <1>5, <1>6

\* A bare stretch from cut to cut is a gap.
LEMMA BareCutsAreAGap ==
  ASSUME NEW P, NEW n, NEW length, Cuts(P, n, length),
         NEW i \in 0 .. (n + 1), NEW k \in 0 .. (n + 1), P[i] < P[k],
         \A j \in 1 .. n : ~(P[i] < P[j] /\ P[j] < P[k])
  PROVE  \E m \in 1 .. (n + 1) : P[m - 1] = P[i] /\ P[m] = P[k]
<1>1. n \in Nat /\ length \in Nat /\ P[n + 1] = length /\ P[0] = 0
      /\ (\A x \in 0 .. (n + 1) : P[x] \in Nat)
      /\ (\A x, y \in 0 .. (n + 1) : x <= y => P[x] <= P[y])
  BY DEF Cuts
<1>2. \A x \in 0 .. (n + 1) : P[x] \in 0 .. length
  <2> TAKE x \in 0 .. (n + 1)
  <2>1. x <= n + 1 /\ n + 1 \in 0 .. (n + 1)
    BY <1>1
  <2>2. P[x] <= P[n + 1] /\ P[x] \in Nat
    BY <1>1, <2>1
  <2> QED
    BY <1>1, <2>2
<1>3. P[i] \in 0 .. length /\ P[k] \in 0 .. length
  BY <1>2
<1>4. PICK m \in 1 .. (n + 1) : P[m - 1] <= P[i] /\ P[i] < P[m] /\ P[k] <= P[m]
  BY <1>3, BareIsInAGap
<1>5. m \in 0 .. (n + 1) /\ m - 1 \in 0 .. (n + 1) /\ P[m - 1] \in Nat /\ P[m] \in Nat
      /\ P[i] \in Nat /\ P[k] \in Nat
  BY <1>1
<1>6. P[i] <= P[m - 1]
  <2>1. P[i] <= P[m - 1] \/ P[i] >= P[m]
    BY NoCutInside
  <2> QED
    BY <1>4, <1>5, <2>1
<1>7. P[k] >= P[m]
  <2>1. P[k] <= P[m - 1] \/ P[k] >= P[m]
    BY NoCutInside
  <2> QED
    BY <1>4, <1>5, <2>1
<1> QED
  BY <1>4, <1>5, <1>6, <1>7

\* Places that are all before any place of theirs are the first ones.
LEMMA FirstPlaces ==
  ASSUME NEW m \in Nat, NEW S \in SUBSET (1 .. m), \A k \in S : \A j \in 1 .. m : j <= k => j \in S
  PROVE  \E a \in 0 .. m : S = 1 .. a
<1> DEFINE T == {i \in 1 .. (m + 1) : i \notin S}
<1>1. m + 1 \in T
  OBVIOUS
<1>2. T \in SUBSET Nat /\ T # {}
  BY <1>1
<1>3. PICK b \in T : \A i \in T : b <= i
  BY <1>2, LeastExists
<1>4. b \in 1 .. (m + 1) /\ b \notin S /\ b - 1 \in 0 .. m
  BY <1>3
<1>5. \A i \in 1 .. (b - 1) : i \in S
  <2> TAKE i \in 1 .. (b - 1)
  <2>1. i \in 1 .. (m + 1) /\ ~(b <= i)
    BY <1>4
  <2> QED
    BY <1>3, <2>1
<1>6. \A i \in S : i \in 1 .. (b - 1)
  <2> TAKE i \in S
  <2>1. i \in 1 .. m
    OBVIOUS
  <2>2. ~(b <= i)
    <3>1. b <= i => b \in 1 .. m
      BY <1>4, <2>1
    <3> QED
      BY <1>4, <3>1
  <2> QED
    BY <1>4, <2>1, <2>2
<1> QED
  BY <1>4, <1>5, <1>6

\* What a list has at its first places are its first elements.
LEMMA AtFirstPlaces ==
  ASSUME NEW list, NEW a \in Nat
  PROVE  AtPlaces(list, 1 .. a) = [k \in 1 .. a |-> list[k]]
<1> DEFINE S == 1 .. a
           before == {p \in S \X S : p[1] < p[2]}
           order == Sorted(S, before)
<1>1. Cardinality(S) = a
  BY FS_Interval
<1>2. ASSUME NEW e \in 1 .. a PROVE Cardinality({f \in S : <<f, e>> \in before}) = e - 1
  <2>1. {f \in S : <<f, e>> \in before} = 1 .. (e - 1)
    OBVIOUS
  <2>2. Cardinality(1 .. (e - 1)) = e - 1
    BY FS_Interval
  <2> QED
    BY <2>1, <2>2
<1>3. order = [k \in 1 .. a |->
                 CHOOSE e \in S : Cardinality({f \in S : <<f, e>> \in before}) = k - 1]
  BY <1>1 DEF Sorted
<1> HIDE DEF order
<1>4. ASSUME NEW k \in 1 .. a PROVE order[k] = k
  <2>1. order[k] = CHOOSE e \in S : Cardinality({f \in S : <<f, e>> \in before}) = k - 1
    BY <1>3
  <2>2. \E e \in S : Cardinality({f \in S : <<f, e>> \in before}) = k - 1
    BY <1>2
  <2> DEFINE o == order[k]
  <2>3. o \in S /\ Cardinality({f \in S : <<f, o>> \in before}) = k - 1
    BY <2>1, <2>2, Zenon
  <2> HIDE DEF o
  <2>4. o \in 1 .. a /\ o - 1 = k - 1
    BY <1>2, <2>3
  <2>5. o = k
    BY <2>4
  <2> QED
    BY <2>5 DEF o
<1>5. AtPlaces(list, S) = [k \in 1 .. a |-> list[order[k]]]
  BY <1>1 DEF AtPlaces, order
<1> HIDE DEF S
<1>6. [k \in 1 .. a |-> list[order[k]]] = [k \in 1 .. a |-> list[k]]
  BY <1>4
<1> QED
  BY <1>5, <1>6 DEF S

-----------------------------------------------------------------------------
(* The gaps of a corridor *)

\* A site is near the line exactly if it is near one of its pieces.
LEMMA SitesThatCount ==
  ASSUME NEW corridor, NEW query, IsCorridor(corridor), IsQuery(query)
  PROVE  {s \in InCorridor(corridor, query) : s.kw >= query.power} = Counts(corridor, query)
<1>1. ASSUME NEW s \in corridor.sites, NEW piece \in corridor.parts
      PROVE  /\ FromPart(s, piece) >= s.off /\ FromPart(s, piece) \in Int
             /\ piece[1] <= s.at /\ s.at <= piece[2] => FromPart(s, piece) = s.off
  <2> DEFINE a == piece[1] - s.at
             b == s.at - piece[2]
             m == Max({0, a, b})
  <2>1. a \in Int /\ b \in Int /\ s.off \in Nat /\ s.at \in Int
    BY DEF IsCorridor
  <2>2. (piece[1] <= s.at /\ s.at <= piece[2]) => (a <= 0 /\ b <= 0)
    BY DEF IsCorridor
  <2>3. FromPart(s, piece) = s.off + m
    BY DEF FromPart
  <2> HIDE DEF a, b
  <2>4. m \in {0, a, b} /\ m >= 0
    <3>1. 0 \in Int
      OBVIOUS
    <3> QED
      BY <2>1, <3>1, MaxOfThree, Zenon
  <2> HIDE DEF m
  <2> QED
    BY <2>1, <2>2, <2>3, <2>4
<1>2. ASSUME NEW s \in InCorridor(corridor, query), s.kw >= query.power
      PROVE  s \in Counts(corridor, query)
  <2>1. PICK row \in Joined(corridor, query) : s = row[1]
    BY DEF InCorridor
  <2>2. row[1] \in corridor.sites /\ row[2] \in corridor.parts
        /\ FromPart(row[1], row[2]) <= query.buffer
    BY DEF Joined
  <2>3. FromPart(s, row[2]) >= s.off /\ FromPart(s, row[2]) \in Int /\ s.off \in Int
        /\ query.buffer \in Int
    BY <1>1, <2>1, <2>2 DEF IsCorridor, IsQuery
  <2> QED
    BY <1>2, <2>1, <2>2, <2>3 DEF Counts
<1>3. ASSUME NEW s \in Counts(corridor, query)
      PROVE  s \in InCorridor(corridor, query) /\ s.kw >= query.power
  <2>1. s \in corridor.sites /\ s.kw >= query.power /\ s.off <= query.buffer
    BY DEF Counts
  <2>2. s.at \in 0 .. corridor.length /\ s.kw \in Nat
    BY <2>1 DEF IsCorridor
  <2>3. PICK piece \in corridor.parts : piece[1] <= s.at /\ s.at <= piece[2]
    BY <2>2 DEF IsCorridor
  <2>4. FromPart(s, piece) = s.off
    BY <1>1, <2>1, <2>3
  <2> DEFINE row == <<s, piece>>
  <2>5. row \in corridor.sites \X corridor.parts /\ row[1] = s /\ row[2] = piece
    BY <2>1, <2>3
  <2> HIDE DEF row
  <2>6. row \in Joined(corridor, query)
    BY <2>1, <2>2, <2>4, <2>5 DEF Joined
  <2> QED
    BY <2>1, <2>5, <2>6 DEF InCorridor
<1> QED
  BY <1>2, <1>3

LEMMA CountsAreFinite ==
  ASSUME NEW corridor, NEW query, IsCorridor(corridor)
  PROVE  /\ IsFiniteSet(Counts(corridor, query))
         /\ Cardinality(Counts(corridor, query)) \in Nat
<1>1. Counts(corridor, query) \subseteq corridor.sites /\ IsFiniteSet(corridor.sites)
  BY DEF Counts, IsCorridor
<1> HIDE DEF Counts
<1> QED
  BY <1>1, FS_Subset, FS_CardinalityType

\* The sites that count, in order.
StopsAlong(stops, corridor, query) ==
  LET n == Cardinality(Counts(corridor, query))
  IN  /\ stops = [k \in 1 .. n |-> stops[k]]
      /\ \A k \in 1 .. n : stops[k] \in Counts(corridor, query)
      /\ \A s \in Counts(corridor, query) : \E k \in 1 .. n : stops[k] = s
      /\ \A j, k \in 1 .. n : j <= k => stops[j].at <= stops[k].at

LEMMA QualifyingIsInOrder ==
  ASSUME NEW corridor, NEW query, IsCorridor(corridor), IsQuery(query)
  PROVE  StopsAlong(Qualifying(corridor, query), corridor, query)
<1> DEFINE sites == Counts(corridor, query)
           n == Cardinality(sites)
           before == {p \in sites \X sites : \/ p[1].at < p[2].at
                                             \/ p[1].at = p[2].at /\ p[1].id < p[2].id}
           stops == Qualifying(corridor, query)
<1>1. stops = Sorted(sites, before)
  BY SitesThatCount DEF Qualifying
<1>2. IsFiniteSet(sites) /\ n \in Nat
  BY CountsAreFinite
<1>3. /\ \A s \in sites : s.at \in Int /\ s.id \in Int
      /\ \A s, t \in sites : s.id = t.id => s = t
  BY DEF IsCorridor, Counts
<1>4. \A s, t \in sites : <<s, t>> \in before <=> s.at < t.at \/ (s.at = t.at /\ s.id < t.id)
  OBVIOUS
<1> HIDE DEF sites, before
<1>5. Orders(before, sites)
  <2>1. \A s \in sites : <<s, s>> \notin before
    BY <1>3, <1>4
  <2>2. \A s, t \in sites : s # t => <<s, t>> \in before \/ <<t, s>> \in before
    BY <1>3, <1>4
  <2>3. \A s, t, u \in sites : <<s, t>> \in before /\ <<t, u>> \in before => <<s, u>> \in before
    BY <1>3, <1>4
  <2> QED
    BY <2>1, <2>2, <2>3 DEF Orders
<1>6. ListsInOrder(stops, sites, before)
  BY <1>1, <1>2, <1>5, SortedLists
<1> HIDE DEF stops
<1>7. /\ stops = [k \in 1 .. n |-> stops[k]]
      /\ \A k \in 1 .. n : stops[k] \in sites
      /\ \A s \in sites : \E k \in 1 .. n : stops[k] = s
      /\ \A j, k \in 1 .. n : j < k => <<stops[j], stops[k]>> \in before
  BY <1>6 DEF ListsInOrder
<1>8. ASSUME NEW j \in 1 .. n, NEW k \in 1 .. n, j <= k PROVE stops[j].at <= stops[k].at
  <2>1. CASE j = k
    BY <1>3, <1>7, <2>1
  <2>2. CASE j # k
    <3>1. j < k
      BY <1>2, <1>8, <2>2
    <3>2. <<stops[j], stops[k]>> \in before /\ stops[j] \in sites /\ stops[k] \in sites
      BY <1>7, <3>1
    <3> QED
      BY <1>3, <1>4, <3>2
  <2> QED
    BY <2>1, <2>2
<1> QED
  BY <1>7, <1>8 DEF StopsAlong, sites, stops

\* Where the gaps begin and end.
CutsOf(corridor, query) ==
  LET n == Cardinality(Counts(corridor, query))
  IN  [i \in 0 .. (n + 1) |->
         IF i = 0 THEN 0
         ELSE IF i = n + 1 THEN corridor.length ELSE Qualifying(corridor, query)[i].at]

LEMMA CutsAreInOrder ==
  ASSUME NEW corridor, NEW query, IsCorridor(corridor), IsQuery(query)
  PROVE  LET P == CutsOf(corridor, query)
             n == Cardinality(Counts(corridor, query))
         IN  /\ Cuts(P, n, corridor.length)
             /\ {s.at : s \in Counts(corridor, query)} = {P[i] : i \in 1 .. n}
<1> DEFINE C == Counts(corridor, query)
           n == Cardinality(C)
           L == corridor.length
           stops == Qualifying(corridor, query)
           P == CutsOf(corridor, query)
<1>1. n \in Nat /\ L \in Nat
  BY CountsAreFinite DEF IsCorridor
<1>2. /\ \A k \in 1 .. n : stops[k] \in C
      /\ \A s \in C : \E k \in 1 .. n : stops[k] = s
      /\ \A j, k \in 1 .. n : j <= k => stops[j].at <= stops[k].at
  BY QualifyingIsInOrder DEF StopsAlong
<1>3. \A s \in C : s.at \in 0 .. L
  BY DEF Counts, IsCorridor
<1>4. P = [i \in 0 .. (n + 1) |-> IF i = 0 THEN 0 ELSE IF i = n + 1 THEN L ELSE stops[i].at]
  BY DEF CutsOf
<1> HIDE DEF C, n, L, stops, P
<1>5. P[0] = 0 /\ P[n + 1] = L
  BY <1>1, <1>4
<1>6. \A i \in 1 .. n : P[i] = stops[i].at /\ P[i] \in 0 .. L
  BY <1>1, <1>2, <1>3, <1>4
<1>7. \A i \in 0 .. (n + 1) : i = 0 \/ i = n + 1 \/ i \in 1 .. n
  BY <1>1
<1>8. \A i \in 0 .. (n + 1) : P[i] \in 0 .. L
  BY <1>1, <1>5, <1>6, <1>7
<1>9. ASSUME NEW i \in 0 .. (n + 1), NEW j \in 0 .. (n + 1), i <= j PROVE P[i] <= P[j]
  <2>1. P[i] \in 0 .. L /\ P[j] \in 0 .. L
    BY <1>8
  <2>2. CASE i = 0 \/ j = n + 1
    BY <1>1, <1>5, <2>1, <2>2
  <2>3. CASE i # 0 /\ j # n + 1
    <3>1. i \in 1 .. n /\ j \in 1 .. n
      BY <1>1, <1>9, <2>3
    <3> QED
      BY <1>2, <1>6, <1>9, <3>1
  <2> QED
    BY <2>2, <2>3
<1>10. Cuts(P, n, L)
  BY <1>1, <1>5, <1>8, <1>9 DEF Cuts
<1>11. {s.at : s \in C} = {P[i] : i \in 1 .. n}
  BY <1>2, <1>6
<1> QED
  BY <1>10, <1>11 DEF C, n, L, P

\* Each gap goes from one cut to the next.
GapsAlong(gaps, P, n) ==
  /\ gaps = [i \in 1 .. (n + 1) |-> gaps[i]] /\ Len(gaps) = n + 1
  /\ \A i \in 1 .. (n + 1) : gaps[i].from = P[i - 1] /\ gaps[i].to = P[i]

LEMMA GapsGoAlong ==
  ASSUME NEW corridor, NEW query, IsCorridor(corridor), IsQuery(query)
  PROVE  GapsAlong(Gaps(corridor, query), CutsOf(corridor, query),
                   Cardinality(Counts(corridor, query)))
<1> DEFINE n == Cardinality(Counts(corridor, query))
           L == corridor.length
           stops == Qualifying(corridor, query)
           P == CutsOf(corridor, query)
           gaps == Gaps(corridor, query)
           first == Gap(0, stops[1].at, "origin")
           last == Gap(Last(stops).at, L, "destination")
           between == Between(stops)
<1>1. n \in Nat /\ L \in Nat
  BY CountsAreFinite DEF IsCorridor
<1>2. /\ stops = [k \in 1 .. n |-> stops[k]]
      /\ \A k \in 1 .. n : stops[k] \in Counts(corridor, query)
  BY QualifyingIsInOrder DEF StopsAlong
<1>3. \A k \in 1 .. n : stops[k].at \in Int
  BY <1>2 DEF Counts, IsCorridor
<1>4. P = [i \in 0 .. (n + 1) |-> IF i = 0 THEN 0 ELSE IF i = n + 1 THEN L ELSE stops[i].at]
  BY DEF CutsOf
<1>5. gaps = IF stops = <<>> THEN <<Gap(0, L, "whole_route")>> ELSE <<first>> \o between \o <<last>>
  BY DEF Gaps
<1> SUFFICES GapsAlong(gaps, P, n)
  OBVIOUS
<1> HIDE DEF n, L, stops, P, gaps
<1>6. P[0] = 0 /\ P[n + 1] = L /\ \A i \in 1 .. n : P[i] = stops[i].at
  BY <1>1, <1>4
<1>7. CASE n = 0
  <2>1. stops = <<>>
    BY <1>2, <1>7
  <2>2. gaps = <<Gap(0, L, "whole_route")>>
    BY <1>5, <2>1
  <2>3. gaps = [i \in 1 .. 1 |-> gaps[i]] /\ Len(gaps) = 1 /\ gaps[1] = Gap(0, L, "whole_route")
    BY <2>2
  <2>4. \A i \in 1 .. (n + 1) : i = 1 /\ i - 1 = 0
    BY <1>7
  <2>5. P[0] = 0 /\ P[1] = L
    BY <1>6, <1>7
  <2>6. \A i \in 1 .. (n + 1) : gaps[i].from = P[i - 1] /\ gaps[i].to = P[i]
    BY <2>3, <2>4, <2>5 DEF Gap
  <2>7. n + 1 = 1
    BY <1>7
  <2> QED
    BY <2>3, <2>6, <2>7 DEF GapsAlong
<1>8. CASE n # 0
  <2> DEFINE G == {Gap(a, b, k) : a \in Int, b \in Int, k \in {"origin", "between", "destination"}}
             front == <<first>> \o between
  <2>1. stops # <<>> /\ Len(stops) = n /\ n \in 1 .. n /\ 1 \in 1 .. n
    <3>1. Len(stops) = n
      BY <1>1, <1>2
    <3> QED
      BY <1>1, <1>8, <3>1
  <2>2. Last(stops) = stops[n]
    BY <2>1 DEF Last
  <2>3. first \in G /\ last \in G
    BY <1>1, <1>3, <2>1, <2>2
  <2>4. between = [i \in 1 .. (n - 1) |-> Gap(stops[i].at, stops[i + 1].at, "between")]
    BY <2>1 DEF Between
  <2>5. n - 1 \in Nat
    BY <1>1, <1>8
  <2>6. \A i \in 1 .. (n - 1) : between[i] = Gap(stops[i].at, stops[i + 1].at, "between")
    BY <2>4
  <2>7. \A i \in 1 .. (n - 1) : between[i] \in G
    <3> TAKE i \in 1 .. (n - 1)
    <3>1. i \in 1 .. n /\ i + 1 \in 1 .. n
      BY <1>1
    <3> QED
      BY <1>3, <2>6, <3>1
  <2> HIDE DEF G, between, first, last
  <2>8. between \in Seq(G) /\ Len(between) = n - 1
    BY <2>4, <2>5, <2>7, IsASeq
  <2>9. <<first>> \in Seq(G) /\ <<last>> \in Seq(G) /\ Len(<<first>>) = 1 /\ Len(<<last>>) = 1
    BY <2>3
  <2>10. /\ front \in Seq(G) /\ Len(front) = Len(<<first>>) + Len(between)
         /\ \A p \in 1 .. Len(<<first>>) : front[p] = <<first>>[p]
         /\ \A p \in 1 .. Len(between) : front[Len(<<first>>) + p] = between[p]
    BY <2>8, <2>9, JoinOfTwo
  <2> HIDE DEF front
  <2>11. gaps = front \o <<last>>
    BY <1>5, <2>1 DEF front
  <2>12. /\ gaps \in Seq(G) /\ Len(gaps) = Len(front) + Len(<<last>>)
         /\ \A p \in 1 .. Len(front) : gaps[p] = front[p]
         /\ \A p \in 1 .. Len(<<last>>) : gaps[Len(front) + p] = <<last>>[p]
    BY <2>9, <2>10, <2>11, JoinOfTwo
  <2>13. Len(front) = n /\ Len(gaps) = n + 1
    BY <1>1, <2>8, <2>9, <2>10, <2>12
  <2>14. gaps[1] = first
    <3>1. 1 \in 1 .. Len(front) /\ 1 \in 1 .. Len(<<first>>) /\ <<first>>[1] = first
      BY <2>1, <2>9, <2>13
    <3> QED
      BY <2>10, <2>12, <3>1
  <2>15. gaps[n + 1] = last
    <3>1. 1 \in 1 .. Len(<<last>>) /\ <<last>>[1] = last
      BY <2>9
    <3> QED
      BY <2>12, <2>13, <3>1
  <2>16. ASSUME NEW i \in 1 .. (n + 1), i # 1, i # n + 1
         PROVE  gaps[i] = Gap(stops[i - 1].at, stops[i].at, "between")
    <3> DEFINE p == i - 1
    <3>1. p \in 1 .. (n - 1) /\ i = 1 + p /\ i = p + 1 /\ i \in 1 .. n
      BY <1>1, <2>16
    <3> HIDE DEF p
    <3>2. front[1 + p] = between[p] /\ gaps[i] = front[i]
      BY <2>8, <2>9, <2>10, <2>12, <2>13, <3>1
    <3>3. between[p] = Gap(stops[p].at, stops[p + 1].at, "between")
      BY <2>6, <3>1
    <3> QED
      BY <3>1, <3>2, <3>3 DEF p
  <2>17. \A i \in 1 .. (n + 1) : gaps[i].from = P[i - 1] /\ gaps[i].to = P[i]
    <3> TAKE i \in 1 .. (n + 1)
    <3>1. CASE i = 1
      <4>1. gaps[i].from = 0 /\ gaps[i].to = stops[1].at /\ i - 1 = 0
        BY <2>14, <3>1 DEF first, Gap
      <4> QED
        BY <1>6, <2>1, <3>1, <4>1
    <3>2. CASE i = n + 1
      <4>1. gaps[i].from = stops[n].at /\ gaps[i].to = L /\ i - 1 = n
        BY <1>1, <2>2, <2>15, <3>2 DEF last, Gap
      <4> QED
        BY <1>6, <2>1, <3>2, <4>1
    <3>3. CASE i # 1 /\ i # n + 1
      <4>1. i - 1 \in 1 .. n /\ i \in 1 .. n
        BY <1>1, <3>3
      <4>2. gaps[i] = Gap(stops[i - 1].at, stops[i].at, "between")
        BY <2>16, <3>3
      <4>3. gaps[i].from = stops[i - 1].at /\ gaps[i].to = stops[i].at
        BY <4>2 DEF Gap
      <4> QED
        BY <1>6, <4>1, <4>3
    <3> QED
      BY <3>1, <3>2, <3>3
  <2>18. gaps = [i \in 1 .. (n + 1) |-> gaps[i]]
    BY <2>12, <2>13
  <2> QED
    BY <2>13, <2>17, <2>18 DEF GapsAlong
<1> QED
  BY <1>7, <1>8

\* The lengths of the gaps add up to the route's.
LEMMA GapsAddUp ==
  ASSUME NEW P, NEW n, NEW length, Cuts(P, n, length), NEW gaps, GapsAlong(gaps, P, n)
  PROVE  Added([i \in DOMAIN gaps |-> GapLength(gaps[i])]) = length
<1> DEFINE sizes == [i \in DOMAIN gaps |-> GapLength(gaps[i])]
           S == {k \in Nat : k <= n + 1 => Added(SubSeq(sizes, 1, k)) = P[k]}
<1>1. /\ n \in Nat /\ P[0] = 0 /\ P[n + 1] = length
      /\ \A i \in 0 .. (n + 1) : P[i] \in Nat
      /\ \A i, j \in 0 .. (n + 1) : i <= j => P[i] <= P[j]
  BY DEF Cuts
<1>2. DOMAIN gaps = 1 .. (n + 1)
  BY DEF GapsAlong
<1>3. \A i \in 1 .. (n + 1) : sizes[i] = P[i] - P[i - 1] /\ sizes[i] \in Nat
  <2> TAKE i \in 1 .. (n + 1)
  <2>1. i \in 0 .. (n + 1) /\ i - 1 \in 0 .. (n + 1) /\ i - 1 <= i
    BY <1>1
  <2>2. P[i] \in Nat /\ P[i - 1] \in Nat /\ P[i - 1] <= P[i]
    BY <1>1, <2>1
  <2>3. sizes[i] = gaps[i].to - gaps[i].from
    BY <1>2 DEF GapLength
  <2>4. sizes[i] = P[i] - P[i - 1]
    BY <2>3 DEF GapsAlong
  <2> HIDE DEF sizes
  <2> QED
    BY <2>2, <2>4
<1>4. sizes = [i \in 1 .. (n + 1) |-> sizes[i]]
  BY <1>2
<1> HIDE DEF sizes
<1>5. sizes \in Seq(Nat) /\ Len(sizes) = n + 1
  <2>1. n + 1 \in Nat
    BY <1>1
  <2> QED
    BY <1>3, <1>4, <2>1, IsASeq
<1>6. 0 \in S
  <2>1. SubSeq(sizes, 1, 0) = <<>>
    BY <1>5, Beginnings
  <2> QED
    BY <1>1, <2>1, AddedNothing
<1>7. ASSUME NEW k \in Nat, k \in S PROVE k + 1 \in S
  <2> SUFFICES ASSUME k + 1 <= n + 1 PROVE Added(SubSeq(sizes, 1, k + 1)) = P[k + 1]
    OBVIOUS
  <2>1. k < Len(sizes) /\ k <= n + 1 /\ k + 1 \in 1 .. (n + 1) /\ (k + 1) - 1 = k
        /\ k \in 0 .. (n + 1) /\ k + 1 \in 0 .. (n + 1)
    BY <1>1, <1>5
  <2>2. Added(SubSeq(sizes, 1, k + 1)) = Added(SubSeq(sizes, 1, k)) + sizes[k + 1]
    BY <1>5, <2>1, AddedOneMore
  <2>3. Added(SubSeq(sizes, 1, k)) = P[k]
    BY <1>7, <2>1
  <2>4. sizes[k + 1] = P[k + 1] - P[k]
    BY <1>3, <2>1
  <2>5. P[k] \in Nat /\ P[k + 1] \in Nat
    BY <1>1, <2>1
  <2> QED
    BY <2>2, <2>3, <2>4, <2>5
<1>8. n + 1 \in S
  <2>1. n + 1 \in Nat
    BY <1>1
  <2> HIDE DEF S
  <2> QED
    BY <1>6, <1>7, <2>1, AllNumbers
<1>9. SubSeq(sizes, 1, n + 1) = sizes
  BY <1>5, Beginnings
<1>10. Added(sizes) = length
  <2>1. Added(SubSeq(sizes, 1, n + 1)) = P[n + 1]
    BY <1>1, <1>8
  <2> QED
    BY <1>1, <1>9, <2>1
<1> QED
  BY <1>10 DEF sizes

\* The gaps, each once, the longest first.
RankedAll(ranked, gaps, m) ==
  \E order :
    /\ ranked = [k \in 1 .. m |-> gaps[order[k]]]
    /\ \A k \in 1 .. m : order[k] \in 1 .. m
    /\ \A i \in 1 .. m : \E k \in 1 .. m : order[k] = i
    /\ \A j, k \in 1 .. m : j < k => /\ order[j] # order[k]
                                     /\ GapLength(gaps[order[j]]) >= GapLength(gaps[order[k]])

LEMMA RankedAllGaps ==
  ASSUME NEW m \in Nat, NEW gaps, DOMAIN gaps = 1 .. m,
         \A i \in 1 .. m : GapLength(gaps[i]) \in Nat
  PROVE  RankedAll(Ranked(gaps), gaps, m)
<1> DEFINE places == 1 .. m
           size == [i \in places |-> GapLength(gaps[i])]
           before == {p \in places \X places :
                        \/ GapLength(gaps[p[1]]) > GapLength(gaps[p[2]])
                        \/ GapLength(gaps[p[1]]) = GapLength(gaps[p[2]]) /\ p[1] < p[2]}
           order == Sorted(places, before)
<1>1. Ranked(gaps) = [k \in places |-> gaps[order[k]]]
  BY DEF Ranked
<1>2. IsFiniteSet(places) /\ Cardinality(places) = m
  BY FS_Interval
<1>3. \A i, j \in places : <<i, j>> \in before <=> size[i] > size[j] \/ (size[i] = size[j] /\ i < j)
  OBVIOUS
<1>4. \A i \in places : size[i] \in Nat /\ i \in Nat /\ size[i] = GapLength(gaps[i])
  OBVIOUS
<1> HIDE DEF before, size
<1>5. Orders(before, places)
  <2>1. \A i \in places : <<i, i>> \notin before
    BY <1>3, <1>4
  <2>2. \A i, j \in places : i # j => <<i, j>> \in before \/ <<j, i>> \in before
    BY <1>3, <1>4
  <2>3. \A i, j, k \in places : <<i, j>> \in before /\ <<j, k>> \in before => <<i, k>> \in before
    BY <1>3, <1>4
  <2> QED
    BY <2>1, <2>2, <2>3 DEF Orders
<1>6. ListsInOrder(order, places, before)
  BY <1>2, <1>5, SortedLists
<1> HIDE DEF order
<1>7. /\ \A k \in 1 .. m : order[k] \in places
      /\ \A i \in places : \E k \in 1 .. m : order[k] = i
      /\ \A j, k \in 1 .. m : j < k => order[j] # order[k] /\ <<order[j], order[k]>> \in before
  BY <1>2, <1>6 DEF ListsInOrder
<1>8. \A i, j \in places : <<i, j>> \in before => GapLength(gaps[i]) >= GapLength(gaps[j])
  BY <1>3, <1>4
<1>9. \A j, k \in 1 .. m : j < k => /\ order[j] # order[k]
                                    /\ GapLength(gaps[order[j]]) >= GapLength(gaps[order[k]])
  BY <1>7, <1>8
<1> QED
  BY <1>1, <1>7, <1>9 DEF RankedAll

\* How the cuts, the gaps and their ranks lie along a corridor.
LaidOut(corridor, query, P, n, gaps, ranked) ==
  /\ Cuts(P, n, corridor.length)
  /\ \A a, b : Bare(corridor, query, a, b) <=> \A j \in 1 .. n : ~(a < P[j] /\ P[j] < b)
  /\ {s.at : s \in Counts(corridor, query)} = {P[i] : i \in 1 .. n}
  /\ GapsAlong(gaps, P, n)
  /\ \A i \in 1 .. (n + 1) : GapLength(gaps[i]) = P[i] - P[i - 1] /\ GapLength(gaps[i]) \in Nat
  /\ RankedAll(ranked, gaps, n + 1)

LEMMA GapsAreLaidOut ==
  ASSUME NEW corridor, NEW query, IsCorridor(corridor), IsQuery(query)
  PROVE  LET n == Cardinality(Counts(corridor, query))
             gaps == Gaps(corridor, query)
         IN  n \in Nat /\ LaidOut(corridor, query, CutsOf(corridor, query), n, gaps, Ranked(gaps))
<1> DEFINE n == Cardinality(Counts(corridor, query))
           gaps == Gaps(corridor, query)
           P == CutsOf(corridor, query)
           at == {s.at : s \in Counts(corridor, query)}
<1>1. Cuts(P, n, corridor.length) /\ at = {P[i] : i \in 1 .. n}
  BY CutsAreInOrder
<1>2. GapsAlong(gaps, P, n)
  BY GapsGoAlong
<1>3. \A a, b : Bare(corridor, query, a, b) <=> ~ \E x \in at : a < x /\ x < b
  BY DEF Bare
<1> SUFFICES n \in Nat /\ LaidOut(corridor, query, P, n, gaps, Ranked(gaps))
  OBVIOUS
<1> HIDE DEF P, n, gaps
<1>4. \A a, b : Bare(corridor, query, a, b) <=> \A j \in 1 .. n : ~(a < P[j] /\ P[j] < b)
  <2> TAKE a, b
  <2>1. (\E x \in at : a < x /\ x < b) <=> \E j \in 1 .. n : a < P[j] /\ P[j] < b
    <3> HIDE DEF at
    <3> QED
      BY <1>1
  <2> QED
    BY <1>3, <2>1
<1>5. /\ n \in Nat
      /\ \A i \in 0 .. (n + 1) : P[i] \in Nat
      /\ \A i, j \in 0 .. (n + 1) : i <= j => P[i] <= P[j]
  BY <1>1 DEF Cuts
<1>6. \A i \in 1 .. (n + 1) : GapLength(gaps[i]) = P[i] - P[i - 1] /\ GapLength(gaps[i]) \in Nat
  <2> TAKE i \in 1 .. (n + 1)
  <2>1. i \in 0 .. (n + 1) /\ i - 1 \in 0 .. (n + 1) /\ i - 1 <= i
    BY <1>5
  <2>2. P[i] \in Nat /\ P[i - 1] \in Nat /\ P[i - 1] <= P[i]
    BY <1>5, <2>1
  <2>3. gaps[i].to = P[i] /\ gaps[i].from = P[i - 1]
    BY <1>2 DEF GapsAlong
  <2>4. GapLength(gaps[i]) = P[i] - P[i - 1]
    BY <2>3 DEF GapLength
  <2> QED
    BY <2>2, <2>4
<1>7. n + 1 \in Nat /\ DOMAIN gaps = 1 .. (n + 1)
  BY <1>2, <1>5 DEF GapsAlong
<1>8. RankedAll(Ranked(gaps), gaps, n + 1)
  BY <1>6, <1>7, RankedAllGaps
<1> QED
  BY <1>1, <1>2, <1>4, <1>5, <1>6, <1>8 DEF LaidOut

\* The first rank is the longest stretch without a site.
LEMMA FirstRankIsLongest ==
  ASSUME NEW corridor, NEW query, NEW P, NEW n, NEW gaps, NEW ranked,
         LaidOut(corridor, query, P, n, gaps, ranked)
  PROVE  GapLength(ranked[1]) =
           Max({s[2] - s[1] : s \in {p \in (0 .. corridor.length) \X (0 .. corridor.length) :
                                       p[1] <= p[2] /\ Bare(corridor, query, p[1], p[2])}})
<1> DEFINE L == corridor.length
           S == {p \in (0 .. L) \X (0 .. L) : p[1] <= p[2] /\ Bare(corridor, query, p[1], p[2])}
           T == {s[2] - s[1] : s \in S}
           x == GapLength(ranked[1])
<1>1. /\ Cuts(P, n, L) /\ GapsAlong(gaps, P, n) /\ RankedAll(ranked, gaps, n + 1)
      /\ \A a, b : Bare(corridor, query, a, b) <=> \A j \in 1 .. n : ~(a < P[j] /\ P[j] < b)
      /\ \A i \in 1 .. (n + 1) : GapLength(gaps[i]) = P[i] - P[i - 1] /\ GapLength(gaps[i]) \in Nat
  BY DEF LaidOut
<1>2. /\ n \in Nat /\ L \in Nat /\ P[n + 1] = L
      /\ \A i \in 0 .. (n + 1) : P[i] \in Nat
      /\ \A i, j \in 0 .. (n + 1) : i <= j => P[i] <= P[j]
  BY <1>1 DEF Cuts
<1>3. PICK order :
        /\ ranked = [k \in 1 .. (n + 1) |-> gaps[order[k]]]
        /\ \A k \in 1 .. (n + 1) : order[k] \in 1 .. (n + 1)
        /\ \A i \in 1 .. (n + 1) : \E k \in 1 .. (n + 1) : order[k] = i
        /\ \A j, k \in 1 .. (n + 1) : j < k => /\ order[j] # order[k]
                                               /\ GapLength(gaps[order[j]]) >= GapLength(gaps[order[k]])
  BY <1>1 DEF RankedAll
<1>4. 1 \in 1 .. (n + 1) /\ order[1] \in 1 .. (n + 1) /\ x = GapLength(gaps[order[1]])
  BY <1>2, <1>3
<1> HIDE DEF x
<1>5. x \in Nat
  BY <1>1, <1>4
<1>6. \A i \in 1 .. (n + 1) : GapLength(gaps[i]) <= x
  <2> TAKE i \in 1 .. (n + 1)
  <2>1. PICK k \in 1 .. (n + 1) : order[k] = i
    BY <1>3
  <2>2. CASE k = 1
    BY <1>4, <1>5, <2>1, <2>2
  <2>3. CASE k # 1
    <3>1. 1 < k
      BY <1>2, <2>3
    <3>2. GapLength(gaps[order[1]]) >= GapLength(gaps[order[k]])
      BY <1>3, <1>4, <3>1
    <3> QED
      BY <1>1, <1>4, <1>5, <2>1, <3>2
  <2> QED
    BY <2>2, <2>3
<1>7. \A i \in 0 .. (n + 1) : P[i] \in 0 .. L
  <2> TAKE i \in 0 .. (n + 1)
  <2>1. i <= n + 1 /\ n + 1 \in 0 .. (n + 1)
    BY <1>2
  <2>2. P[i] <= P[n + 1] /\ P[i] \in Nat
    BY <1>2, <2>1
  <2> QED
    BY <1>2, <2>2
<1>8. x \in T
  <2> DEFINE i == order[1]
             p == <<P[i - 1], P[i]>>
  <2>1. i \in 1 .. (n + 1) /\ i \in 0 .. (n + 1) /\ i - 1 \in 0 .. (n + 1) /\ i - 1 <= i
    BY <1>2, <1>4
  <2>2. x = P[i] - P[i - 1]
    BY <1>1, <1>4
  <2> HIDE DEF i
  <2>3. P[i - 1] \in 0 .. L /\ P[i] \in 0 .. L /\ P[i - 1] <= P[i]
    BY <1>2, <1>7, <2>1
  <2>4. \A j \in 1 .. n : ~(P[i - 1] < P[j] /\ P[j] < P[i])
    <3> TAKE j \in 1 .. n
    <3>1. j \in 0 .. (n + 1)
      BY <1>2
    <3>2. (P[j] <= P[i - 1] \/ P[j] >= P[i]) /\ P[j] \in Nat
      BY <1>1, <1>2, <2>1, <3>1, NoCutInside
    <3> QED
      BY <2>3, <3>2
  <2>5. Bare(corridor, query, P[i - 1], P[i])
    BY <1>1, <2>4
  <2>6. p \in (0 .. L) \X (0 .. L) /\ p[1] = P[i - 1] /\ p[2] = P[i]
    BY <2>3
  <2> HIDE DEF p, L
  <2>7. p \in S
    BY <2>3, <2>5, <2>6
  <2> QED
    BY <2>2, <2>6, <2>7
<1>9. ASSUME NEW y \in T PROVE y \in Int /\ x >= y
  <2>1. PICK p \in S : y = p[2] - p[1]
    OBVIOUS
  <2> DEFINE a == p[1]
             b == p[2]
  <2>2. a \in 0 .. L /\ b \in 0 .. L /\ a <= b /\ Bare(corridor, query, a, b) /\ y = b - a
    BY <2>1
  <2> HIDE DEF a, b
  <2>3. CASE a = b
    BY <1>2, <1>5, <2>2, <2>3
  <2>4. CASE a # b
    <3>1. a < b
      BY <1>2, <2>2, <2>4
    <3>2. PICK m \in 1 .. (n + 1) : P[m - 1] <= a /\ a < P[m] /\ b <= P[m]
      BY <1>1, <2>2, <3>1, BareIsInAGap
    <3>3. P[m] - P[m - 1] <= x
      BY <1>1, <1>6
    <3>4. m \in 0 .. (n + 1) /\ m - 1 \in 0 .. (n + 1)
      BY <1>2
    <3>5. P[m] \in Nat /\ P[m - 1] \in Nat
      BY <1>2, <3>4
    <3> QED
      BY <1>2, <1>5, <2>2, <3>2, <3>3, <3>5
  <2> QED
    BY <2>3, <2>4
<1> HIDE DEF T
<1>10. T \subseteq Int /\ \A y \in T : x >= y
  BY <1>9
<1>11. Max(T) = x
  BY <1>8, <1>10, LargestOf
<1> QED
  BY <1>11 DEF T, x

LEMMA CorridorIsTiled ==
  ASSUME NEW corridor, NEW query, IsCorridor(corridor), IsQuery(query)
  PROVE  LET gaps == Gaps(corridor, query)
             counts == Counts(corridor, query)
             coverage == Coverage(corridor, query)
         IN  /\ \A c \in 0 .. (corridor.length - 1) :
                  Cardinality({i \in DOMAIN gaps : gaps[i].from <= c /\ c < gaps[i].to}) = 1
             /\ \A i \in DOMAIN gaps : Bare(corridor, query, gaps[i].from, gaps[i].to)
             /\ coverage.count = Cardinality(counts) + 1
             /\ coverage.qualifying = Cardinality(counts)
             /\ coverage.total = corridor.length
             /\ coverage.longest = GapLength(Ranked(gaps)[1])
<1> DEFINE gaps == Gaps(corridor, query)
           n == Cardinality(Counts(corridor, query))
           P == CutsOf(corridor, query)
           coverage == Coverage(corridor, query)
<1>1. n \in Nat /\ LaidOut(corridor, query, P, n, gaps, Ranked(gaps))
  BY GapsAreLaidOut
<1>2. /\ Cuts(P, n, corridor.length) /\ GapsAlong(gaps, P, n)
      /\ \A a, b : Bare(corridor, query, a, b) <=> \A j \in 1 .. n : ~(a < P[j] /\ P[j] < b)
  BY <1>1 DEF LaidOut
<1>3. /\ coverage.count = Len(gaps)
      /\ coverage.qualifying = Cardinality(Counts(corridor, query))
      /\ coverage.total = Added([i \in DOMAIN gaps |-> GapLength(gaps[i])])
      /\ coverage.longest = GapLength(Ranked(gaps)[1])
  BY SitesThatCount DEF Coverage
<1>4. coverage.total = corridor.length
  BY <1>2, <1>3, GapsAddUp
<1> HIDE DEF gaps, n, P, coverage
<1>5. Len(gaps) = n + 1 /\ DOMAIN gaps = 1 .. (n + 1)
      /\ \A i \in 1 .. (n + 1) : gaps[i].from = P[i - 1] /\ gaps[i].to = P[i]
  BY <1>2 DEF GapsAlong
<1>6. ASSUME NEW c \in 0 .. (corridor.length - 1)
      PROVE  Cardinality({i \in DOMAIN gaps : gaps[i].from <= c /\ c < gaps[i].to}) = 1
  <2> DEFINE S == {i \in DOMAIN gaps : gaps[i].from <= c /\ c < gaps[i].to}
  <2>1. PICK m \in 1 .. (n + 1) :
          /\ P[m - 1] <= c /\ c < P[m]
          /\ \A j \in 1 .. (n + 1) : P[j - 1] <= c /\ c < P[j] => j = m
    BY <1>2, CellHasAGap
  <2>2. S = {m}
    BY <1>5, <2>1
  <2> QED
    BY <2>2, FS_Singleton
<1>7. ASSUME NEW i \in DOMAIN gaps PROVE Bare(corridor, query, gaps[i].from, gaps[i].to)
  <2>1. i \in 1 .. (n + 1) /\ gaps[i].from = P[i - 1] /\ gaps[i].to = P[i]
    BY <1>5
  <2>2. i \in 0 .. (n + 1) /\ i - 1 \in 0 .. (n + 1)
    BY <1>1, <2>1
  <2>3. P[i] \in Nat /\ P[i - 1] \in Nat /\ \A j \in 0 .. (n + 1) : P[j] \in Nat
    BY <1>2, <2>2 DEF Cuts
  <2>4. \A j \in 1 .. n : ~(P[i - 1] < P[j] /\ P[j] < P[i])
    <3> TAKE j \in 1 .. n
    <3>1. j \in 0 .. (n + 1)
      BY <1>1
    <3>2. P[j] <= P[i - 1] \/ P[j] >= P[i]
      BY <1>2, <2>1, <3>1, NoCutInside
    <3> QED
      BY <2>3, <3>1, <3>2
  <2> QED
    BY <1>2, <2>1, <2>4
<1> QED
  BY <1>3, <1>4, <1>5, <1>6, <1>7 DEF gaps, n, coverage

\* Which gap each rank is.
RanksAre(order, ranked, P, m) ==
  /\ \A k \in 1 .. m : /\ order[k] \in 1 .. m
                       /\ ranked[k].from = P[order[k] - 1] /\ ranked[k].to = P[order[k]]
  /\ \A i \in 1 .. m : \E k \in 1 .. m : order[k] = i
  /\ \A j, k \in 1 .. m : j < k => order[j] # order[k]

\* The ranks, from the longest to the shortest.
LEMMA RanksFall ==
  ASSUME NEW corridor, NEW query, NEW P, NEW n \in Nat, NEW gaps, NEW ranked,
         LaidOut(corridor, query, P, n, gaps, ranked)
  PROVE  /\ DOMAIN ranked = 1 .. (n + 1)
         /\ \A k \in 1 .. (n + 1) : GapLength(ranked[k]) \in Nat
         /\ \A j, k \in 1 .. (n + 1) : j <= k => GapLength(ranked[j]) >= GapLength(ranked[k])
         /\ \E order : RanksAre(order, ranked, P, n + 1)
<1>1. PICK order :
        /\ ranked = [k \in 1 .. (n + 1) |-> gaps[order[k]]]
        /\ \A k \in 1 .. (n + 1) : order[k] \in 1 .. (n + 1)
        /\ \A i \in 1 .. (n + 1) : \E k \in 1 .. (n + 1) : order[k] = i
        /\ \A j, k \in 1 .. (n + 1) : j < k => /\ order[j] # order[k]
                                               /\ GapLength(gaps[order[j]]) >= GapLength(gaps[order[k]])
  BY DEF LaidOut, RankedAll
<1>2. DOMAIN ranked = 1 .. (n + 1) /\ \A k \in 1 .. (n + 1) : ranked[k] = gaps[order[k]]
  BY <1>1
<1>3. /\ \A i \in 1 .. (n + 1) : GapLength(gaps[i]) \in Nat
      /\ \A i \in 1 .. (n + 1) : gaps[i].from = P[i - 1] /\ gaps[i].to = P[i]
  BY DEF LaidOut, GapsAlong
<1>4. \A k \in 1 .. (n + 1) : GapLength(ranked[k]) = GapLength(gaps[order[k]])
                              /\ GapLength(ranked[k]) \in Nat
  BY <1>1, <1>2, <1>3
<1>5. ASSUME NEW j \in 1 .. (n + 1), NEW k \in 1 .. (n + 1), j <= k
      PROVE  GapLength(ranked[j]) >= GapLength(ranked[k])
  <2>1. CASE j = k
    BY <1>4, <2>1
  <2>2. CASE j # k
    <3>1. j < k
      BY <1>5, <2>2
    <3>2. GapLength(gaps[order[j]]) >= GapLength(gaps[order[k]])
      BY <1>1, <3>1
    <3> QED
      BY <1>4, <3>2
  <2> QED
    BY <2>1, <2>2
<1>6. \A k \in 1 .. (n + 1) : ranked[k].from = P[order[k] - 1] /\ ranked[k].to = P[order[k]]
  BY <1>1, <1>2, <1>3
<1>7. RanksAre(order, ranked, P, n + 1)
  BY <1>1, <1>6 DEF RanksAre
<1> QED
  BY <1>2, <1>4, <1>5, <1>7

\* The bare stretches from end to end above the threshold.
LongIn(corridor, query) ==
  LET ends == {0, corridor.length} \cup {s.at : s \in Counts(corridor, query)}
  IN  {p \in ends \X ends : p[2] - p[1] > query.threshold /\ Bare(corridor, query, p[1], p[2])}

\* They are the first d ranks.
LongRanks(d, ranked, m, query, long) ==
  /\ {k \in 1 .. m : GapLength(ranked[k]) > query.threshold} = 1 .. d
  /\ Cardinality(long) = d
  /\ \A k \in 1 .. d : /\ <<ranked[k].from, ranked[k].to>> \in long
                       /\ Cardinality({p \in long : p[2] - p[1] > GapLength(ranked[k])}) < k

LEMMA LongStretches ==
  ASSUME NEW corridor, NEW query, NEW P, NEW n \in Nat, NEW gaps, NEW ranked, IsQuery(query),
         LaidOut(corridor, query, P, n, gaps, ranked)
  PROVE  \E d \in 0 .. (n + 1) : LongRanks(d, ranked, n + 1, query, LongIn(corridor, query))
<1> DEFINE L == corridor.length
           N == n + 1
           ends == {0, L} \cup {s.at : s \in Counts(corridor, query)}
           long == {p \in ends \X ends :
                      p[2] - p[1] > query.threshold /\ Bare(corridor, query, p[1], p[2])}
           size(k) == GapLength(ranked[k])
           pair(k) == <<ranked[k].from, ranked[k].to>>
           D == {k \in 1 .. N : size(k) > query.threshold}
<1>1. /\ Cuts(P, n, L)
      /\ \A a, b : Bare(corridor, query, a, b) <=> \A j \in 1 .. n : ~(a < P[j] /\ P[j] < b)
      /\ {s.at : s \in Counts(corridor, query)} = {P[i] : i \in 1 .. n}
  BY DEF LaidOut
<1>2. /\ L \in Nat /\ P[N] = L /\ P[0] = 0
      /\ \A i \in 0 .. N : P[i] \in Nat
      /\ \A i, j \in 0 .. N : i <= j => P[i] <= P[j]
  BY <1>1 DEF Cuts
<1>3. query.threshold \in Nat
  BY DEF IsQuery
<1>0. PICK order : RanksAre(order, ranked, P, N)
  BY RanksFall
<1>4. /\ \A k \in 1 .. N : /\ order[k] \in 1 .. N
                           /\ ranked[k].from = P[order[k] - 1] /\ ranked[k].to = P[order[k]]
      /\ \A i \in 1 .. N : \E k \in 1 .. N : order[k] = i
      /\ \A j, k \in 1 .. N : j < k => order[j] # order[k]
  BY <1>0 DEF RanksAre
<1>5. /\ \A k \in 1 .. N : size(k) \in Nat
      /\ \A j, k \in 1 .. N : j <= k => size(j) >= size(k)
  BY RanksFall
<1>6. ends = {P[i] : i \in 0 .. N}
  <2> DEFINE mid == {P[i] : i \in 1 .. n}
  <2>1. ends = {0, L} \cup mid
    BY <1>1
  <2>2. \A i \in 0 .. N : i = 0 \/ i = N \/ i \in 1 .. n
    OBVIOUS
  <2>3. 0 \in 0 .. N /\ N \in 0 .. N /\ \A i \in 1 .. n : i \in 0 .. N
    OBVIOUS
  <2> HIDE DEF ends
  <2> QED
    BY <1>2, <2>1, <2>2, <2>3
<1>7. N \in Nat
  OBVIOUS
<1>8. \A k \in 1 .. N : size(k) = ranked[k].to - ranked[k].from
  BY DEF GapLength
<1> HIDE DEF ends, size, L
<1>9. PICK d \in 0 .. N : D = 1 .. d
  <2>1. ASSUME NEW k \in D, NEW j \in 1 .. N, j <= k PROVE j \in D
    <3>1. k \in 1 .. N /\ size(k) > query.threshold
      OBVIOUS
    <3>2. size(j) >= size(k) /\ size(j) \in Nat /\ size(k) \in Nat
      BY <1>5, <2>1, <3>1
    <3> QED
      BY <1>3, <3>1, <3>2
  <2>2. D \in SUBSET (1 .. N)
    OBVIOUS
  <2> HIDE DEF D
  <2> QED
    BY <1>7, <2>1, <2>2, FirstPlaces
<1>10. \A k \in 1 .. d : k \in 1 .. N /\ size(k) > query.threshold
  BY <1>9
<1>11. \A k \in 1 .. N : size(k) > query.threshold => k \in 1 .. d
  BY <1>9
<1> HIDE DEF N
<1>12. ASSUME NEW k \in 1 .. d PROVE pair(k) \in long /\ pair(k)[2] - pair(k)[1] = size(k)
  <2> DEFINE i == order[k]
             a == ranked[k].from
             b == ranked[k].to
  <2>1. k \in 1 .. N /\ i \in 1 .. N /\ a = P[i - 1] /\ b = P[i] /\ size(k) = b - a
    BY <1>4, <1>8, <1>10
  <2> HIDE DEF i, a, b
  <2>2. i \in 0 .. N /\ i - 1 \in 0 .. N
    BY <1>7, <2>1
  <2>3. a \in ends /\ b \in ends /\ a \in Nat /\ b \in Nat
    BY <1>2, <1>6, <2>1, <2>2
  <2>4. \A j \in 1 .. n : ~(a < P[j] /\ P[j] < b)
    <3> TAKE j \in 1 .. n
    <3>1. j \in 0 .. (n + 1) /\ i \in 1 .. (n + 1) /\ j \in 0 .. N
      BY <2>1 DEF N
    <3>2. P[j] <= P[i - 1] \/ P[j] >= P[i]
      BY <1>1, <3>1, NoCutInside
    <3> QED
      BY <1>2, <2>1, <2>3, <3>1, <3>2
  <2>5. Bare(corridor, query, a, b)
    BY <1>1, <2>4
  <2>6. b - a > query.threshold
    BY <1>10, <2>1
  <2> DEFINE p == <<a, b>>
  <2>7. p \in ends \X ends /\ p[1] = a /\ p[2] = b
    BY <2>3
  <2> HIDE DEF p
  <2>8. p \in long
    BY <2>5, <2>6, <2>7
  <2> QED
    BY <2>1, <2>7, <2>8 DEF p, a, b
<1>13. ASSUME NEW p \in long PROVE \E k \in 1 .. d : p = pair(k)
  <2>1. p \in ends \X ends /\ p[2] - p[1] > query.threshold /\ Bare(corridor, query, p[1], p[2])
    OBVIOUS
  <2>2. PICK x \in ends, y \in ends : p = <<x, y>>
    BY <2>1
  <2>3. y - x > query.threshold /\ Bare(corridor, query, x, y)
    BY <2>1, <2>2
  <2>4. PICK i \in 0 .. N : x = P[i]
    BY <1>6
  <2>5. PICK l \in 0 .. N : y = P[l]
    BY <1>6
  <2>6. P[i] \in Nat /\ P[l] \in Nat /\ P[i] < P[l]
    <3>1. P[i] \in Nat /\ P[l] \in Nat
      BY <1>2
    <3> QED
      BY <1>3, <2>3, <2>4, <2>5, <3>1
  <2>7. \A j \in 1 .. n : ~(P[i] < P[j] /\ P[j] < P[l])
    BY <1>1, <2>3, <2>4, <2>5
  <2>8. PICK m \in 1 .. N : P[m - 1] = P[i] /\ P[m] = P[l]
    BY <1>1, <2>6, <2>7, BareCutsAreAGap DEF N
  <2>9. PICK k \in 1 .. N : order[k] = m
    BY <1>4
  <2>10. ranked[k].from = x /\ ranked[k].to = y
    BY <1>4, <2>4, <2>5, <2>8, <2>9
  <2>11. size(k) > query.threshold
    BY <1>8, <2>3, <2>10
  <2> QED
    BY <1>11, <2>2, <2>10, <2>11
<1>14. ASSUME NEW j \in 1 .. d, NEW k \in 1 .. d, j < k PROVE pair(j) # pair(k)
  <2> DEFINE u == order[j]
             v == order[k]
  <2>1. j \in 1 .. N /\ k \in 1 .. N
    BY <1>10
  <2>2. u \in 1 .. N /\ v \in 1 .. N /\ u # v
        /\ ranked[j].from = P[u - 1] /\ ranked[j].to = P[u]
        /\ ranked[k].from = P[v - 1] /\ ranked[k].to = P[v]
    BY <1>4, <1>14, <2>1
  <2>3. P[u] - P[u - 1] > query.threshold /\ P[v] - P[v - 1] > query.threshold
    BY <1>8, <1>10, <2>1, <2>2
  <2> HIDE DEF u, v
  <2>4. u \in 0 .. N /\ u - 1 \in 0 .. N /\ v \in 0 .. N /\ v - 1 \in 0 .. N
    BY <1>7, <2>2
  <2>5. P[u] \in Nat /\ P[u - 1] \in Nat /\ P[v] \in Nat /\ P[v - 1] \in Nat
    BY <1>2, <2>4
  <2>6. u <= v - 1 \/ v <= u - 1
    BY <1>7, <2>2
  <2>7. P[u] <= P[v - 1] \/ P[v] <= P[u - 1]
    BY <1>2, <2>4, <2>6
  <2>8. P[u - 1] # P[v - 1]
    BY <1>3, <2>3, <2>5, <2>7
  <2> QED
    BY <2>2, <2>8
<1> DEFINE f == [k \in 1 .. d |-> pair(k)]
<1>15. f \in Bijection(1 .. d, long)
  <2>1. f \in [1 .. d -> long]
    BY <1>12
  <2>2. \A k \in 1 .. d : f[k] = pair(k)
    OBVIOUS
  <2> HIDE DEF f, long, pair
  <2>3. \A j, k \in 1 .. d : f[j] = f[k] => j = k
    <3> SUFFICES ASSUME NEW j \in 1 .. d, NEW k \in 1 .. d, f[j] = f[k], j # k PROVE FALSE
      OBVIOUS
    <3>1. j < k \/ k < j
      BY <1>7
    <3> QED
      BY <1>14, <2>2, <3>1
  <2>4. \A p \in long : \E k \in 1 .. d : f[k] = p
    BY <1>13, <2>2
  <2> QED
    BY <2>1, <2>3, <2>4 DEF Bijection, Injection, IsInjective, Surjection
<1>16. Cardinality(1 .. d) = d /\ IsFiniteSet(1 .. d)
  BY <1>7, FS_Interval
<1>17. Cardinality(long) = d
  <2>1. ExistsBijection(1 .. d, long)
    BY <1>15 DEF ExistsBijection
  <2> HIDE DEF long
  <2> QED
    BY <1>16, <2>1, FS_Bijection
<1>18. ASSUME NEW k \in 1 .. d PROVE Cardinality({p \in long : p[2] - p[1] > size(k)}) < k
  <2> DEFINE Q == {p \in long : p[2] - p[1] > size(k)}
             e == k - 1
             R == {pair(j) : j \in 1 .. e}
             g == [j \in 1 .. e |-> pair(j)]
  <2>1. e \in Nat /\ \A j \in 1 .. e : j \in 1 .. d
    BY <1>7
  <2>2. ASSUME NEW p \in Q PROVE p \in R
    <3>1. PICK j \in 1 .. d : p = pair(j)
      BY <1>13
    <3>2. size(j) > size(k)
      BY <1>12, <3>1
    <3>3. j \in 1 .. N /\ k \in 1 .. N
      BY <1>10
    <3>4. size(j) \in Nat /\ size(k) \in Nat /\ ~(k <= j)
      BY <1>5, <3>2, <3>3
    <3>5. j \in 1 .. e
      BY <1>7, <3>3, <3>4
    <3> QED
      BY <3>1, <3>5
  <2>3. g \in Surjection(1 .. e, R)
    <3>1. g \in [1 .. e -> R] /\ \A p \in R : \E j \in 1 .. e : g[j] = p
      OBVIOUS
    <3> QED
      BY <3>1 DEF Surjection
  <2> HIDE DEF Q, R, g
  <2>4. IsFiniteSet(1 .. e) /\ Cardinality(1 .. e) = e
    <3>1. 1 \in Int /\ e \in Int
      BY <2>1
    <3> HIDE DEF e
    <3> QED
      BY <2>1, <3>1, FS_Interval
  <2>5. IsFiniteSet(R) /\ Cardinality(R) <= Cardinality(1 .. e)
    BY <2>3, <2>4, FS_Surjection
  <2>6. Q \subseteq R
    BY <2>2
  <2>7. Cardinality(Q) <= Cardinality(R) /\ Cardinality(Q) \in Nat /\ Cardinality(R) \in Nat
    BY <2>5, <2>6, FS_Subset, FS_CardinalityType
  <2>8. Cardinality(Q) < k
    BY <2>1, <2>4, <2>5, <2>7
  <2> QED
    BY <2>8 DEF Q
<1>19. \A k \in 1 .. d : pair(k) \in long
  BY <1>12
<1>20. LongRanks(d, ranked, N, query, long)
  <2> HIDE DEF long
  <2> QED
    BY <1>9, <1>17, <1>18, <1>19 DEF LongRanks, D, size
<1>21. long = LongIn(corridor, query)
  BY DEF LongIn, ends, L
<1> HIDE DEF long
<1> QED
  BY <1>20, <1>21 DEF N

-----------------------------------------------------------------------------
(* Analyses *)

\* A step answers a task that has no answer yet, or leaves the answer alone.
LEMMA StepsAnswer ==
  ASSUME [Next]_vars
  PROVE  /\ UNCHANGED task
         /\ \/ UNCHANGED result
            \/ AnalysesNext
            \/ AnalyseCoverage
            \/ task.kind \notin {"energy", "explain", "analyse", "coverage"}
<1>1. CASE UNCHANGED vars
  BY <1>1 DEF vars
<1>2. CASE KeepFleet \/ FollowStream \/ UseDatabase \/ AskProviders
  BY <1>2 DEF KeepFleet, FollowStream, UseDatabase, AskProviders
<1>3. CASE WriteTrainingData \/ WriteLake \/ SplitFrame
  BY <1>3 DEF WriteTrainingData, WriteLake, SplitFrame
<1>4. CASE GenerateWindows \/ GenerateSweep \/ TrainModel \/ Predict \/ Attribute
  BY <1>4 DEF GenerateWindows, GenerateSweep, TrainModel, Predict, Attribute, Asked
<1>5. CASE PlanCharging \/ ValidateDocument \/ ReadWeather
  BY <1>5 DEF PlanCharging, ValidateDocument, ReadWeather, Asked
<1>6. CASE Analysis
  BY <1>6 DEF Analysis, AnalysesNext, MeasureEnergy, ExplainEnergy, AnalyseRoute
<1>7. CASE AnalyseCoverage
  BY <1>7 DEF AnalyseCoverage
<1> QED
  BY <1>1, <1>2, <1>3, <1>4, <1>5, <1>6, <1>7 DEF Next

RouteAnswer(request) ==
  Analyse(request, Resolved(request), ConditionsOf(request, Resolved(request)))

\* The task is one of those that are asked, an energy is that of its condition, an analysis
\* that of its request.
AnswersInv ==
  /\ \E tasks \in Tasks : task \in tasks
  /\ Done("energy") => result = SegmentEnergy(task.condition)
  /\ Done("analyse") => result = RouteAnswer(task.request)

LEMMA AnswersInvNext ==
  ASSUME AnswersInv, [Next]_vars
  PROVE  AnswersInv'
<1>1. UNCHANGED task
  BY StepsAnswer
<1>2. CASE UNCHANGED result
  BY <1>1, <1>2 DEF AnswersInv, Done
<1>3. CASE MeasureEnergy
  <2>1. task.kind # "analyse" /\ result' = SegmentEnergy(task.condition)
    BY <1>3 DEF MeasureEnergy, Asked
  <2> QED
    BY <1>1, <2>1 DEF AnswersInv, Done
<1>4. CASE ExplainEnergy
  <2>1. task.kind # "energy" /\ task.kind # "analyse"
    BY <1>4 DEF ExplainEnergy, Asked
  <2> QED
    BY <1>1, <2>1 DEF AnswersInv, Done
<1>5. CASE AnalyseRoute
  <2>1. task.kind # "energy" /\ result' = RouteAnswer(task.request)
    BY <1>5 DEF AnalyseRoute, Asked, RouteAnswer
  <2> QED
    BY <1>1, <2>1 DEF AnswersInv, Done
<1>6. CASE AnalyseCoverage \/ task.kind \notin {"energy", "explain", "analyse", "coverage"}
  <2>1. task.kind # "energy" /\ task.kind # "analyse"
    BY <1>6 DEF AnalyseCoverage, Asked
  <2> QED
    BY <1>1, <2>1 DEF AnswersInv, Done
<1> QED
  BY <1>2, <1>3, <1>4, <1>5, <1>6, StepsAnswer DEF AnalysesNext

LEMMA AnswersAreComputed == Spec => []AnswersInv
<1>1. Init => AnswersInv
  BY DEF Init, AnswersInv, Done
<1>2. AnswersInv /\ [Next]_vars => AnswersInv'
  BY AnswersInvNext
<1> QED
  BY <1>1, <1>2, PTL DEF Spec

\* For every vehicle condition the code accepts, uphill or downhill, moving or standing: a
\* colder pack makes no segment cheaper, no segment is a source, and what a segment takes
\* is the sum of its parts, each to within one Wh a term (PhysicalEnergyModel).
THEOREM ColdAlwaysCosts == Spec => []ColdNeverHelps
<1>1. AnswersInv => ColdNeverHelps
  <2> SUFFICES ASSUME AnswersInv, Done("energy") PROVE ColdNeverHelps
    BY DEF ColdNeverHelps
  <2>1. task.condition \in SegmentConditions
    BY AnalysesAssumption DEF AnswersInv, Done
  <2> QED
    BY <2>1, EnergyNeverHelps DEF AnswersInv
<1> QED
  BY <1>1, AnswersAreComputed, PTL

\* What an analysis that is not refused was computed from.
LEMMA RouteAnswered ==
  ASSUME AnswersInv, Done("analyse"), result # Refused
  PROVE  LET request == task.request
             segments == Resolved(request)
         IN  /\ request \in RouteRequests
             /\ \E lengths, energies :
                  /\ RouteOf(segments, lengths) /\ Len(lengths) > 0
                  /\ energies \in Seq(Nat) /\ Len(energies) = Len(lengths)
                  /\ result = Respond(request, segments, ConditionsOf(request, segments), energies)
<1> DEFINE request == task.request
           segments == Resolved(request)
           conditions == ConditionsOf(request, segments)
           energies == [i \in DOMAIN segments |-> Served(request, conditions[i])]
<1>1. request \in RouteRequests
  BY AnalysesAssumption DEF AnswersInv, Done
<1>2. PICK lengths : RouteOf(segments, lengths)
  BY <1>1, ResolvedIsTyped
<1>3. DOMAIN segments = 1 .. Len(lengths) /\ Len(lengths) \in Nat
  BY <1>2 DEF RouteOf
<1>4. segments # <<>> /\ result = Respond(request, segments, conditions, energies)
  BY DEF AnswersInv, RouteAnswer, Analyse
<1>5. Len(lengths) > 0
  <2>1. Len(lengths) = 0 => segments = <<>>
    BY <1>2 DEF RouteOf
  <2> QED
    BY <1>3, <1>4, <2>1
<1>6. \A i \in DOMAIN segments : energies[i] \in Nat
  <2> TAKE i \in DOMAIN segments
  <2>1. conditions[i] = SegmentCondition(request, segments, i)
    BY DEF ConditionsOf
  <2>2. conditions[i] \in MeasuredConditions
    BY <1>1, <1>2, <2>1, ConditionIsTyped
  <2>3. energies[i] = Served(request, conditions[i])
    OBVIOUS
  <2> HIDE DEF energies, conditions
  <2> QED
    BY <1>1, <2>2, <2>3, ServedIsNatural
<1>7. energies = [i \in 1 .. Len(lengths) |-> energies[i]]
  BY <1>3
<1> HIDE DEF energies, conditions, segments
<1>8. energies \in Seq(Nat) /\ Len(energies) = Len(lengths)
  BY <1>3, <1>6, <1>7, IsASeq
<1> QED
  BY <1>1, <1>2, <1>4, <1>5, <1>8 DEF segments, conditions

LEMMA AnswersKeepTheCharge ==
  ASSUME AnswersInv
  PROVE  ChargeCurveHolds
<1> SUFFICES ASSUME Done("analyse"), result # Refused PROVE ChargeCurveHolds
  BY DEF ChargeCurveHolds
<1> DEFINE request == task.request
           segments == Resolved(request)
<1>1. request \in RouteRequests
  BY RouteAnswered
<1>2. PICK lengths, energies :
        /\ RouteOf(segments, lengths) /\ Len(lengths) > 0
        /\ energies \in Seq(Nat) /\ Len(energies) = Len(lengths)
        /\ result = Respond(request, segments, ConditionsOf(request, segments), energies)
  BY RouteAnswered
<1> DEFINE N == Len(energies)
           charges == ChargesOf(energies, request.start)
           arrival == request.start - Added(SubSeq(energies, 1, N))
<1>3. DOMAIN segments = 1 .. N /\ Len(segments) = N /\ N \in Nat
  BY <1>2 DEF RouteOf
<1>4. /\ DOMAIN result.rows = 1 .. N
      /\ \A i \in 1 .. N : result.rows[i].charge = Clamped(request.start - Added(SubSeq(energies, 1, i)))
      /\ result.arrival = Clamped(request.start - Added(SubSeq(energies, 1, Len(segments))))
      /\ result.deficit = Max({0, request.reserve - (request.start - Added(SubSeq(energies, 1, Len(segments))))})
  BY <1>2, <1>3 DEF Respond
<1>5. \A i \in 1 .. N : charges[i] = result.rows[i].charge
  BY <1>4 DEF ChargesOf
<1>6. /\ result.arrival = Clamped(arrival)
      /\ result.deficit = Max({0, request.reserve - arrival})
  BY <1>3, <1>4
<1>7. {charges[i] : i \in 1 .. N} = {result.rows[i].charge : i \in DOMAIN result.rows}
  BY <1>4, <1>5
<1>8. request.start \in 0 .. Usable /\ request.reserve \in 0 .. Usable
  BY <1>1 DEF RouteRequests
<1> DEFINE all == {charges[i] : i \in 1 .. N}
<1>9. /\ (\E c \in all : c < request.reserve) => Max({0, request.reserve - arrival}) > 0
      /\ Max({0, request.reserve - arrival}) > 0 =>
           (\E c \in all : c < request.reserve) \/ (request.reserve = 0 /\ 0 \in all)
      /\ \A i, j \in 1 .. N : i < j => charges[i] >= charges[j]
      /\ Clamped(arrival) = Min(all)
  <2>1. energies \in Seq(Nat) /\ Len(energies) > 0
    BY <1>2
  <2> DEFINE start == request.start
             reserve == request.reserve
  <2>2. start \in 0 .. Usable /\ reserve \in 0 .. Usable
    BY <1>8
  <2> HIDE DEF start, reserve
  <2> QED
    BY <2>1, <2>2, ChargesFall DEF start, reserve
<1> HIDE DEF charges, arrival, N
<1> QED
  BY <1>4, <1>5, <1>6, <1>7, <1>9 DEF ChargeCurveHolds

\* Of every route, whatever its rows, steps, weather, traffic and predictions are: charging
\* is called required exactly if the charge falls below the reserve on the way, the charge
\* never rises, and the arrival is the least of it.
\* (_build_response compares only the arrival.)
THEOREM ChargeAlwaysFalls == Spec => []ChargeCurveHolds
<1>1. AnswersInv => ChargeCurveHolds
  BY AnswersKeepTheCharge
<1> QED
  BY <1>1, AnswersAreComputed, PTL

\* What is reported are the first ranks, and the first of all.
LEMMA ReportedAreFirst ==
  ASSUME NEW query, NEW m \in Nat \ {0}, NEW ranked, IsQuery(query), DOMAIN ranked = 1 .. m,
         \A k \in 1 .. m : GapLength(ranked[k]) \in Nat,
         \A j, k \in 1 .. m : j <= k => GapLength(ranked[j]) >= GapLength(ranked[k])
  PROVE  \E a \in 1 .. m :
           /\ Reported(ranked, query) = [k \in 1 .. a |-> ranked[k]]
           /\ \A k \in 1 .. m : k \in 1 .. a <=>
                k <= query.top /\ (GapLength(ranked[k]) >= query.threshold \/ k = 1)
<1> DEFINE size(k) == GapLength(ranked[k])
           S == {k \in 1 .. m : k <= query.top /\ (size(k) >= query.threshold \/ k = 1)}
<1>1. query.top \in Nat \ {0} /\ query.threshold \in Nat
  BY DEF IsQuery
<1> HIDE DEF size
<1>2. /\ \A k \in 1 .. m : size(k) \in Nat
      /\ \A j, k \in 1 .. m : j <= k => size(j) >= size(k)
  BY DEF size
<1>3. ASSUME NEW k \in S, NEW j \in 1 .. m, j <= k PROVE j \in S
  <2>1. k \in 1 .. m /\ k <= query.top /\ (size(k) >= query.threshold \/ k = 1)
    OBVIOUS
  <2>2. size(j) >= size(k) /\ size(j) \in Nat /\ size(k) \in Nat
    BY <1>2, <1>3, <2>1
  <2>3. j <= query.top /\ (size(j) >= query.threshold \/ j = 1)
    BY <1>1, <1>3, <2>1, <2>2
  <2> QED
    BY <2>3
<1>4. S \in SUBSET (1 .. m)
  OBVIOUS
<1>5. 1 \in S
  BY <1>1
<1>6. \A k \in 1 .. m : k \in S <=> k <= query.top /\ (size(k) >= query.threshold \/ k = 1)
  OBVIOUS
<1>7. Reported(ranked, query) = AtPlaces(ranked, S)
  BY DEF Reported, size
<1> HIDE DEF S
<1>8. PICK a \in 0 .. m : S = 1 .. a
  BY <1>3, <1>4, FirstPlaces
<1>9. a \in 1 .. m /\ a \in Nat
  BY <1>5, <1>8
<1>10. Reported(ranked, query) = [k \in 1 .. a |-> ranked[k]]
  BY <1>7, <1>8, <1>9, AtFirstPlaces
<1> QED
  BY <1>6, <1>8, <1>9, <1>10 DEF size

LEMMA UnderservedAreLong ==
  ASSUME NEW corridor, NEW query, IsCorridor(corridor), IsQuery(query)
  PROVE  LET coverage == Coverage(corridor, query)
             long == LongIn(corridor, query)
             listed == Underserved(coverage, query)
         IN  /\ coverage.gaps # <<>> /\ GapLength(coverage.gaps[1]) = coverage.longest
             /\ Len(listed) = Min({query.top, Cardinality(long)})
             /\ \A i \in DOMAIN listed :
                  /\ <<listed[i].from, listed[i].to>> \in long
                  /\ Cardinality({p \in long : p[2] - p[1] > GapLength(listed[i])}) < i
<1> DEFINE coverage == Coverage(corridor, query)
           long == LongIn(corridor, query)
           listed == Underserved(coverage, query)
           n == Cardinality(Counts(corridor, query))
           m == n + 1
           ranked == Ranked(Gaps(corridor, query))
           size(k) == GapLength(ranked[k])
<1>1. n \in Nat /\ LaidOut(corridor, query, CutsOf(corridor, query), n, Gaps(corridor, query), ranked)
  BY GapsAreLaidOut
<1>0. PICK d \in 0 .. m : LongRanks(d, ranked, m, query, long)
  BY <1>1, LongStretches
<1>2. /\ {k \in 1 .. m : size(k) > query.threshold} = 1 .. d
      /\ Cardinality(long) = d
      /\ \A k \in 1 .. d :
           /\ <<ranked[k].from, ranked[k].to>> \in long
           /\ Cardinality({p \in long : p[2] - p[1] > size(k)}) < k
  BY <1>0, Zenon DEF LongRanks
<1>3. /\ DOMAIN ranked = 1 .. m
      /\ \A k \in 1 .. m : size(k) \in Nat
      /\ \A j, k \in 1 .. m : j <= k => size(j) >= size(k)
  BY <1>1, RanksFall
<1>4. m \in Nat \ {0}
  BY <1>1
<1>5. query.top \in Nat \ {0} /\ query.threshold \in Nat
  BY DEF IsQuery
<1>6. coverage.gaps = Reported(ranked, query) /\ coverage.longest = size(1)
  BY DEF Coverage
<1> SUFFICES /\ coverage.gaps # <<>> /\ GapLength(coverage.gaps[1]) = coverage.longest
             /\ Len(listed) = Min({query.top, Cardinality(long)})
             /\ \A i \in DOMAIN listed :
                  /\ <<listed[i].from, listed[i].to>> \in long
                  /\ Cardinality({p \in long : p[2] - p[1] > GapLength(listed[i])}) < i
  OBVIOUS
<1> HIDE DEF coverage, long, n, m, ranked
<1>7. PICK a \in 1 .. m :
        /\ Reported(ranked, query) = [k \in 1 .. a |-> ranked[k]]
        /\ \A k \in 1 .. m : k \in 1 .. a <=>
             k <= query.top /\ (size(k) >= query.threshold \/ k = 1)
  BY <1>3, <1>4, ReportedAreFirst
<1>8. /\ DOMAIN coverage.gaps = 1 .. a /\ 1 \in 1 .. a /\ a \in Nat
      /\ \A k \in 1 .. a : coverage.gaps[k] = ranked[k] /\ k \in 1 .. m
  BY <1>4, <1>6, <1>7
<1>9. coverage.gaps # <<>> /\ GapLength(coverage.gaps[1]) = coverage.longest
  BY <1>6, <1>8
<1> DEFINE A == {k \in DOMAIN coverage.gaps : GapLength(coverage.gaps[k]) > query.threshold}
           b == IF query.top <= d THEN query.top ELSE d
<1>10. A = {k \in 1 .. a : size(k) > query.threshold}
  BY <1>8
<1>11. \A k \in 1 .. m : k \in 1 .. d <=> size(k) > query.threshold
  BY <1>2
<1> HIDE DEF size, A
<1>12. d \in Nat /\ b \in Nat /\ b <= d /\ b <= query.top /\ b <= m
  BY <1>2, <1>4, <1>5
<1>13. A = 1 .. b
  <2>1. ASSUME NEW k \in A PROVE k \in 1 .. b
    <3>1. k \in 1 .. a /\ k \in 1 .. m /\ size(k) > query.threshold
      BY <1>8, <1>10
    <3>2. k \in 1 .. d /\ k <= query.top
      BY <1>7, <1>11, <3>1
    <3> QED
      BY <1>5, <1>12, <3>2
  <2>2. ASSUME NEW k \in 1 .. b PROVE k \in A
    <3>1. k \in 1 .. d /\ k \in 1 .. m /\ k <= query.top
      BY <1>4, <1>5, <1>12
    <3>2. size(k) > query.threshold /\ size(k) \in Nat
      BY <1>3, <1>11, <3>1
    <3>3. k \in 1 .. a
      BY <1>5, <1>7, <3>1, <3>2
    <3> QED
      BY <1>10, <3>2, <3>3
  <2> QED
    BY <2>1, <2>2
<1>14. listed = [k \in 1 .. b |-> coverage.gaps[k]]
  <2>1. CASE coverage.longest > query.threshold
    <3>1. listed = AtPlaces(coverage.gaps, A)
      BY <2>1 DEF Underserved, A
    <3> HIDE DEF b, listed
    <3> QED
      BY <1>12, <1>13, <3>1, AtFirstPlaces
  <2>2. CASE ~(coverage.longest > query.threshold)
    <3>1. listed = <<>>
      BY <2>2 DEF Underserved
    <3>2. 1 \in 1 .. m /\ 1 \notin 1 .. d
      BY <1>4, <1>6, <1>11, <2>2
    <3>3. b = 0
      BY <1>5, <1>12, <3>2
    <3> HIDE DEF b, listed
    <3>4. [k \in 1 .. b |-> coverage.gaps[k]] = <<>>
      BY <3>3
    <3> QED
      BY <3>1, <3>4
  <2> QED
    BY <2>1, <2>2
<1> HIDE DEF listed
<1>15. \A k \in 1 .. b : k \in 1 .. d /\ k \in 1 .. a
  <2>1. \A k \in 1 .. b : k \in A
    BY <1>13
  <2>2. \A k \in 1 .. b : k \in 1 .. a
    BY <1>10, <2>1
  <2> QED
    BY <1>12, <2>2
<1>16. DOMAIN listed = 1 .. b /\ Len(listed) = b
  <2> HIDE DEF b
  <2> QED
    BY <1>12, <1>14
<1>17. Len(listed) = Min({query.top, Cardinality(long)})
  BY <1>2, <1>5, <1>12, <1>16, MinOfTwo
<1>18. ASSUME NEW i \in DOMAIN listed
       PROVE  /\ <<listed[i].from, listed[i].to>> \in long
              /\ Cardinality({p \in long : p[2] - p[1] > GapLength(listed[i])}) < i
  <2>1. i \in 1 .. b
    BY <1>16
  <2>2. i \in 1 .. d /\ i \in 1 .. a
    BY <1>15, <2>1
  <2>3. listed[i] = ranked[i]
    <3> HIDE DEF b
    <3> QED
      BY <1>8, <1>14, <2>1, <2>2
  <2> QED
    BY <1>2, <2>2, <2>3 DEF size
<1> QED
  BY <1>9, <1>17, <1>18

\* An analysis that is done is that of its corridor.
CoverageInv ==
  /\ \E tasks \in Tasks : task \in tasks
  /\ Done("coverage") => result = Coverage(task.corridor, task.query)

LEMMA CoverageIsComputed == Spec => []CoverageInv
<1>1. Init => CoverageInv
  BY DEF Init, CoverageInv, Done
<1>2. ASSUME CoverageInv, [Next]_vars PROVE CoverageInv'
  <2>1. UNCHANGED task
    BY <1>2, StepsAnswer
  <2>2. CASE UNCHANGED result
    BY <1>2, <2>1, <2>2 DEF CoverageInv, Done
  <2>3. CASE AnalysesNext \/ task.kind \notin {"energy", "explain", "analyse", "coverage"}
    <3>1. task.kind # "coverage"
      BY <2>3 DEF AnalysesNext, MeasureEnergy, ExplainEnergy, AnalyseRoute, Asked
    <3> QED
      BY <1>2, <2>1, <3>1 DEF CoverageInv, Done
  <2>4. CASE AnalyseCoverage
    BY <1>2, <2>1, <2>4 DEF CoverageInv, AnalyseCoverage
  <2> QED
    BY <1>2, <2>2, <2>3, <2>4, StepsAnswer
<1> QED
  BY <1>1, <1>2, PTL DEF Spec

\* Of every corridor, however its line is cut into pieces and wherever the sites on it
\* stand, several at one place, at an end or on a cut: the gaps lay the route end to end
\* exactly once, none of them has a site inside, the longest is the longest stretch without
\* one, and what underserved lists is every such stretch above the threshold, longest
\* first, up to the cap.  (_COVERAGE_SQL, _check_gap_invariant, underserved.)
THEOREM CoverageAlwaysExact == Spec => []CoverageIsExact
<1>1. CoverageInv => CoverageIsExact
  <2> SUFFICES ASSUME CoverageInv, Done("coverage") PROVE CoverageIsExact
    BY DEF CoverageIsExact, GapsTileTheRoute, UnderservedIsExact
  <2> DEFINE corridor == task.corridor
             query == task.query
             n == Cardinality(Counts(corridor, query))
  <2>1. IsCorridor(corridor) /\ IsQuery(query) /\ result = Coverage(corridor, query)
    BY CoverageAssumption DEF CoverageInv, Done
  <2>2. LaidOut(corridor, query, CutsOf(corridor, query), n, Gaps(corridor, query),
                Ranked(Gaps(corridor, query)))
    BY <2>1, GapsAreLaidOut
  <2> HIDE DEF corridor, query
  <2>3. result.longest =
          Max({s[2] - s[1] : s \in {p \in (0 .. corridor.length) \X (0 .. corridor.length) :
                                      p[1] <= p[2] /\ Bare(corridor, query, p[1], p[2])}})
    BY <2>1, <2>2, CorridorIsTiled, FirstRankIsLongest
  <2>4. GapsTileTheRoute
    BY <2>1, <2>3, CorridorIsTiled DEF GapsTileTheRoute, corridor, query
  <2>5. UnderservedIsExact
    <3> DEFINE listed == Underserved(result, query)
               long == LongIn(corridor, query)
    <3>1. /\ result.gaps # <<>> /\ GapLength(result.gaps[1]) = result.longest
          /\ Len(listed) = Min({query.top, Cardinality(long)})
          /\ \A i \in DOMAIN listed :
               /\ <<listed[i].from, listed[i].to>> \in long
               /\ Cardinality({p \in long : p[2] - p[1] > GapLength(listed[i])}) < i
      BY <2>1, UnderservedAreLong
    <3> QED
      BY <3>1, Zenon DEF UnderservedIsExact, LongIn, corridor, query
  <2> QED
    BY <2>4, <2>5 DEF CoverageIsExact
<1> QED
  BY <1>1, CoverageIsComputed, PTL

LEMMA AnswersHaveTheTraffic ==
  ASSUME AnswersInv
  PROVE  TrafficIsComplete
<1> DEFINE request == task.request
           segments == Resolved(request)
           On(i) == {e \in request.events : Active(e) /\ ReachesSegment(request, segments[i], e)}
           First(e) == Min({i \in DOMAIN segments : e \in On(i)})
           Complete ==
             /\ \A i \in DOMAIN segments : /\ result.rows[i].events = Cardinality(On(i))
                                           /\ result.rows[i].severity = Worst(On(i))
             /\ ToSet(result.events) = UNION {On(i) : i \in DOMAIN segments}
             /\ \A j, k \in DOMAIN result.events :
                  j < k => result.events[j] # result.events[k]
                           /\ First(result.events[j]) <= First(result.events[k])
<1>1. SUFFICES ASSUME Done("analyse"), result # Refused, request.buffer <= BoxPadding
               PROVE  Complete
  BY DEF TrafficIsComplete
<1>2. request \in RouteRequests
  BY <1>1, RouteAnswered
<1>3. PICK lengths, energies :
        /\ RouteOf(segments, lengths) /\ Len(lengths) > 0
        /\ energies \in Seq(Nat) /\ Len(energies) = Len(lengths)
        /\ result = Respond(request, segments, ConditionsOf(request, segments), energies)
  BY <1>1, RouteAnswered
<1>4. Keyed(request.events)
  BY <1>1, AnalysesAssumption DEF AnswersInv, Done
<1>5. /\ \A i \in DOMAIN segments :
           /\ result.rows[i].events = Cardinality(EventsOn(request, segments, i))
           /\ result.rows[i].severity = ConditionsOf(request, segments)[i].severity
      /\ result.events = EventsInOrder(request, segments)
  BY <1>3 DEF Respond
<1>6. \A i \in DOMAIN segments :
        ConditionsOf(request, segments)[i].severity = Worst(EventsOn(request, segments, i))
  BY DEF ConditionsOf, SegmentCondition
<1>7. \A i \in DOMAIN segments : EventsOn(request, segments, i) = On(i)
  BY <1>1, <1>2, <1>3, EventsAreComplete
<1> DEFINE Found(i) == EventsOn(request, segments, i)
           Begins(e) == Min({i \in DOMAIN segments : e \in Found(i)})
<1>8. /\ ToSet(result.events) = UNION {Found(i) : i \in DOMAIN segments}
      /\ \A j, k \in DOMAIN result.events :
           j < k => result.events[j] # result.events[k]
                    /\ Begins(result.events[j]) <= Begins(result.events[k])
  BY <1>2, <1>3, <1>4, <1>5, EventsAreListed
<1> HIDE DEF segments, On, Found
<1>9. \A i \in DOMAIN segments : Found(i) = On(i)
  BY <1>7 DEF Found
<1>10. \A e : Begins(e) = First(e)
  <2> TAKE e
  <2>1. {i \in DOMAIN segments : e \in Found(i)} = {i \in DOMAIN segments : e \in On(i)}
    BY <1>9
  <2> QED
    BY <2>1
<1>11. UNION {Found(i) : i \in DOMAIN segments} = UNION {On(i) : i \in DOMAIN segments}
  BY <1>9
<1>12. \A i \in DOMAIN segments : /\ result.rows[i].events = Cardinality(On(i))
                                  /\ result.rows[i].severity = Worst(On(i))
  BY <1>5, <1>6, <1>9 DEF Found
<1> HIDE DEF Begins, First
<1> QED
  BY <1>8, <1>10, <1>11, <1>12

LEMMA AnswersHaveTheWeather ==
  ASSUME AnswersInv
  PROVE  WeatherIsUsable
<1> DEFINE request == task.request
           segments == Resolved(request)
           usable == UsableOn(request, segments)
           known == KnownOn(request, segments)
           Usably ==
             /\ result.points \subseteq usable
             /\ \A i \in DOMAIN result.rows :
                  \/ result.rows[i].temp = Reference
                  \/ known # {} /\ result.rows[i].temp \in Min(known) .. Max(known)
             /\ \A r \in result.points :
                  /\ r.mode = "fixture" => result.modes.weather = "fixture"
                  /\ result.modes.weather # "live"
<1>1. SUFFICES ASSUME Done("analyse"), result # Refused
               PROVE  Usably
  BY DEF WeatherIsUsable, UsableOn, KnownOn
<1>2. request \in RouteRequests
  BY <1>1, RouteAnswered
<1>3. PICK lengths, energies :
        /\ RouteOf(segments, lengths) /\ Len(lengths) > 0
        /\ energies \in Seq(Nat) /\ Len(energies) = Len(lengths)
        /\ result = Respond(request, segments, ConditionsOf(request, segments), energies)
  BY <1>1, RouteAnswered
<1> DEFINE recent == Recent(segments, request.readings)
           adopted == UNION {Adopted(segments[i], recent) : i \in DOMAIN segments}
<1>4. /\ DOMAIN result.rows = DOMAIN segments
      /\ \A i \in DOMAIN segments : result.rows[i].temp = ConditionsOf(request, segments)[i].temp
      /\ result.points = UNION {WeatherOf(request, segments, i) : i \in DOMAIN segments}
      /\ result.modes.weather = WeakestMode({StoredMode(r.mode) : r \in adopted})
  BY <1>3 DEF Respond
<1>5. \A i \in DOMAIN segments :
        ConditionsOf(request, segments)[i].temp = SegmentCondition(request, segments, i).temp
  BY DEF ConditionsOf
<1>6. \A i \in DOMAIN segments : WeatherOf(request, segments, i) \subseteq Adopted(segments[i], recent)
  BY DEF WeatherOf
<1>7. \A i \in DOMAIN segments : WeatherOf(request, segments, i) \subseteq usable
  BY WeatherIsNear
<1>8. \A i \in DOMAIN segments :
        LET temp == SegmentCondition(request, segments, i).temp
        IN  temp = Reference \/ (known # {} /\ temp \in Min(known) .. Max(known))
  BY <1>2, <1>3, TemperatureIsUsable
<1> HIDE DEF usable, known, segments, recent
<1>9. result.points \subseteq adopted /\ result.points \subseteq usable
  BY <1>4, <1>6, <1>7
<1> HIDE DEF adopted
<1>10. \A r \in adopted : LET mode == WeakestMode({StoredMode(o.mode) : o \in adopted})
                          IN  mode # "live" /\ (r.mode = "fixture" => mode = "fixture")
  BY ModesAreWeakest
<1> QED
  BY <1>4, <1>5, <1>8, <1>9, <1>10

\* Of every route: no event on the corridor is missed or listed twice, whatever reports the
\* database holds, and the list follows the road; no reading too far away or too old decides
\* a temperature, and the response claims no fresher data than it used.
\* (_TRAFFIC_SQL, _fetch_weather, _stored_mode, _weakest_mode.)
THEOREM RouteDataAlwaysHolds == Spec => []RouteDataHolds
<1>1. AnswersInv => RouteDataHolds
  BY AnswersHaveTheTraffic, AnswersHaveTheWeather DEF RouteDataHolds
<1> QED
  BY <1>1, AnswersAreComputed, PTL
=============================================================================
