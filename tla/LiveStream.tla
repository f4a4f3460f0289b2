------------------------------- MODULE LiveStream -------------------------------
(***************************************************************************)
(* GET /stream/telemetry and the map that follows it.  The stream polls    *)
(* the telemetry table for each vehicle's newest sample after a cursor,    *)
(* and the cursor moves to the newest sample of the frame; the client      *)
(* merges frames by vehicle and reconnects when the connection is lost.    *)
(* Samples are committed by several writers, each vehicle's in order.      *)
(* The fleet (500 at most) is below the row cap of 1000.                   *)
(***************************************************************************)
EXTENDS Integers, Sequences, FiniteSets, FiniteSetsExt

CONSTANTS
  Car,         \* vehicles
  Boxes,       \* whether a client filters by bounding box: a subset of BOOLEAN
  MaxTime,     \* bound: ticks of the fleet
  MaxLosses,   \* bound: lost connections
  Nowhere      \* no cursor, or a vehicle not yet on the map

ASSUME StreamAssumption ==
  /\ Boxes \subseteq BOOLEAN
  /\ MaxTime \in Nat /\ MaxLosses \in Nat
  /\ Nowhere \notin Nat /\ Nowhere \notin [at : Nat, inside : BOOLEAN]

VARIABLES
  clock,      \* ticks so far: the recorded_at of the newest samples
  unwritten,  \* [Car -> sequence of samples]: not yet in the table
  stored,     \* [Car -> set of samples]: the telemetry table
  boxed,      \* this client asks for a bounding box
  cursor,     \* of the connection's generator
  screen,     \* [Car -> sample or Nowhere]: the client's map
  connected,
  \* History and bounds
  late,       \* [Car -> set of samples]: written after a newer one that the client follows
  losses

streamVars == <<clock, unwritten, stored, boxed, cursor, screen, connected, late, losses>>

StreamInit ==
  /\ clock = 0
  /\ unwritten = [c \in Car |-> <<>>]
  /\ stored = [c \in Car |-> {}]
  /\ boxed \in Boxes
  /\ cursor = Nowhere
  /\ screen = [c \in Car |-> Nowhere]
  /\ connected = TRUE
  /\ late = [c \in Car |-> {}]
  /\ losses = 0

\* The rows of a car that pass the client's filter.
Followed(c) == {s \in stored[c] : boxed => s.inside}

Newest(samples) == {s \in samples : \A o \in samples : o.at <= s.at}

After(samples) == {s \in samples : cursor # Nowhere => s.at > cursor}

\* fetch_live_vehicles: DISTINCT ON (vehicle_id) by recorded_at, newest first.
Rows(c) == Newest(After(Followed(c)))

Frame == [c \in {d \in Car : Rows(d) # {}} |-> CHOOSE s \in Rows(c) : TRUE]

AdvancedToTable(frame) ==   \* mutant: past the rows that the filter kept out
  Max({s.at : s \in UNION {stored[c] : c \in Car}})

Advanced(frame) == Max({frame[c].at : c \in DOMAIN frame})

-----------------------------------------------------------------------------
\* Every vehicle takes its sample of the tick.
TickFleet ==
  /\ clock < MaxTime
  /\ clock' = clock + 1
  /\ \E inside \in [Car -> BOOLEAN] :
       unwritten' = [c \in Car |-> Append(unwritten[c], [at |-> clock', inside |-> inside[c]])]
  /\ UNCHANGED <<stored, boxed, cursor, screen, connected, late, losses>>

\* A writer commits the next n samples of a vehicle.
Write(c, n) ==
  LET batch == {unwritten[c][i] : i \in 1 .. n}
      followed == UNION {Followed(d) : d \in Car}
  IN  /\ unwritten' = [unwritten EXCEPT ![c] = SubSeq(@, n + 1, Len(@))]
      /\ stored' = [stored EXCEPT ![c] = @ \cup batch]
      /\ late' = [late EXCEPT ![c] = @ \cup {s \in batch : \E o \in followed : s.at <= o.at}]
      /\ UNCHANGED <<clock, boxed, cursor, screen, connected, losses>>

\* One poll: nothing is sent when nothing is newer.
Poll ==
  /\ connected
  /\ DOMAIN Frame # {}
  /\ cursor' = Advanced(Frame)
  /\ screen' = [c \in Car |-> IF c \in DOMAIN Frame THEN Frame[c] ELSE screen[c]]
  /\ UNCHANGED <<clock, unwritten, stored, boxed, connected, late, losses>>

\* The connection is lost, with the frame under way if there is one; its generator and
\* cursor end with it.
LoseConnection ==
  /\ connected
  /\ losses < MaxLosses
  /\ losses' = losses + 1
  /\ connected' = FALSE
  /\ UNCHANGED <<clock, unwritten, stored, boxed, cursor, screen, late>>

Seen == {screen[c].at : c \in {d \in Car : screen[d] # Nowhere}}

\* The browser asks for a full snapshot, another client resumes from what it has seen.
Reconnect ==
  /\ ~connected
  /\ connected' = TRUE
  /\ cursor' \in {Nowhere} \cup (IF Seen = {} THEN {} ELSE {Max(Seen)})
  /\ UNCHANGED <<clock, unwritten, stored, boxed, screen, late, losses>>

StreamNext ==
  \/ TickFleet
  \/ \E c \in Car : \E n \in 1 .. Len(unwritten[c]) : Write(c, n)
  \/ Poll
  \/ LoseConnection
  \/ Reconnect

StreamSpec == StreamInit /\ [][StreamNext]_streamVars

-----------------------------------------------------------------------------
\* Between two polls of an open connection the map shows every vehicle's newest row,
\* or the next poll brings it; a row can be missed only if it was written after a
\* newer row of another vehicle.  (stream.py: the cursor moves to the newest
\* recorded_at of the frame, and the query takes only rows newer than the cursor.)
ScreenIsCurrent ==
  \A c \in Car : \A s \in Newest(Followed(c)) :
    \/ screen[c] = s
    \/ ~connected \/ cursor = Nowhere
    \/ s.at > cursor
    \/ s \in late[c]

=============================================================================
