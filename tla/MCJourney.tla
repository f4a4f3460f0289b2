-------------------------------- MODULE MCJourney --------------------------------
EXTENDS SimulatedVehicle, TLC

Seg(n, from, cells, class, limit) ==
  [ordinal |-> n, from |-> from, cells |-> cells, class |-> class, limit |-> limit]

Row(length, segments, hills, propensity, stored) ==
  [length |-> length, distance |-> length, duration |-> length, segments |-> segments,
   hills |-> hills, propensity |-> propensity, reverse |-> FALSE, stored |-> stored]

Flat == <<0>>

Hilly == <<-1, 0, 1>>

Calm == <<20>>

Busy == <<60, 70, 80>>

Config(traffic, weather, both) ==
  [traffic |-> traffic, weather |-> weather, both |-> both, age |-> 6, radius |-> 240, buffer |-> 12, reach |-> 3]

Database(events, readings, sites) ==
  [events |-> events, readings |-> readings, sites |-> sites, climate |-> [temp |-> 9, rain |-> 0]]

World(row, config, database, reserve, soc, when, trips) ==
  [routes |-> <<RouteFromRow(row)>>, config |-> config, database |-> database,
   driver |-> [reserve |-> reserve, departure |-> 150], soc |-> soc, when |-> when, trips |-> trips]

Site(id, at, off, kw) == [id |-> id, at |-> at, off |-> off, kw |-> kw]

Ev(at, off, severity, blocked, active) ==
  [at |-> at, off |-> off, severity |-> severity, blocked |-> blocked, active |-> active]

Reading(age, temp, rain, off) == [age |-> age, temp |-> temp, rain |-> rain, off |-> off]

Noon == [minute |-> 735, weekend |-> FALSE]

Morning == [minute |-> 465, weekend |-> FALSE]

Sunday == [minute |-> 465, weekend |-> TRUE]

\* Short corridors of odd and even length, over hills, in all scenarios.
Short ==
  <<Row(9, {Seg(2, 3, 4, "secondary", 80), Seg(1, 0, 3, "motorway", Unknown), Seg(3, 7, 2, "primary", 100)},
        Hilly, Busy, TRUE),
    Row(6, {Seg(1, 0, 4, "motorway", 120), Seg(2, 4, 2, "trunk", 100)}, Hilly, Calm, TRUE),
    Row(5, {}, Flat, Busy, FALSE)>>

Scenarios ==
  <<Config("observed", "observed", TRUE), Config("heavy", "cold", TRUE), Config("none", "hot", FALSE)>>

Snapshots ==
  <<Database({}, {}, {Site(1, 4, 2, 150)}),
    Database({Ev(0, 1, 3, FALSE, TRUE), Ev(7, 0, 1, TRUE, TRUE), Ev(4, 2, 1, FALSE, TRUE), Ev(3, 0, 3, FALSE, FALSE)},
             {Reading(2, -4, 1, 10), Reading(1, 6, Unknown, 30), Reading(9, 30, 0, 0), Reading(1, Unknown, 3, 0)},
             {Site(1, 4, 2, 50), Site(2, 7, 3, 300), Site(3, 6, 0, 22), Site(4, 5, 40, 150)})>>

ShortCharges == <<10, 45>>

\* The n-th choice of one member of a sequence each.
Choice(seq, n) == seq[(n % Len(seq)) + 1]

ShortTrip(n) ==
  World(Choice(Short, n), Choice(Scenarios, n \div 3), Choice(Snapshots, n \div 9), 40,
        Choice(ShortCharges, n \div 18), Choice(<<Morning, Noon, Sunday>>, n \div 2), 2)

\* A long flat corridor whose sites are more than a search apart.
Long(length) == Row(length, {Seg(1, 0, length, "trunk", 70)}, Flat, Calm, TRUE)

LongSites == <<Site(1, 30, 1, 50), Site(2, 60, 1, 300), Site(3, 95, 1, 150), Site(4, 150, 2, 150)>>

LongCharges == <<70, 97>>

\* Any of the sites: those at the places of the ones in n's binary form.
LongTrip(n) ==
  World(Long(190), Config("none", "mild", FALSE),
        Database({}, {}, {LongSites[i] : i \in {j \in 1 .. 4 : (n \div 2 ^ (j - 1)) % 2 = 1}}), 64,
        Choice(LongCharges, n \div 16), Noon, 1)

MCWorlds == {ShortTrip(n) : n \in 0 .. 29} \cup {LongTrip(n) : n \in 0 .. 31}
=============================================================================
