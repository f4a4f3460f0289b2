---------------------------------- MODULE Fleet ----------------------------------
(***************************************************************************)
(* The fleet of simulated vehicles: how many of each profile a mix makes,  *)
(* and the rows of vehicles as the demo seed, the runs and the reset leave *)
(* them.  The seed's ingestions are left out: none touches these tables.   *)
(***************************************************************************)
EXTENDS Sums, FiniteSets, FiniteSetsExt

CONSTANTS
  Mixes,       \* mixes a run may ask for: profile -> weight
  FleetSizes,      \* fleet sizes asked for
  Removable,   \* profiles that may be removed, as an experiment
  MaxRuns,     \* runs that start between two resets
  MaxSeeds     \* seeds between two resets

\* The generic profiles in the order of their codes.
Codes == <<"compact_ev", "performance_ev", "sedan_ev", "suv_ev", "van_ev">>

\* Tenths of a percent; percent of a run whose request names no mix.
DemoMix == <<<<"compact_ev", 300>>, <<"sedan_ev", 250>>, <<"suv_ev", 200>>,
             <<"performance_ev", 125>>, <<"van_ev", 125>>>>
DefaultMix == [compact_ev |-> 35, sedan_ev |-> 25, suv_ev |-> 20, van_ev |-> 10, performance_ev |-> 10]

VARIABLES
  profiles,    \* vehicle_models: the codes that have a row
  vehicles,    \* vehicles: profile, run and state by the number of the vehicle's id
  runs,        \* simulation_runs since the last reset: mix, size, whether its fleet is registered
  seeding,     \* the demo seed under way: where it is and the size asked for
  seeds        \* the sizes of the seeds that wrote vehicles since the last reset (history)

fleetVars == <<profiles, vehicles, runs, seeding, seeds>>

-----------------------------------------------------------------------------
(* Apportionment *)

TotalWeight(shares) == Added([i \in DOMAIN shares |-> shares[i][2]])

\* A bug Apportion guards against: each share is rounded by itself.
ApportionRounding(shares, count) ==
  [i \in DOMAIN shares |-> (2 * shares[i][2] * count + TotalWeight(shares)) \div (2 * TotalWeight(shares))]

\* Largest remainder; of equal remainders the earlier share's goes first.
Apportion(shares, count) ==
  LET total == TotalWeight(shares)
      exact == [i \in DOMAIN shares |-> shares[i][2] * count]
      left == count - Added([i \in DOMAIN shares |-> exact[i] \div total])
      before(i, j) == (exact[i] % total) > (exact[j] % total)
                        \/ ((exact[i] % total) = (exact[j] % total) /\ i < j)
      rank(i) == Cardinality({j \in DOMAIN shares : before(j, i)})
  IN  [i \in DOMAIN shares |-> (exact[i] \div total) + (IF rank(i) < left THEN 1 ELSE 0)]

\* The profile of each vehicle, from the first on.
Expand(shares, allocation) ==
  FlattenSeq([i \in DOMAIN shares |-> [k \in 1 .. allocation[i] |-> shares[i][1]]])

\* The demo allocates in the order of its mix ...
DemoFleet(count) == Expand(DemoMix, Apportion(DemoMix, count))

\* ... a run in the order of the codes, without the weights of zero; no weight at all is
\* the default mix.
Weighted(mix) == SelectSeq([i \in DOMAIN Codes |-> <<Codes[i], mix[Codes[i]]>>], LAMBDA s : s[2] > 0)
ResolvedMix(mix) == IF Weighted(mix) = <<>> THEN DefaultMix ELSE mix
RunFleet(mix, count) == Expand(Weighted(mix), Apportion(Weighted(mix), count))

-----------------------------------------------------------------------------
(* The rows *)

NotSeeding == [pc |-> "none", count |-> 0]

FleetInit ==
  /\ profiles = ToSet(Codes)
  /\ vehicles = <<>>
  /\ runs = <<>>
  /\ seeding = NotSeeding
  /\ seeds = <<>>

\* Whoever may remove a profile: its vehicles restrict it.
RemoveProfile(c) ==
  /\ c \in Removable \cap profiles
  /\ \A v \in DOMAIN vehicles : vehicles[v].profile # c
  /\ profiles' = profiles \ {c}
  /\ UNCHANGED <<vehicles, runs, seeding, seeds>>

\* seed_demo, with --reset or without.
StartSeed(count, reset) ==
  /\ seeding.pc = "none" /\ Len(seeds) < MaxSeeds
  /\ seeding' = [pc |-> IF reset THEN "reset" ELSE "models", count |-> count]
  /\ UNCHANGED <<profiles, vehicles, runs, seeds>>

\* One transaction over all tables but the profiles'.
ResetDemo ==
  /\ seeding.pc = "reset"
  /\ vehicles' = <<>> /\ runs' = <<>> /\ seeds' = <<>>
  /\ seeding' = [seeding EXCEPT !.pc = "models"]
  /\ UNCHANGED profiles

EnsureModels ==
  /\ seeding.pc = "models"
  /\ profiles' = profiles \cup ToSet(Codes)
  /\ seeding' = [seeding EXCEPT !.pc = "vehicles"]
  /\ UNCHANGED <<vehicles, runs, seeds>>

\* Ids that exist are left as they are, the ones beyond the count too; every profile must
\* have a row, even one that gets no vehicle.
SeedVehicles ==
  /\ seeding.pc = "vehicles"
  /\ seeding' = NotSeeding
  /\ LET fleet == DemoFleet(seeding.count) IN
     IF ToSet(Codes) \subseteq profiles
     THEN /\ vehicles' = [v \in DOMAIN vehicles \cup DOMAIN fleet |->
                            IF v \in DOMAIN vehicles THEN vehicles[v]
                            ELSE [profile |-> fleet[v], run |-> 0, state |-> "idle"]]
          /\ seeds' = Append(seeds, seeding.count)
     ELSE UNCHANGED <<vehicles, seeds>>
  /\ UNCHANGED <<profiles, runs>>

\* SimulationEngine.start: the run's row is committed before its vehicles'.
CreateRun(mix, count) ==
  /\ Len(runs) < MaxRuns
  /\ \A r \in DOMAIN runs : runs[r].fleet # "pending"
  /\ runs' = Append(runs, [mix |-> ResolvedMix(mix), count |-> count, fleet |-> "pending"])
  /\ UNCHANGED <<profiles, vehicles, seeding, seeds>>

\* A bug RegisterVehicles guards against: a vehicle that exists stays with its run.
RegisterVehiclesOnce ==
  /\ runs # <<>> /\ Last(runs).fleet = "pending"
  /\ LET r == Len(runs)
         fleet == RunFleet(runs[r].mix, runs[r].count)
     IN  /\ runs' = [runs EXCEPT ![r].fleet = "registered"]
         /\ vehicles' = [v \in DOMAIN vehicles \cup DOMAIN fleet |->
                           IF v \in DOMAIN vehicles THEN vehicles[v]
                           ELSE [profile |-> fleet[v], run |-> r, state |-> "idle"]]
  /\ UNCHANGED <<profiles, seeding, seeds>>

\* A new run takes the vehicles it names over, with their profile and state; a profile
\* without a row fails the start and the run's row stays.
RegisterVehicles ==
  /\ runs # <<>> /\ Last(runs).fleet = "pending"
  /\ LET r == Len(runs)
         fleet == RunFleet(runs[r].mix, runs[r].count)
     IN  IF ToSet(fleet) \subseteq profiles
         THEN /\ runs' = [runs EXCEPT ![r].fleet = "registered"]
              /\ vehicles' = [v \in DOMAIN vehicles \cup DOMAIN fleet |->
                                IF v \in DOMAIN fleet
                                THEN [profile |-> fleet[v], run |-> r, state |-> "idle"]
                                ELSE vehicles[v]]
         ELSE /\ runs' = [runs EXCEPT ![r].fleet = "failed"]
              /\ UNCHANGED vehicles
  /\ UNCHANGED <<profiles, seeding, seeds>>

\* The engine of a run drives; the first vehicle stands for the others.
Drive ==
  /\ vehicles # <<>> /\ vehicles[1].run # 0 /\ vehicles[1].state = "idle"
  /\ vehicles' = [vehicles EXCEPT ![1].state = "driving"]
  /\ UNCHANGED <<profiles, runs, seeding, seeds>>

\* A seed that is killed between two of its transactions.
KillSeed ==
  /\ seeding.pc # "none"
  /\ seeding' = NotSeeding
  /\ UNCHANGED <<profiles, vehicles, runs, seeds>>

FleetNext ==
  \/ \E c \in ToSet(Codes) : RemoveProfile(c)
  \/ \E count \in FleetSizes, reset \in BOOLEAN : StartSeed(count, reset)
  \/ ResetDemo
  \/ EnsureModels
  \/ SeedVehicles
  \/ \E mix \in Mixes, count \in FleetSizes : CreateRun(mix, count)
  \/ RegisterVehicles
  \/ Drive
  \/ KillSeed

-----------------------------------------------------------------------------

\* An apportionment gives away exactly the count, each share its quota rounded down or
\* up, and never fewer vehicles to the larger of two shares.
\* (_allocate_mix: "rounding loses or invents vehicles"; resolve_vehicle_mix: "never 39
\* or 41".)
Apportioned(shares, count) ==
  LET allocation == Apportion(shares, count)
      total == TotalWeight(shares)
  IN  /\ Added(allocation) = count
      /\ \A i \in DOMAIN shares :
           /\ allocation[i] * total > shares[i][2] * count - total
           /\ allocation[i] * total < shares[i][2] * count + total
           /\ \A j \in DOMAIN shares : shares[i][2] > shares[j][2] => allocation[i] >= allocation[j]

\* However seeds, starts, failures and resets follow each other, a vehicle is of the last
\* run since the reset that registered it, with the profile it has in that run; one that
\* no run has registered is idle and has the profile of the first seed that made it; and
\* there are no other vehicles.  None is of a profile without a row.
\* (seed_demo_vehicles: vehicles that exist "may belong to a simulation run that is still
\* going"; register_vehicles: "a new run re-points it at itself".)
FleetIsKept ==
  /\ \A v \in DOMAIN vehicles : vehicles[v].profile \in profiles
  /\ \A r \in DOMAIN runs : Apportioned(Weighted(runs[r].mix), runs[r].count)
  /\ \A s \in DOMAIN seeds : Apportioned(DemoMix, seeds[s])
  /\ \E takers \in {[v \in 1 .. Max(FleetSizes) |->
                       {r \in DOMAIN runs : runs[r].fleet = "registered" /\ runs[r].count >= v}]} :
     \E makers \in {[v \in 1 .. Max(FleetSizes) |-> {s \in DOMAIN seeds : seeds[s] >= v}]} :
       /\ DOMAIN vehicles = {v \in 1 .. Max(FleetSizes) : takers[v] # {} \/ makers[v] # {}}
       /\ \A v \in DOMAIN vehicles :
            IF takers[v] = {}
            THEN vehicles[v] = [profile |-> DemoFleet(seeds[Min(makers[v])])[v],
                                run |-> 0, state |-> "idle"]
            ELSE LET r == Max(takers[v])
                 IN  /\ vehicles[v].run = r
                     /\ vehicles[v].profile = RunFleet(runs[r].mix, runs[r].count)[v]
==================================================================================
