----------------------------- MODULE MCIngestion -----------------------------
(***************************************************************************)
(* A road polled through two services, with one event on each; the bundled *)
(* sample describes another road.                                          *)
(***************************************************************************)
EXTENDS Ingestion

CONSTANTS zone, block, sample

MCEvent == {zone, block, sample}
MCHome == [x \in MCEvent |-> CASE x = zone -> 1 [] x = block -> 2 [] OTHER -> None]
MCRoad == [x \in MCEvent |-> IF x = sample THEN "A5" ELSE "A1"]
MCMaxRuns == [p \in Pipeline |-> IF p = "weather" THEN 2 ELSE 3]
==============================================================================
