-------------------------------- MODULE DataLake --------------------------------
(***************************************************************************)
(* The files of the data lake that the ingestion runs of one day write:    *)
(* the source document with its sidecar, and the bronze and silver parts   *)
(* of one partition (DataLake, ParquetPartWriter), beside the rows the run *)
(* commits.  The register's run streams its document through both zones    *)
(* inside its transaction; a run of traffic or weather writes the lake     *)
(* first.  A run fails or is killed between any two steps.                 *)
(***************************************************************************)
EXTENDS Naturals, Sequences

CONSTANTS
  LakeRun,     \* the runs of the day, started in their order
  PartRows,    \* rows of a Parquet part
  LakeDocs,    \* documents: for each of their rows, whether it is accepted
  Overlap      \* whether two runs may be under way at once

ASSUME LakeAssumption ==
  /\ LakeRun \subseteq Nat \ {0}
  /\ PartRows \in Nat \ {0}
  /\ LakeDocs \subseteq Seq(BOOLEAN)
  /\ Overlap \in BOOLEAN

Zone == {"bronze", "silver"}

VARIABLES
  lakeRun,     \* the runs: kind, document, next row, buffers, parts written, and where it is
  part,        \* the parts of each zone's partition, by number
  raw,         \* the source document's file: what it holds and what its sidecar says
  committed    \* the run whose rows the table has

lakeVars == <<lakeRun, part, raw, committed>>

NoFile == [content |-> 0, claim |-> 0]
Half == 0 - 1     \* the content of a file that is being copied

Unstarted == [pc |-> "idle", kind |-> "register", doc |-> <<>>, next |-> 1, buffer |-> [z \in Zone |-> <<>>],
         cleared |-> {}, written |-> [z \in Zone |-> 0]]

LakeInit ==
  /\ lakeRun = [r \in LakeRun |-> Unstarted]
  /\ part = [z \in Zone |-> <<>>]
  /\ raw = NoFile
  /\ committed = 0

Ongoing == {r \in LakeRun : lakeRun[r].pc \notin {"idle", "done", "failed"}}
Started == {r \in LakeRun : lakeRun[r].pc # "idle"}

Go(r, pc) == lakeRun' = [lakeRun EXCEPT ![r].pc = pc]

\* A register's document is described before it is read; the others are snapshots of their own.
BeginRun(r, kind, doc) ==
  /\ Started = {q \in LakeRun : q < r}
  /\ Overlap \/ Ongoing = {}
  /\ lakeRun' = [lakeRun EXCEPT ![r] = [Unstarted EXCEPT !.kind = kind, !.doc = doc,
                                          !.pc = IF kind = "register" THEN "adopting" ELSE "bronze"]]
  /\ UNCHANGED <<part, raw, committed>>

\* adopt_raw: a file from elsewhere is copied over the one of its name, not replaced by it.
StartCopy(r) ==
  /\ lakeRun[r].pc = "adopting"
  /\ raw' = [raw EXCEPT !.content = Half]
  /\ Go(r, "copying")
  /\ UNCHANGED <<part, committed>>

EndCopy(r) ==
  /\ lakeRun[r].pc = "copying"
  /\ raw' = [raw EXCEPT !.content = r]
  /\ Go(r, "hashing")
  /\ UNCHANGED <<part, committed>>

\* The sidecar says what the file held when it was read for it.
Describe(r) ==
  /\ lakeRun[r].pc = "hashing"
  /\ raw' = [raw EXCEPT !.claim = raw.content]
  /\ Go(r, "streaming")
  /\ UNCHANGED <<part, committed>>

-----------------------------------------------------------------------------
(* Parts *)

\* The zones a run's next rows go to: both at once, or one after the other.
Open(r) ==
  CASE lakeRun[r].pc \in {"streaming", "closing"} -> Zone
    [] lakeRun[r].pc \in Zone                     -> {lakeRun[r].pc}
    [] OTHER                                      -> {}

Belongs(z, accepted) == z = "bronze" \/ accepted

BufferFull(r, z) == Len(lakeRun[r].buffer[z]) >= PartRows
Read(r) == lakeRun[r].next > Len(lakeRun[r].doc)

\* Whether a zone's buffer is to be written now: it is full, or the writer closes.
PartDue(r, z) ==
  /\ z \in Open(r) /\ lakeRun[r].buffer[z] # <<>>
  /\ BufferFull(r, z) \/ (lakeRun[r].pc # "streaming" /\ Read(r))

\* A rejected row goes into bronze only; a row is named by its run and its place.
AddRow(r) ==
  /\ lakeRun[r].pc \in Zone \cup {"streaming"} /\ ~Read(r)
  /\ \A z \in Zone : ~BufferFull(r, z)
  /\ LET i == lakeRun[r].next
         takes(z) == z \in Open(r) /\ Belongs(z, lakeRun[r].doc[i])
     IN  lakeRun' = [lakeRun EXCEPT ![r].next = i + 1,
                                    ![r].buffer = [z \in Zone |-> IF takes(z) THEN Append(@[z], <<r, i>>) ELSE @[z]]]
  /\ UNCHANGED <<part, raw, committed>>

\* Once per writer, before its first part, whatever parts there are go.
ClearPartition(r, z) ==
  /\ PartDue(r, z) /\ z \notin lakeRun[r].cleared
  /\ part' = [part EXCEPT ![z] = <<>>]
  /\ lakeRun' = [lakeRun EXCEPT ![r].cleared = @ \cup {z}]
  /\ UNCHANGED <<raw, committed>>

\* A partition with a part under a number, whatever was there.
WithPart(parts, n, rows) ==
  [i \in DOMAIN parts \cup {n} |-> IF i = n THEN rows ELSE parts[i]]

\* A bug PlacePart guards against: the writer forgets that it has cleared the partition.
PlacePartForgetting(r, z) ==
  /\ PartDue(r, z) /\ z \in lakeRun[r].cleared
  /\ part' = [part EXCEPT ![z] = WithPart(@, lakeRun[r].written[z], lakeRun[r].buffer[z])]
  /\ lakeRun' = [lakeRun EXCEPT ![r].buffer[z] = <<>>, ![r].written[z] = @ + 1, ![r].cleared = {}]
  /\ UNCHANGED <<raw, committed>>

\* A part appears whole, under its number, in place of one that has it.
PlacePart(r, z) ==
  /\ PartDue(r, z) /\ z \in lakeRun[r].cleared
  /\ part' = [part EXCEPT ![z] = WithPart(@, lakeRun[r].written[z], lakeRun[r].buffer[z])]
  /\ lakeRun' = [lakeRun EXCEPT ![r].buffer[z] = <<>>, ![r].written[z] = @ + 1]
  /\ UNCHANGED <<raw, committed>>

\* The document is read to its end: the writers close, in the register's case in the
\* transaction; an events run starts over with its accepted rows.
CloseWriter(r) ==
  /\ lakeRun[r].pc \in Zone \cup {"streaming"} /\ Read(r)
  /\ \A z \in Zone : ~PartDue(r, z)
  /\ lakeRun' = [lakeRun EXCEPT
       ![r].pc = CASE @ = "streaming" -> "closing" [] @ = "bronze" -> "silver" [] OTHER -> "writing",
       ![r].next = IF lakeRun[r].pc = "bronze" THEN 1 ELSE @]
  /\ UNCHANGED <<part, raw, committed>>

CommitRows(r) ==
  /\ lakeRun[r].pc \in {"closing", "writing"}
  /\ \A z \in Zone : ~PartDue(r, z)
  /\ committed' = r
  /\ Go(r, "done")
  /\ UNCHANGED <<part, raw>>

\* What a run has buffered and what it has not committed is lost with it.
RunFails(r) ==
  /\ r \in Ongoing
  /\ Go(r, "failed")
  /\ UNCHANGED <<part, raw, committed>>

LakeNext ==
  \E r \in LakeRun :
    \/ \E kind \in {"register", "events"}, doc \in LakeDocs : BeginRun(r, kind, doc)
    \/ StartCopy(r)
    \/ EndCopy(r)
    \/ Describe(r)
    \/ AddRow(r)
    \/ \E z \in Zone : ClearPartition(r, z)
    \/ \E z \in Zone : PlacePart(r, z)
    \/ CloseWriter(r)
    \/ CommitRows(r)
    \/ RunFails(r)

-----------------------------------------------------------------------------

\* The rows of a run that belong into a zone, and those its partition holds.
RowsOf(r, z) == {<<r, i>> : i \in {j \in DOMAIN lakeRun[r].doc : Belongs(z, lakeRun[r].doc[j])}}

Held(z) == UNION {{part[z][i][k] : k \in DOMAIN part[z][i]} : i \in DOMAIN part[z]}

\* The run that has started last.
Latest == CHOOSE r \in Started : \A q \in Started : q <= r

\* The parts are numbered without a hole, and full but for the last.
PartsAreWhole(z) ==
  \A i \in DOMAIN part[z] :
    /\ 0 .. i \subseteq DOMAIN part[z]
    /\ i + 1 \in DOMAIN part[z] => Len(part[z][i]) = PartRows

\* Read from the first part on, a partition's rows are of one run and in its order.
RowsAreInOrder(z) ==
  \A i, j \in DOMAIN part[z] : \A k \in DOMAIN part[z][i], l \in DOMAIN part[z][j] :
    /\ part[z][i][k][1] = part[z][j][l][1]
    /\ i < j \/ (i = j /\ k < l) => part[z][i][k][2] < part[z][j][l][2]

\* They belong there, and none that should be before one of them is missing.
NoRowIsSkipped(z) ==
  \A row \in Held(z) :
    /\ row \in RowsOf(row[1], z)
    /\ \A q \in RowsOf(row[1], z) : q[2] < row[2] => q \in Held(z)

\* Runs of one day that do not overlap replace each other's parts: a zone never mixes two
\* runs, has its parts numbered without a hole and shows a beginning of the run's rows, in
\* their order and in full parts but for the last, also after runs that died between two
\* parts; when the latest run commits, its rows that belong there are all in each zone, and
\* what was rejected is in bronze alone.  A zone the run has no row for stays as it was.
\* (ParquetPartWriter, DataLake: "re-running a pipeline on the same day is idempotent";
\* "without its bronze evidence the run is not reproducible".)
LakeHoldsTheRun ==
  ~Overlap =>
    /\ \A z \in Zone : PartsAreWhole(z) /\ RowsAreInOrder(z) /\ NoRowIsSkipped(z)
    /\ committed # 0 /\ committed = Latest =>
         \A z \in Zone : RowsOf(committed, z) # {} => Held(z) = RowsOf(committed, z)

\* A sidecar that says of the file what it does not hold is due to a run that is just
\* adopting another one or has failed.  (DataLake.adopt_raw.)
SidecarsDescribe ==
  raw.claim # raw.content =>
    \E r \in Started : lakeRun[r].kind = "register" /\ lakeRun[r].pc \in {"copying", "hashing", "failed"}
=============================================================================
