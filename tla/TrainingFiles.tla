----------------------------- MODULE TrainingFiles -----------------------------
(***************************************************************************)
(* The training file and the note of where it came from: the simulator and *)
(* the physics sweep write the same Parquet file, the sweep also a sidecar *)
(* with the file's hash; a training reads the file, hashes it and believes *)
(* the sidecar only if the hashes agree (dataset.py, training_data.py,     *)
(* training.py).  Every command may die between two steps.                 *)
(***************************************************************************)
EXTENDS Integers, Sequences, FiniteSets

CONSTANTS
  MaxCommands,   \* bound: generating commands
  Nothing        \* no file, no hash

ASSUME FilesAssumption ==
  /\ MaxCommands \in Nat
  /\ Nothing \notin Nat
  /\ Nothing \notin [by : Nat, whole : BOOLEAN]
  /\ Nothing \notin [hash : [by : Nat, whole : BOOLEAN], whole : BOOLEAN]

VARIABLES
  parquet,    \* [by, whole] or Nothing: by numbers the command that wrote it
  claim,      \* the sidecar: [hash, whole] or Nothing; only the sweep writes one
  commands,   \* generating commands so far: [kind, pc, hash]
  training,   \* [pc, loaded, hash, source]
  \* History
  crossed     \* two generating commands, or one and the training, have been under way at once

filesVars == <<parquet, claim, commands, training, crossed>>

NoTraining == [pc |-> "idle", loaded |-> Nothing, hash |-> Nothing, source |-> "none"]

FilesInit ==
  /\ parquet = Nothing /\ claim = Nothing
  /\ commands = <<>>
  /\ training = NoTraining
  /\ crossed = FALSE

Writing == {n \in DOMAIN commands : commands[n].pc \notin {"done", "dead"}}

UnderWay == training.pc \in {"hash", "compare"}

GoesOn(n, pc) == commands' = [commands EXCEPT ![n].pc = pc]

\* write_parquet opens the file in place: until it is closed it cannot be read.
OpensParquet(kind) ==
  /\ Len(commands) < MaxCommands
  /\ commands' = Append(commands, [kind |-> kind, pc |-> "writing", hash |-> Nothing])
  /\ parquet' = [by |-> Len(commands) + 1, whole |-> FALSE]
  /\ crossed' = (crossed \/ Writing # {} \/ UnderWay)
  /\ UNCHANGED <<claim, training>>

\* Only the sweep goes on to describe what it wrote.  Two writers may leave a mixture.
ClosesParquet(n) ==
  /\ commands[n].pc = "writing"
  /\ \E whole \in IF \E m \in Writing \ {n} : commands[m].pc = "writing" THEN BOOLEAN ELSE {TRUE} :
       parquet' = [by |-> n, whole |-> whole]
  /\ GoesOn(n, IF commands[n].kind = "physics_sweep" THEN "hashing" ELSE "done")
  /\ UNCHANGED <<claim, training, crossed>>

\* The hash is of the file as it now is.
HashesParquet(n) ==
  /\ commands[n].pc = "hashing"
  /\ commands' = [commands EXCEPT ![n] = [@ EXCEPT !.pc = "claim", !.hash = parquet]]
  /\ UNCHANGED <<parquet, claim, training, crossed>>

OpensClaim(n) ==
  /\ commands[n].pc = "claim"
  /\ claim' = [hash |-> commands[n].hash, whole |-> FALSE]
  /\ GoesOn(n, "claiming")
  /\ UNCHANGED <<parquet, training, crossed>>

ClosesClaim(n) ==
  /\ commands[n].pc = "claiming"
  /\ claim' = [hash |-> commands[n].hash, whole |-> TRUE]
  /\ GoesOn(n, "done")
  /\ UNCHANGED <<parquet, training, crossed>>

CommandDies(n) ==
  /\ n \in Writing
  /\ GoesOn(n, "dead")
  /\ UNCHANGED <<parquet, claim, training, crossed>>

\* load_dataset: without a file that can be read there is no training.
LoadsDataset ==
  /\ ~UnderWay
  /\ parquet # Nothing /\ parquet.whole
  /\ training' = [NoTraining EXCEPT !.pc = "hash", !.loaded = parquet.by]
  /\ crossed' = (crossed \/ Writing # {})
  /\ UNCHANGED <<parquet, claim, commands>>

\* describe_training_source reads the file a second time...
HashesDataset ==
  /\ training.pc = "hash"
  /\ training' = [training EXCEPT !.pc = "compare", !.hash = parquet]
  /\ UNCHANGED <<parquet, claim, commands, crossed>>

\* A bug ComparesClaim guards against: whatever sidecar is there is believed.
ComparesAnyClaim ==
  /\ training.pc = "compare"
  /\ training' = [training EXCEPT !.pc = "described",
                    !.source = IF claim # Nothing /\ claim.whole THEN "physics_sweep" ELSE "unknown"]
  /\ UNCHANGED <<parquet, claim, commands, crossed>>

\* ... and then the sidecar: missing, cut short or of another file it says nothing.
ComparesClaim ==
  /\ training.pc = "compare"
  /\ LET verified == claim # Nothing /\ claim.whole /\ claim.hash = training.hash IN
     training' = [training EXCEPT !.pc = "described",
                    !.source = IF verified THEN "physics_sweep" ELSE "unknown"]
  /\ UNCHANGED <<parquet, claim, commands, crossed>>

FilesNext ==
  \/ \E kind \in {"physics_sweep", "simulator"} : OpensParquet(kind)
  \/ \E n \in Writing : \/ ClosesParquet(n) \/ HashesParquet(n) \/ OpensClaim(n)
                        \/ ClosesClaim(n) \/ CommandDies(n)
  \/ LoadsDataset \/ HashesDataset \/ ComparesClaim

-----------------------------------------------------------------------------
\* A training says its data came from the sweep only if it did, whatever has been written
\* over what and wherever a command died; and it says so if the sweep that wrote the data
\* finished.  Commands at the same time are another matter: the file can be replaced
\* between its two readings.  (describe_training_source, generate_physics_sweep: "a model
\* trained on a sweep is never reported as trained on simulator output".)
SourcesAreVerified ==
  training.pc = "described" /\ ~crossed =>
    LET writer == commands[training.loaded]
    IN  /\ training.source = "physics_sweep" => writer.kind = "physics_sweep"
        /\ writer.kind = "physics_sweep" /\ writer.pc = "done" =>
             training.source = "physics_sweep"

=============================================================================
