-------------------------------- MODULE Database --------------------------------
(***************************************************************************)
(* The PostgreSQL database under its migrations and under deletions.  One  *)
(* row of every table is enough for what references do to each other.  A   *)
(* migration holds its tables to its end; it may be killed at any          *)
(* statement, and commits with the revision's number.                      *)
(***************************************************************************)
EXTENDS Migrations

CONSTANTS
  MaxMigrations,   \* bound: migrations started
  MaxDeletions     \* bound: rows deleted by a statement of their own

VARIABLES
  catalog,     \* [types, tables, indexes]: what exists
  revision,    \* alembic_version
  migration,   \* the migration under way, or the last one that ended
  started,     \* migrations started so far
  present,      \* the tables whose row is present
  links,       \* the references of present rows that are not null: <<table, column>>
  filled,      \* the tables whose row has been offered
  refused,     \* the tables that refused it
  removed,     \* the tables whose row was deleted by a statement of its own
  sparse       \* whether rows leave out what their mapping lets them leave out

databaseVars ==
  <<catalog, revision, migration, started, present, links, filled, refused, removed, sparse>>

Empty == [types |-> {}, tables |-> {}, indexes |-> {}]

NoMigration == [to |-> "", statements |-> <<>>, next |-> 1, catalog |-> Empty, present |-> {}]

DatabaseInit ==
  /\ catalog = Empty
  /\ revision = "base"
  /\ migration = NoMigration
  /\ started = 0
  /\ present = {} /\ links = {} /\ filled = {} /\ refused = {} /\ removed = {}
  /\ sparse \in BOOLEAN

-----------------------------------------------------------------------------
(* References *)

RefsOf(table) == Created[table].refs

\* The present rows that refer to one of the tables' rows, each with the reference.
Referring(tables) ==
  {p \in UNION {{t} \X RefsOf(t) : t \in present} :
     <<p[1], p[2].column>> \in links /\ p[2].table \in tables}

\* The rows that go with one: what refers to it with ON DELETE CASCADE, and so on.
GoneWith(table) ==
  LET gone[n \in Nat] ==
        IF n = 0 THEN {table}
        ELSE LET before == gone[n - 1]
             IN  before \cup {p[1] : p \in {q \in Referring(before) : q[2].onDelete = "CASCADE"}}
  IN  gone[Cardinality({t \in present : \E r \in RefsOf(t) : r.onDelete = "CASCADE"})]

\* Another row's reference forbids the deletion, or cannot be set to null.
Restricted(table) ==
  \E gone \in {GoneWith(table)} : \E p \in Referring(gone) :
    \/ p[2].onDelete = "RESTRICT"
    \/ p[2].onDelete = "SET NULL" /\ p[1] \notin gone /\ p[2].column \in Created[p[1]].required

-----------------------------------------------------------------------------
(* Migrations *)

NextStatement == migration.statements[migration.next]

Running == migration.next <= Len(migration.statements)

IndexesOf(table) == {table} \X Created[table].indexes

\* Types are created once, before the tables with a column of them; a table after those
\* it refers to, and dropped before them; an index is dropped by name.
Applies(s, c) ==
  CASE s.kind = "create types" -> TRUE                       \* checkfirst
    [] s.kind = "create table" ->
         /\ s.table \notin c.tables
         /\ {e[2] : e \in Created[s.table].enums} \subseteq c.types
         /\ {r.table : r \in RefsOf(s.table)} \subseteq c.tables
    [] s.kind = "drop indexes" -> {s.table} \X DroppedIndexes[s.table] \subseteq c.indexes
    [] s.kind = "drop table" ->
         /\ s.table \in c.tables
         /\ \A t \in c.tables \ {s.table} : s.table \notin {r.table : r \in RefsOf(t)}
    [] s.kind = "drop types" ->
         \A t \in c.tables : {e[2] : e \in Created[t].enums} \cap DOMAIN EnumValues = {}
    [] s.kind = "insert profiles" -> s.table \in c.tables /\ s.table \notin migration.present
    [] s.kind = "delete profiles" -> s.table \in present => ~Restricted(s.table)

AfterStatement(s, c) ==
  CASE s.kind = "create types" -> [c EXCEPT !.types = DOMAIN EnumValues]
    [] s.kind = "create table" ->
         [c EXCEPT !.tables = @ \cup {s.table}, !.indexes = @ \cup IndexesOf(s.table)]
    [] s.kind = "drop indexes" -> [c EXCEPT !.indexes = @ \ ({s.table} \X DroppedIndexes[s.table])]
    [] s.kind = "drop table" ->
         [c EXCEPT !.tables = @ \ {s.table}, !.indexes = @ \ IndexesOf(s.table)]
    [] s.kind = "drop types" -> [c EXCEPT !.types = {}]
    [] OTHER -> c

\* The rows a statement leaves in the transaction.
RowsAfter(s, rows) ==
  IF s.kind \in {"drop table", "delete profiles"} THEN rows \ {s.table}
  ELSE IF s.kind = "insert profiles" THEN rows \cup {s.table} ELSE rows

StartMigration ==
  /\ ~Running /\ started < MaxMigrations
  /\ \E m \in RunsAt(revision) :
       migration' = [to |-> m.to, statements |-> m.statements, next |-> 1,
                     catalog |-> catalog, present |-> present]
  /\ started' = started + 1
  /\ UNCHANGED <<catalog, revision, present, links, filled, refused, removed, sparse>>

\* The last statement commits, with the revision.
RunStatement ==
  /\ Running /\ Applies(NextStatement, migration.catalog)
  /\ LET after == [migration EXCEPT !.next = @ + 1,
                                    !.catalog = AfterStatement(NextStatement, @),
                                    !.present = RowsAfter(NextStatement, @)]
     IN  /\ migration' = after
         /\ IF migration.next = Len(migration.statements)
            THEN /\ catalog' = after.catalog /\ present' = after.present /\ revision' = migration.to
                 /\ links' = {l \in links : l[1] \in after.present}
                 /\ filled' = filled \cap after.present
                 /\ removed' = removed \cap filled'
            ELSE UNCHANGED <<catalog, present, revision, links, filled, removed>>
  /\ UNCHANGED <<started, refused, sparse>>

\* The statement fails, or the process dies: the transaction is rolled back.
RollBack ==
  /\ Running
  /\ migration' = NoMigration
  /\ UNCHANGED <<catalog, revision, started, present, links, filled, refused, removed, sparse>>

-----------------------------------------------------------------------------
(* Rows *)

\* The program stores the next row, with every column or with those its own mapping calls
\* for; the table has its own mind about them.
StoreRow(t, columns) ==
  LET refs == {r \in RefsOf(t) : r.column \in columns /\ r.table \in present}
  IN  IF Created[t].required \subseteq columns /\ {r.table : r \in RefsOf(t)} \cap refused = {}
      THEN /\ present' = present \cup {t}
           /\ links' = links \cup {<<t, r.column>> : r \in refs}
           /\ UNCHANGED refused
      ELSE refused' = refused \cup {t} /\ UNCHANGED <<present, links>>

Store ==
  /\ ~Running /\ revision = "0002" /\ removed = {}
  /\ \E i \in DOMAIN CreateOrder :
       LET t == CreateOrder[i]
           mapped == Mapped!Tables[t]
       IN  /\ t \notin filled /\ t \notin present
           /\ \A j \in 1 .. (i - 1) : CreateOrder[j] \in filled \cup present
           /\ filled' = filled \cup {t}
           /\ StoreRow(t, IF sparse THEN mapped.required ELSE Mapped!Columns(mapped))
  /\ UNCHANGED <<catalog, revision, migration, started, removed, sparse>>

DeleteRow ==
  /\ ~Running /\ Cardinality(removed) < MaxDeletions
  /\ ToSet(CreateOrder) \subseteq filled \cup present
  /\ \E t \in present : \E gone \in {GoneWith(t)} : \E left \in {Referring(gone)} :
       /\ ~Restricted(t)
       /\ present' = present \ gone
       /\ links' = {l \in links : l[1] \notin gone /\ ~ \E p \in left :
                                    p[1] = l[1] /\ p[2].column = l[2]}
       /\ removed' = removed \cup {t}
  /\ UNCHANGED <<catalog, revision, migration, started, filled, refused, sparse>>

DatabaseNext ==
  \/ StartMigration
  \/ RunStatement
  \/ RollBack
  \/ Store
  \/ DeleteRow

-----------------------------------------------------------------------------
\* A migration fails at no statement, except that the profiles cannot go as long as a
\* vehicle is of one of them; whatever is interrupted or repeated, the database has exactly
\* the tables, types, keys and indexes that the classes map, or nothing at all, and no
\* column that a class requires may be missing.  (0001, 0002: "A revision that cannot
\* round-trip is not finished"; Base.metadata.)
MigrationsRoundTrip ==
  /\ Running => \/ Applies(NextStatement, migration.catalog)
                \/ NextStatement.kind = "delete profiles" /\ "vehicles" \in present
  /\ revision = "base" => catalog = Empty /\ present = {}
  /\ revision # "base" =>
       /\ catalog.types = DOMAIN Mapped!EnumTypes /\ EnumValues = Mapped!EnumTypes
       /\ catalog.tables = DOMAIN Mapped!Tables
       /\ \A t \in catalog.tables :
            LET made == Created[t]
                mapped == Mapped!Tables[t]
            IN  /\ Mapped!Columns(made) = Mapped!Columns(mapped)
                /\ mapped.required \subseteq made.required
                /\ \A part \in {"enums", "unique", "refs"} : made[part] = mapped[part]
                /\ {i \in catalog.indexes : i[1] = t} = {t} \X mapped.indexes

\* Deleting a row takes nothing with it but what the row owns, and leaves no reference to
\* it behind: ingested data outlives its runs, predictions outlive their models, routes
\* and trips.  (the relationships that are "all, delete-orphan"; ProvenanceMixin:
\* "must never take the ingested data with it"; MLPrediction: "the audit trail must outlive
\* the route or trip it described".)
RowsOutliveTheRest ==
  /\ \A t \in present : \A r \in RefsOf(t) :
       /\ <<t, r.column>> \in links => r.table \in present
       /\ r.column \in Created[t].required => <<t, r.column>> \in links
  /\ \A l \in links : l[1] \in present
  /\ \A t \in filled \ (present \cup refused) :
       t \in removed \/ \E o \in removed : <<o, t>> \in Mapped!Owned

\* What the mapped classes let be missing may be missing.  (BUILD_SPEC: the geometry of a
\* traffic event is null for a point event; _event_values.)
TablesTakeEveryRow == refused = {}
=============================================================================
