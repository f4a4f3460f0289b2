------------------------------ MODULE QualityGate ------------------------------
(***************************************************************************)
(* Row validation of a source document: the rules, RecordValidator and the *)
(* StreamingValidation that drives it row by row, the report of a run and  *)
(* what is stored and shown of it, the batches the accepted rows are       *)
(* written in.  A row is a function from field names to values; moments    *)
(* are counted from now, places in degrees.                                *)
(***************************************************************************)
EXTENDS Integers, Sequences, FiniteSets, SequencesExt, FiniteSetsExt

CONSTANTS
  MaxViolations,   \* max_violations: violations a report keeps
  MaxStored,       \* MAX_STORED_VIOLATIONS: violations a run row keeps
  MaxShown,        \* _MAX_VIOLATIONS: violations the API shows
  StrictMinRows    \* strict_min_rows

\* A value is a number, a moment, or something that is neither.
Number(n) == [kind |-> "number", n |-> n]
Instant(n) == [kind |-> "time", n |-> n]
Thing(kind) == [kind |-> kind, n |-> 0]   \* "text", "blank", "flag", "null", "missing"

Field(row, f) == IF f \in DOMAIN row THEN row[f] ELSE Thing("missing")

\* The first of several names that resolves, be it to null.
Lookup(row, names) ==
  LET found == SelectSeq(names, LAMBDA f : f \in DOMAIN row)
  IN  IF found = <<>> THEN Thing("missing") ELSE row[Head(found)]

Latitude(row) == Lookup(row, <<"latitude", "coordinate.latitude", "lat">>)
Longitude(row) == Lookup(row, <<"longitude", "coordinate.longitude", "lon", "lng">>)

NumberWithin(v, low, high) == v.kind = "number" /\ low <= v.n /\ v.n <= high

-----------------------------------------------------------------------------
(* The rules *)

Rule(test, field, low, high, key) ==
  [test |-> test, field |-> field, low |-> low, high |-> high, key |-> key,
   name |-> IF test \in {"no_duplicate_key", "within_germany_bbox", "monotonic_timestamps"}
            THEN <<test>> ELSE <<test, field>>]

RequiredField(f) == Rule("required_field", f, 0, 0, {})
NumericRange(f, low, high) == Rule("numeric_range", f, low, high, {})
LatitudeInRange == Rule("latitude_in_range", "latitude", -90, 90, {})
LongitudeInRange == Rule("longitude_in_range", "longitude", -180, 180, {})
WithinGermanyBBox == Rule("within_germany_bbox", "coordinate", 0, 0, {})
PositivePower(f, high) == Rule("positive_power", f, 0, high, {})
SocInRange(f) == Rule("soc_in_range", f, 0, 100, {})
TimestampPresent(f) == Rule("timestamp_present", f, 0, 0, {})
TimestampNotFuture(f, high) == Rule("timestamp_not_future", f, 0, high, {})
NoDuplicateKey(key) == Rule("no_duplicate_key", "key", 0, 0, key)
MonotonicTimestamps(key, f) == Rule("monotonic_timestamps", f, 0, 0, key)

Duplicate == <<"no_duplicate_key">>

RegisterRules ==
  <<RequiredField("external_id"), RequiredField("operator"), RequiredField("city"),
    WithinGermanyBBox, PositivePower("max_power_kw", 1000), NoDuplicateKey({"external_id"})>>

TrafficRules ==
  <<RequiredField("external_id"), RequiredField("title"), WithinGermanyBBox,
    NoDuplicateKey({"external_id"})>>

WeatherRules ==
  <<RequiredField("station_id"), TimestampPresent("observed_at"),
    TimestampNotFuture("observed_at", 15), WithinGermanyBBox,
    NumericRange("temperature_c", -50, 60), NoDuplicateKey({"station_id", "observed_at"})>>

SampleRules ==
  <<SocInRange("battery_soc_percent"), MonotonicTimestamps({"vehicle_id"}, "recorded_at"),
    LatitudeInRange, LongitudeInRange>>

\* A key of one field is none if the field is null; a key of several is a tuple, null or not.
Key(rule, row) == [f \in rule.key |-> Field(row, f)]
NoKey(key) == Cardinality(DOMAIN key) = 1 /\ \A f \in DOMAIN key : key[f].kind = "null"

\* The keys seen, and the latest moment let through of each key.
NothingSeen == [seen |-> {}, last |-> <<>>]

\* What the rule has to say of the row; null is let pass where a value may be unknown.
Fires(rule, row, memory) ==
  LET v == Field(row, rule.field)
      key == Key(rule, row)
  IN  \/ rule.test = "required_field" /\ v.kind \in {"missing", "null", "blank"}
      \/ rule.test = "numeric_range" /\ v.kind # "null" /\ ~NumberWithin(v, rule.low, rule.high)
      \/ rule.test = "soc_in_range" /\ ~NumberWithin(v, rule.low, rule.high)
      \/ rule.test = "latitude_in_range" /\ ~NumberWithin(Latitude(row), rule.low, rule.high)
      \/ rule.test = "longitude_in_range" /\ ~NumberWithin(Longitude(row), rule.low, rule.high)
      \/ /\ rule.test = "within_germany_bbox"
         /\ ~ (NumberWithin(Latitude(row), 48, 55) /\ NumberWithin(Longitude(row), 6, 15))
      \/ rule.test = "positive_power" /\ v.kind # "null" /\ ~NumberWithin(v, 1, rule.high)
      \/ rule.test = "timestamp_present" /\ v.kind # "time"
      \/ /\ rule.test = "timestamp_not_future"
         /\ v.kind \notin {"missing", "null"} /\ (v.kind = "time" => v.n > rule.high)
      \/ rule.test = "no_duplicate_key" /\ ~NoKey(key) /\ key \in memory.seen
      \/ /\ rule.test = "monotonic_timestamps" /\ ~NoKey(key) /\ v.kind # "null"
         /\ key \in DOMAIN memory.last /\ v.n < memory.last[key]

\* A bug Noted guards against: a moment that steps back is remembered all the same.
NotedSteppingBack(memory, rule, row) ==
  LET key == Key(rule, row)
  IN  CASE rule.test = "no_duplicate_key" /\ ~NoKey(key) -> [memory EXCEPT !.seen = @ \cup {key}]
        [] rule.test = "monotonic_timestamps" -> [memory EXCEPT !.last = (key :> Field(row, rule.field).n) @@ @]
        [] OTHER -> memory

\* What a rule remembers of a row, whatever the other rules say of it.
Noted(memory, rule, row) ==
  LET v == Field(row, rule.field)
      key == Key(rule, row)
  IN  CASE rule.test = "no_duplicate_key" /\ ~NoKey(key) -> [memory EXCEPT !.seen = @ \cup {key}]
        [] /\ rule.test = "monotonic_timestamps" /\ ~NoKey(key) /\ v.kind # "null"
           /\ ~Fires(rule, row, memory)
           -> [memory EXCEPT !.last = (key :> v.n) @@ @]
        [] OTHER -> memory

-----------------------------------------------------------------------------
(* The report *)

Fresh(rules) ==
  [memory |-> NothingSeen, received |-> 0, accepted |-> <<>>, rejected |-> 0, duplicate |-> 0,
   violations |-> <<>>, stats |-> [n \in {rules[i].name : i \in DOMAIN rules} |-> 0]]

\* Every violation is counted, as long as there is room it is also listed.
RecordViolation(report, name) ==
  [report EXCEPT !.stats[name] = @ + 1,
                 !.violations = IF Len(@) < MaxViolations
                                THEN Append(@, [rule |-> name, row |-> report.received]) ELSE @]

\* Every rule runs on every row.
Check(report, rules, row) ==
  LET fired == SelectSeq(rules, LAMBDA r : Fires(r, row, report.memory))
      noted == FoldLeft(RecordViolation, [report EXCEPT !.received = @ + 1],
                        [i \in DOMAIN fired |-> fired[i].name])
      next == [noted EXCEPT !.memory = FoldLeft(LAMBDA m, r : Noted(m, r, row), @, rules)]
  IN  IF fired = <<>> THEN [next EXCEPT !.accepted = Append(@, row)]
      ELSE IF {r.name : r \in ToSet(fired)} = {Duplicate} THEN [next EXCEPT !.duplicate = @ + 1]
      ELSE [next EXCEPT !.rejected = @ + 1]

\* StreamingValidation: the rules are reset once, at its start.
Stream(rules, rows) == FoldLeft(LAMBDA r, row : Check(r, rules, row), Fresh(rules), rows)

\* Whether a batch looks like a source that changed shape.
Collapsed(report) ==
  report.received >= StrictMinRows /\ 2 * Len(report.accepted) < report.received

\* RecordValidator.validate; the alarm stops the run only of a strict validator.
Validate(rules, rows, strict) ==
  LET report == Stream(rules, rows)
  IN  [report |-> report, raised |-> strict /\ Collapsed(report)]

\* Reports of consecutive chunks as one.
Merge(a, b) ==
  [b EXCEPT !.received = a.received + @, !.accepted = a.accepted \o @, !.rejected = a.rejected + @,
            !.duplicate = a.duplicate + @, !.violations = a.violations \o @,
            !.stats = [n \in DOMAIN @ |-> a.stats[n] + @[n]]]

Outcome(report) ==
  CASE report.rejected = 0       -> "success"
    [] report.accepted # <<>>    -> "partial"
    [] OTHER                     -> "failed"

FirstOf(s, n) == SubSeq(s, 1, Min({Len(s), n}))

\* What the run row keeps of a report, and what the API shows of that.
StoredReport(report) ==
  [violations |-> FirstOf(report.violations, MaxStored), stats |-> report.stats,
   truncated |-> Max({0, Len(report.violations) - MaxStored})]

ShownReport(stored) ==
  [violations |-> FirstOf(stored.violations, MaxShown), stats |-> stored.stats,
   truncated |-> Max({0, Len(stored.violations) - MaxShown})]

\* Consecutive batches of at most `size` rows.
Batched(rows, size) ==
  [b \in 1 .. ((Len(rows) + size - 1) \div size) |->
     SubSeq(rows, (b - 1) * size + 1, Min({b * size, Len(rows)}))]
=============================================================================
