------------------------------ MODULE ProviderCalls ------------------------------
(***************************************************************************)
(* The providers that are asked for one document at a time: a route        *)
(* (OSRM), a place search (Nominatim), the weather service's list of       *)
(* stations and its product files (DWD).  They share an HTTP client that   *)
(* retries, a directory of responses, and a bundled excerpt for the case   *)
(* that neither helps; callers share one provider, and its source changes  *)
(* and fails as it likes.  Time is in units of the first retry's delay,    *)
(* and an answer is the one the source has when it arrives.                *)
(***************************************************************************)
EXTENDS Integers, FiniteSets, Sequences

CONSTANTS
  Caller,
  Document,       \* what callers ask for
  Bundled,        \* the documents of the bundled excerpt
  MaxAttempts,    \* requests for one document
  Interval,       \* MIN_REQUEST_INTERVAL_S
  MaxWait,        \* MAX_HONOURED_RETRY_AFTER_S
  Failures,       \* how a request may fail, by Retried and StatusError
  RetryAfter,     \* what a source that limits its callers may demand; 0 is nothing
  MemoTime,       \* _CATALOGUE_TTL_S
  MaxNow,         \* bound: time
  MaxEditions     \* bound: editions of a document

ASSUME ProviderAssumption ==
  /\ MaxAttempts \in Nat \ {0}
  /\ Interval \in Nat /\ MemoTime \in Nat /\ MaxNow \in Nat

Old == -10   \* when the excerpt was bundled: before time 0

Kind == {"route", "place", "stations", "product"}
Policy == {"live", "cached", "fixture"}
Mode == {"live", "cache", "fixture"}

VARIABLES
  kind, policy,   \* the provider, and the DataMode it was constructed with
  now,
  edition,        \* [Document -> [number, sort]]: what the source publishes
  entry,          \* [Document -> [edition, at] or {}]: the cached responses, as sets
  memo,           \* the last list of stations, as a set of answers
  lastRequest,    \* _RateLimiter._last_at, as a set
  call,           \* [Caller -> the call under way or the last one]
  \* History
  published,      \* {[document, edition, from, to]}: every edition while it was current
  firsts          \* the times of the last two first requests

providerVars ==
  <<kind, policy, now, edition, entry, memo, lastRequest, call, published, firsts>>

-----------------------------------------------------------------------------
(* Responses *)

\* What a body is for the parser: data, an answer that says there is none, or neither.
Sorts == {"data", "none", "garbage"}

\* parse_route, parse_places, _parse_catalogue and _rows_from_zip raise, each in its own way.
Parses(sort) ==
  \/ sort = "data"
  \/ sort = "none" /\ kind \in {"place", "product"}

ParseError(sort) == IF sort = "none" /\ kind = "route" THEN "unavailable" ELSE "invalid"

\* A place search and a route are JSON; a body that is not fails inside the client.
Decodes(sort) == kind \in {"route", "place"} => sort # "garbage"

\* The statuses the client tries again, and what it makes of one it does not.
Retried == {"timeout", "refused", "limited", "server error"}

StatusError(failure) ==
  CASE failure = "timeout" -> "timeout"
    [] failure = "limited" -> "rate limited"
    [] failure = "forbidden" -> "configuration"
    [] failure = "not found" -> "invalid"
    [] OTHER -> "unavailable"

Power2(n) == <<1, 2, 4, 8>>[n]

Most(a, b) == IF a > b THEN a ELSE b
Least(a, b) == IF a < b THEN a ELSE b

\* _sleep_before_retry: a limit is honoured up to a point.
Delay(attempt, failure, demanded) ==
  Most(Power2(attempt), IF failure = "limited" THEN Least(demanded, MaxWait) ELSE 0)

-----------------------------------------------------------------------------
(* Answers *)

Idle == [pc |-> "idle", document |-> "", attempt |-> 0, until |-> 0, since |-> 0, answer |-> {}]

Answer(mode, number, at) == [mode |-> mode, edition |-> number, fetched |-> at]

\* A product comes without a date, which is left to the fetch as a whole.
Raised(error) == [mode |-> "raised", edition |-> 0, fetched |-> 0, error |-> error]

\* The list of stations is kept, wherever it came from.
Conclude(c, answer) ==
  /\ call' = [call EXCEPT ![c] = [@ EXCEPT !.pc = "done", !.attempt = 0, !.until = 0, !.answer = {answer}]]
  /\ memo' = IF kind = "stations" /\ answer.mode # "raised" THEN {answer} ELSE memo

\* A bug CachedAnswer guards against: the age of the response in place of the file's.
CachedAnswerNow(e) == Answer("cache", e.edition.number, now)

\* The age of a cached response is that of its file.
CachedAnswer(e) == Answer("cache", e.edition.number, e.at)

\* The excerpt has a route between its own two cities only; to a search or a station it
\* does not have the answer is that there is nothing.
FixtureAnswer(document) ==
  IF document \in Bundled \/ kind = "stations" THEN Answer("fixture", 0, Old)
  ELSE IF kind = "route" THEN Raised("unavailable")
  ELSE Answer("fixture", 0, Old)

\* What a call comes to without the source: the cached response whatever its age, and if
\* there is none the excerpt.  A cached response that does not parse raises.
Fallback(c) ==
  LET document == call[c].document
      cached == IF policy = "fixture" THEN {} ELSE entry[document]
  IN  IF cached = {} THEN FixtureAnswer(document)
      ELSE LET e == CHOOSE f \in cached : TRUE
           IN  IF Parses(e.edition.sort) THEN CachedAnswer(e) ELSE Raised(ParseError(e.edition.sort))

\* A live policy has no fallback, except that a station may lack a product.
GiveUp(c, error) ==
  Conclude(c, IF policy = "live" /\ kind # "product" THEN Raised(error) ELSE Fallback(c))

-----------------------------------------------------------------------------
(* A call *)

LastTwo(times) == SubSeq(times, Most(1, Len(times) - 1), Len(times))

\* There is one list of stations; it is remembered while it is young enough.
Ask(c) ==
  /\ call[c].pc \in {"idle", "done"}
  /\ \E d \in Document :
       LET asked == [Idle EXCEPT !.document = d, !.since = now]
           young == {m \in memo : now - m.fetched < MemoTime}
           pc == IF policy = "fixture" \/ young # {} THEN "done"
                 ELSE IF kind = "place" THEN "limit" ELSE "sent"
       IN  /\ kind = "stations" => d = (CHOOSE e \in Document : TRUE)
           /\ call' = [call EXCEPT ![c] = [asked EXCEPT !.pc = pc, !.attempt = Cardinality({pc} \cap {"sent"}),
                !.answer = IF pc # "done" THEN {}
                           ELSE IF young # {} THEN young ELSE {FixtureAnswer(d)}]]
           /\ memo' = IF kind = "stations" /\ pc = "done" THEN call'[c].answer ELSE memo
           /\ firsts' = IF pc = "sent" THEN LastTwo(Append(firsts, now)) ELSE firsts
  /\ UNCHANGED <<kind, policy, now, edition, entry, lastRequest, published>>

\* One caller at a time holds the limiter's lock, over its sleep.
Holder == {c \in Caller : call[c].pc = "spacing"}

Due(last) == last + Interval

\* The limiter lets a caller go, and its request leaves before anything else can happen.
Released(c) ==
  /\ lastRequest' = {now}
  /\ firsts' = LastTwo(Append(firsts, now))
  /\ call' = [call EXCEPT ![c] = [@ EXCEPT !.pc = "sent", !.attempt = 1, !.until = 0]]

Acquire(c) ==
  /\ call[c].pc = "limit" /\ Holder = {}
  /\ LET wait == {t \in {Due(l) : l \in lastRequest} : t > now}
     IN  IF wait = {} THEN Released(c)
         ELSE /\ call' = [call EXCEPT ![c].pc = "spacing", ![c].until = CHOOSE t \in wait : TRUE]
              /\ UNCHANGED <<lastRequest, firsts>>
  /\ UNCHANGED <<kind, policy, now, edition, entry, memo, published>>

SpacingOver(c) ==
  /\ call[c].pc = "spacing" /\ now >= call[c].until
  /\ Released(c)
  /\ UNCHANGED <<kind, policy, now, edition, entry, memo, published>>

Retry(c) ==
  /\ call[c].pc = "backoff" /\ now >= call[c].until
  /\ call' = [call EXCEPT ![c] = [@ EXCEPT !.pc = "sent", !.attempt = call[c].attempt + 1, !.until = 0]]
  /\ UNCHANGED <<kind, policy, now, edition, entry, memo, lastRequest, published, firsts>>

\* The response is written to the cache before it is parsed; the write may fail, which
\* nobody is told.
Receive(c) ==
  /\ call[c].pc = "sent"
  /\ LET document == call[c].document
         current == edition[document]
     IN  IF ~Decodes(current.sort)
         THEN GiveUp(c, "invalid") /\ UNCHANGED entry
         ELSE /\ \/ entry' = [entry EXCEPT ![document] = {[edition |-> current, at |-> now]}]
                 \/ UNCHANGED entry
              /\ Conclude(c, IF Parses(current.sort) THEN Answer("live", current.number, now)
                           ELSE Raised(ParseError(current.sort)))
  /\ UNCHANGED <<kind, policy, now, edition, lastRequest, published, firsts>>

FailAttempt(c) ==
  /\ call[c].pc = "sent"
  /\ \E failure \in Failures, demanded \in RetryAfter :
       IF failure \in Retried /\ call[c].attempt < MaxAttempts
       THEN /\ call' = [call EXCEPT ![c].pc = "backoff",
                                    ![c].until = now + Delay(call[c].attempt, failure, demanded)]
            /\ UNCHANGED memo
       ELSE GiveUp(c, StatusError(failure))
  /\ UNCHANGED <<kind, policy, now, edition, entry, lastRequest, published, firsts>>

-----------------------------------------------------------------------------
(* The world *)

Publish ==
  \E d \in Document, sort \in Sorts :
    /\ edition[d].number < MaxEditions
    /\ edition' = [edition EXCEPT ![d] = [number |-> @.number + 1, sort |-> sort]]
    /\ published' = {[p EXCEPT !.to = IF p.document = d /\ p.edition = edition[d].number
                                      THEN now ELSE @] : p \in published}
                      \cup {[document |-> d, edition |-> edition[d].number + 1, from |-> now, to |-> MaxNow]}
    /\ UNCHANGED <<kind, policy, now, entry, memo, lastRequest, call, firsts>>

Pass ==
  /\ now < MaxNow
  /\ now' = now + 1
  /\ UNCHANGED <<kind, policy, edition, entry, memo, lastRequest, call, published, firsts>>

ProviderInit ==
  /\ kind \in Kind
  /\ policy \in Policy
  /\ now = 0
  /\ edition = [d \in Document |-> [number |-> 1, sort |-> "data"]]
  /\ entry = [d \in Document |-> {}]
  /\ memo = {}
  /\ lastRequest = {}
  /\ call = [c \in Caller |-> Idle]
  /\ published = {[document |-> d, edition |-> 1, from |-> 0, to |-> MaxNow] : d \in Document}
  /\ firsts = <<>>

ProviderNext ==
  \/ \E c \in Caller : \/ Ask(c) \/ Acquire(c) \/ SpacingOver(c)
                       \/ Retry(c) \/ Receive(c) \/ FailAttempt(c)
  \/ Publish
  \/ Pass

-----------------------------------------------------------------------------
\* An answer says where it comes from: the source published it at the moment it is dated,
\* a live one during the call or within the life of the list of stations, and a policy
\* that demands the source is not satisfied with less, nor one that forbids it with more.
\* (ProviderResult: "When the underlying data was obtained - cache age, not response age";
\* DataMode.live: "a failure is an error, not a silent downgrade".)
AnswersAreHonest ==
  \A c \in Caller : \A a \in call[c].answer :
    LET fromSource == a.mode \in {"live", "cache"}
        dated == \E p \in published : /\ p.document = call[c].document /\ p.edition = a.edition
                                      /\ p.from <= a.fetched /\ a.fetched <= p.to
    IN  /\ fromSource /\ kind # "product" => dated
        /\ a.mode = "live" => \/ a.fetched >= call[c].since
                              \/ kind = "stations" /\ call[c].since - a.fetched < MemoTime
        /\ policy = "live" => a.mode \in {"live", "raised"} \/ kind = "product"
        /\ policy = "fixture" => ~fromSource /\ firsts = <<>>

\* First requests to the place search keep their distance whoever makes them; its retries
\* do not.  (_RateLimiter: "consecutive requests are at least interval_s apart".)
RequestsAreSpaced ==
  kind = "place" /\ Len(firsts) = 2 => firsts[2] - firsts[1] >= Interval

ProvidersHold == AnswersAreHonest /\ RequestsAreSpaced
=============================================================================
