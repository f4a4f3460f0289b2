---------------------------- MODULE AlgorithmsProofs ----------------------------
(***************************************************************************)
(* What holds of the parts that work by themselves for every value of the  *)
(* constants: the answers of the providers, the sidecars of training files *)
(* and source documents, and the shares of a split.  A step of the whole   *)
(* is one of the part or leaves its variables alone.                       *)
(***************************************************************************)
EXTENDS Algorithms, FiniteSetTheorems, TLAPS

-----------------------------------------------------------------------------
(* Providers *)

Phase == {"idle", "limit", "spacing", "sent", "backoff", "done"}

CallFields == {"pc", "document", "attempt", "until", "since", "answer"}

Stations == CHOOSE d \in Document : TRUE

\* The source published this edition of a document at that time.
Dated(d, n, t) ==
  \E p \in published : p.document = d /\ p.edition = n /\ p.from <= t /\ t <= p.to

\* An answer about a document that is what it says it is, under the policy of the provider.
Honest(a, d) ==
  /\ a.mode \in {"live", "cache", "fixture", "raised"}
  /\ a.mode \in {"live", "cache"} =>
       a.fetched \in 0 .. now /\ Dated(d, a.edition, a.fetched) /\ policy # "fixture"
  /\ policy = "live" => a.mode \in {"live", "raised"} \/ kind = "product"

\* A live answer is of the call, or of a list of stations that was young when it began.
Timely(a, since) ==
  a.mode = "live" => a.fetched >= since \/ (kind = "stations" /\ since - a.fetched < MemoTime)

ProviderTypeOK ==
  /\ kind \in Kind /\ policy \in Policy
  /\ now \in 0 .. MaxNow
  /\ edition \in [Document -> [number : Nat, sort : Sorts]]
  /\ published \subseteq [document : Document, edition : Nat, from : Nat, to : Nat]
  /\ DOMAIN entry = Document /\ DOMAIN call = Caller
  /\ lastRequest \subseteq Nat
  /\ firsts \in Seq(Nat) /\ Len(firsts) <= 2
  /\ \A c \in Caller : /\ DOMAIN call[c] = CallFields
                        /\ call[c].pc \in Phase
                        /\ call[c].since \in 0 .. now

\* No call makes more requests than it may.
AttemptsAreBounded ==
  \A c \in Caller :
    /\ call[c].attempt \in 0 .. MaxAttempts
    /\ call[c].pc = "backoff" => call[c].attempt # MaxAttempts

\* What the source publishes it publishes from now on.
CurrentIsPublished ==
  \A d \in Document : \E p \in published :
    p.document = d /\ p.edition = edition[d].number /\ p.from <= now /\ p.to = MaxNow

\* What is cached, and the list of stations that is remembered, is what the source
\* published at its date.
CachesAreDated ==
  /\ \A d \in Document : \A e \in entry[d] : e.at \in 0 .. now /\ Dated(d, e.edition.number, e.at)
  /\ \A m \in memo : kind = "stations" /\ Honest(m, Stations)

CallsAreHonest ==
  \A c \in Caller :
    /\ call[c].pc = "idle" => call[c].answer = {}
    /\ call[c].pc # "idle" =>
         call[c].document \in Document /\ (kind = "stations" => call[c].document = Stations)
    /\ policy = "fixture" => call[c].pc \in {"idle", "done"}
    /\ \A a \in call[c].answer : Honest(a, call[c].document) /\ Timely(a, call[c].since)

\* The last first request is the one the limiter remembers, and whoever waits in it waits
\* for the interval to pass since then.
LimiterIsExact ==
  /\ policy = "fixture" => firsts = <<>>
  /\ \A c \in Caller : call[c].pc \in {"limit", "spacing"} => kind = "place"
  /\ kind = "place" =>
       /\ lastRequest = IF firsts = <<>> THEN {} ELSE {firsts[Len(firsts)]}
       /\ Len(firsts) = 2 => firsts[2] - firsts[1] >= Interval
       /\ \A c \in Caller : call[c].pc = "spacing" =>
            firsts # <<>> /\ call[c].until = Due(firsts[Len(firsts)])
  /\ \A b, c \in Caller : call[b].pc = "spacing" /\ call[c].pc = "spacing" => b = c

ProviderInv ==
  /\ ProviderTypeOK
  /\ AttemptsAreBounded
  /\ CurrentIsPublished
  /\ CachesAreDated
  /\ CallsAreHonest
  /\ LimiterIsExact

LEMMA ProviderInvInit == ProviderInit => ProviderInv
<1> SUFFICES ASSUME ProviderInit PROVE ProviderInv
  OBVIOUS
<1> USE ProviderAssumption DEF ProviderInit
<1>1. ProviderTypeOK
  <2>1. /\ DOMAIN Idle = CallFields /\ Idle.pc = "idle" /\ Idle.since = 0 /\ Idle.attempt = 0
        /\ \A c \in Caller : call[c] = Idle
    BY DEF Idle, CallFields
  <2>2. \A d \in Document : [document |-> d, edition |-> 1, from |-> 0, to |-> MaxNow]
                              \in [document : Document, edition : Nat, from : Nat, to : Nat]
    OBVIOUS
  <2>3. [number |-> 1, sort |-> "data"] \in [number : Nat, sort : Sorts]
    BY DEF Sorts
  <2> QED
    BY <2>1, <2>2, <2>3 DEF ProviderTypeOK, Phase
<1>7. AttemptsAreBounded
  <2>1. \A c \in Caller : call[c].attempt = 0 /\ call[c].pc = "idle"
    BY DEF Idle
  <2>2. 0 \in 0 .. MaxAttempts
    OBVIOUS
  <2> QED
    BY <2>1, <2>2 DEF AttemptsAreBounded
<1>2. CurrentIsPublished
  <2> SUFFICES ASSUME NEW d \in Document
               PROVE  \E p \in published : /\ p.document = d /\ p.edition = edition[d].number
                                           /\ p.from <= now /\ p.to = MaxNow
    BY DEF CurrentIsPublished
  <2>1. [document |-> d, edition |-> 1, from |-> 0, to |-> MaxNow] \in published
    OBVIOUS
  <2>2. edition[d].number = 1
    OBVIOUS
  <2> QED
    BY <2>1, <2>2
<1>3. CachesAreDated
  BY DEF CachesAreDated
<1>4. \A c \in Caller : call[c].pc = "idle" /\ call[c].answer = {}
  BY DEF Idle
<1>5. CallsAreHonest
  BY <1>4 DEF CallsAreHonest
<1>6. LimiterIsExact
  BY <1>4 DEF LimiterIsExact
<1> QED
  BY <1>1, <1>2, <1>3, <1>5, <1>6, <1>7 DEF ProviderInv

\* What the source publishes now is dated now.
LEMMA CurrentIsDated ==
  ASSUME ProviderInv, NEW d \in Document
  PROVE  Dated(d, edition[d].number, now)
<1>1. PICK p \in published : p.document = d /\ p.edition = edition[d].number /\ p.from <= now /\ p.to = MaxNow
  BY DEF ProviderInv, CurrentIsPublished
<1> QED
  BY <1>1, ProviderAssumption DEF ProviderInv, ProviderTypeOK, Dated

\* A call ends with an answer that is what it says it is.
LEMMA ConcludeKeeps ==
  ASSUME ProviderInv, NEW c \in Caller, NEW answer,
         call[c].pc = "sent", Honest(answer, call[c].document), Timely(answer, call[c].since),
         Conclude(c, answer), edition' = edition,
         UNCHANGED <<kind, policy, now, lastRequest, published, firsts>>,
         DOMAIN entry' = Document,
         \A d \in Document : \A e \in entry'[d] : e.at \in 0 .. now /\ Dated(d, e.edition.number, e.at)
  PROVE  ProviderInv'
<1>1. /\ DOMAIN call = Caller /\ DOMAIN call[c] = CallFields
      /\ call' = [call EXCEPT ![c] = [call[c] EXCEPT !.pc = "done", !.attempt = 0, !.until = 0, !.answer = {answer}]]
      /\ memo' = IF kind = "stations" /\ answer.mode # "raised" THEN {answer} ELSE memo
  BY DEF ProviderInv, ProviderTypeOK, Conclude
<1>2. /\ DOMAIN call' = Caller
      /\ \A b \in Caller \ {c} : call'[b] = call[b]
      /\ DOMAIN call'[c] = CallFields
      /\ call'[c].pc = "done" /\ call'[c].attempt = 0 /\ call'[c].answer = {answer}
      /\ call'[c].document = call[c].document /\ call'[c].since = call[c].since
  BY <1>1 DEF CallFields
<1>3. \A a, d : (Honest(a, d))' <=> Honest(a, d)
  BY DEF Honest, Dated
<1>4. \A a, s : (Timely(a, s))' <=> Timely(a, s)
  BY DEF Timely
<1>5. ProviderTypeOK'
  <2>1. \A b \in Caller : /\ DOMAIN call'[b] = CallFields
                          /\ call'[b].pc \in Phase
                          /\ call'[b].since \in 0 .. now
    BY <1>2 DEF ProviderInv, ProviderTypeOK, Phase
  <2> QED
    BY <1>2, <2>1 DEF ProviderInv, ProviderTypeOK
<1>10. AttemptsAreBounded'
  BY <1>2, ProviderAssumption DEF ProviderInv, AttemptsAreBounded
<1>6. CurrentIsPublished'
  BY DEF ProviderInv, CurrentIsPublished
<1>7. CachesAreDated'
  <2>1. \A d \in Document : \A e \in entry'[d] :
          e.at \in 0 .. now' /\ (Dated(d, e.edition.number, e.at))'
    BY DEF Dated
  <2>2. \A m \in memo' : kind' = "stations" /\ (Honest(m, Stations))'
    <3>1. kind = "stations" => call[c].document = Stations
      BY DEF ProviderInv, CallsAreHonest
    <3> QED
      BY <1>1, <1>3, <3>1 DEF ProviderInv, CachesAreDated, Stations
  <2> QED
    BY <2>1, <2>2 DEF CachesAreDated, Stations
<1>8. CallsAreHonest'
  <2> SUFFICES ASSUME NEW b \in Caller
               PROVE  /\ call'[b].pc = "idle" => call'[b].answer = {}
                      /\ call'[b].pc # "idle" =>
                           /\ call'[b].document \in Document
                           /\ (kind = "stations" => call'[b].document = Stations)
                      /\ policy = "fixture" => call'[b].pc \in {"idle", "done"}
                      /\ \A a \in call'[b].answer :
                           /\ (Honest(a, call[b].document))'
                           /\ (Timely(a, call[b].since))'
    BY DEF CallsAreHonest, Stations
  <2>1. CASE b = c
    BY <2>1, <1>2, <1>3, <1>4 DEF ProviderInv, CallsAreHonest
  <2>2. CASE b # c
    BY <2>2, <1>2, <1>3, <1>4 DEF ProviderInv, CallsAreHonest
  <2> QED
    BY <2>1, <2>2
<1>9. LimiterIsExact'
  <2>1. \A b \in Caller : call'[b].pc \in {"limit", "spacing"} => b # c /\ call'[b] = call[b]
    BY <1>2
  <2> QED
    BY <2>1 DEF ProviderInv, LimiterIsExact, Due
<1> QED
  BY <1>5, <1>6, <1>7, <1>8, <1>9, <1>10 DEF ProviderInv

\* What a call comes to without the source is never called live.
LEMMA FallbackIsHonest ==
  ASSUME ProviderInv, NEW c \in Caller, call[c].pc = "sent",
         policy # "live" \/ kind = "product"
  PROVE  /\ Honest(Fallback(c), call[c].document)
         /\ Fallback(c).mode # "live"
<1> DEFINE d == call[c].document
           cached == IF policy = "fixture" THEN {} ELSE entry[d]
<1>1. d \in Document /\ policy # "fixture"
  BY DEF ProviderInv, CallsAreHonest
<1>2. \A error : Raised(error).mode = "raised"
  BY DEF Raised
<1>3. \A mode, n, t : /\ Answer(mode, n, t).mode = mode /\ Answer(mode, n, t).edition = n
                      /\ Answer(mode, n, t).fetched = t
  BY DEF Answer
<1>4. CASE cached = {}
  <2>1. Fallback(c) = FixtureAnswer(d)
    BY <1>4 DEF Fallback
  <2>2. FixtureAnswer(d).mode \in {"fixture", "raised"}
    BY <1>2, <1>3 DEF FixtureAnswer
  <2> QED
    BY <2>1, <2>2 DEF Honest
<1>5. CASE cached # {}
  <2> DEFINE e == CHOOSE f \in cached : TRUE
  <2>1. e \in entry[d]
    BY <1>1, <1>5
  <2>2. e.at \in 0 .. now /\ Dated(d, e.edition.number, e.at)
    BY <2>1, <1>1 DEF ProviderInv, CachesAreDated
  <2>3. Fallback(c) = IF Parses(e.edition.sort) THEN CachedAnswer(e) ELSE Raised(ParseError(e.edition.sort))
    BY <1>5 DEF Fallback
  <2>4. CachedAnswer(e).mode = "cache" /\ CachedAnswer(e).edition = e.edition.number /\ CachedAnswer(e).fetched = e.at
    BY <1>3 DEF CachedAnswer
  <2>5. Honest(CachedAnswer(e), d)
    BY <2>2, <2>4, <1>1 DEF Honest
  <2>6. \A error : Honest(Raised(error), d)
    BY <1>2 DEF Honest
  <2> HIDE DEF e, d
  <2> QED
    BY <2>3, <2>4, <2>5, <2>6, <1>2 DEF d
<1> QED
  BY <1>4, <1>5

LEMMA GiveUpKeeps ==
  ASSUME ProviderInv, NEW c \in Caller, NEW error, call[c].pc = "sent", GiveUp(c, error),
         UNCHANGED <<kind, policy, now, edition, entry, lastRequest, published, firsts>>
  PROVE  ProviderInv'
<1> DEFINE answer == IF policy = "live" /\ kind # "product" THEN Raised(error) ELSE Fallback(c)
<1>1. Conclude(c, answer)
  BY DEF GiveUp
<1>2. Honest(answer, call[c].document) /\ answer.mode # "live"
  <2>1. Raised(error).mode = "raised"
    BY DEF Raised
  <2>2. Honest(Raised(error), call[c].document)
    BY <2>1 DEF Honest
  <2> QED
    BY <2>1, <2>2, FallbackIsHonest
<1>3. Timely(answer, call[c].since)
  BY <1>2 DEF Timely
<1>4. /\ DOMAIN entry' = Document
      /\ \A d \in Document : \A e \in entry'[d] : e.at \in 0 .. now /\ Dated(d, e.edition.number, e.at)
  BY DEF ProviderInv, ProviderTypeOK, CachesAreDated
<1> HIDE DEF answer
<1> QED
  BY <1>1, <1>2, <1>3, <1>4, ConcludeKeeps

LEMMA ReceiveKeeps == ASSUME ProviderInv, NEW c \in Caller, Receive(c) PROVE ProviderInv'
<1> DEFINE d == call[c].document
           current == edition[d]
           answer == IF Parses(current.sort) THEN Answer("live", current.number, now)
                     ELSE Raised(ParseError(current.sort))
<1>1. call[c].pc = "sent" /\ UNCHANGED <<kind, policy, now, edition, lastRequest, published, firsts>>
  BY DEF Receive
<1>2. CASE ~Decodes(current.sort)
  BY <1>1, <1>2, GiveUpKeeps DEF Receive
<1>3. CASE Decodes(current.sort)
  <2>1. /\ \/ entry' = [entry EXCEPT ![d] = {[edition |-> current, at |-> now]}]
           \/ UNCHANGED entry
        /\ Conclude(c, answer)
    BY <1>3 DEF Receive
  <2>2. d \in Document /\ policy # "fixture" /\ now \in Nat
    BY <1>1, ProviderAssumption DEF ProviderInv, CallsAreHonest, ProviderTypeOK
  <2>3. Dated(d, current.number, now)
    BY <2>2, CurrentIsDated
  <2>4. Honest(answer, d) /\ Timely(answer, call[c].since)
    <3>1. CASE Parses(current.sort)
      <4>1. answer.mode = "live" /\ answer.edition = current.number /\ answer.fetched = now
        BY <3>1 DEF Answer
      <4>2. now >= call[c].since
        BY <2>2 DEF ProviderInv, ProviderTypeOK
      <4> HIDE DEF answer
      <4> QED
        BY <4>1, <4>2, <2>2, <2>3 DEF Honest, Timely
    <3>2. CASE ~Parses(current.sort)
      <4>1. answer.mode = "raised"
        BY <3>2 DEF Raised
      <4> HIDE DEF answer
      <4> QED
        BY <4>1 DEF Honest, Timely
    <3> QED
      BY <3>1, <3>2
  <2>5. /\ DOMAIN entry' = Document
        /\ \A b \in Document : \A e \in entry'[b] : e.at \in 0 .. now /\ Dated(b, e.edition.number, e.at)
    <3>1. CASE entry' = [entry EXCEPT ![d] = {[edition |-> current, at |-> now]}]
      <4>1. [edition |-> current, at |-> now].edition = current /\ [edition |-> current, at |-> now].at = now
        OBVIOUS
      <4>2. DOMAIN entry = Document
        BY DEF ProviderInv, ProviderTypeOK
      <4> HIDE DEF current
      <4> QED
        BY <3>1, <4>1, <4>2, <2>2, <2>3 DEF ProviderInv, CachesAreDated
    <3>2. CASE UNCHANGED entry
      BY <3>2 DEF ProviderInv, ProviderTypeOK, CachesAreDated
    <3> QED
      BY <2>1, <3>1, <3>2
  <2> HIDE DEF answer, d
  <2> QED
    BY <1>1, <2>1, <2>4, <2>5, ConcludeKeeps DEF d
<1> QED
  BY <1>2, <1>3

\* A step that changes only where a caller is in its call, and keeps its answer.
LEMMA PhaseKeeps ==
  ASSUME ProviderInv, NEW c \in Caller, DOMAIN call' = Caller,
         \A b \in Caller \ {c} : call'[b] = call[b],
         DOMAIN call'[c] = CallFields, call'[c].pc \in Phase \ {"idle"}, call[c].pc # "idle",
         call'[c].attempt \in 0 .. MaxAttempts, policy # "fixture",
         call'[c].pc = "backoff" => call'[c].attempt # MaxAttempts,
         call'[c].document = call[c].document, call'[c].since = call[c].since,
         call'[c].answer = call[c].answer,
         UNCHANGED <<kind, policy, now, edition, entry, memo, published>>,
         lastRequest' \subseteq Nat, firsts' \in Seq(Nat), Len(firsts') <= 2, LimiterIsExact'
  PROVE  ProviderInv'
<1>1. \A a, d : (Honest(a, d))' <=> Honest(a, d)
  BY DEF Honest, Dated
<1>2. \A a, s : (Timely(a, s))' <=> Timely(a, s)
  BY DEF Timely
<1>3. ProviderTypeOK'
  <2>1. \A b \in Caller : /\ DOMAIN call'[b] = CallFields
                          /\ call'[b].pc \in Phase
                          /\ call'[b].since \in 0 .. now
    BY DEF ProviderInv, ProviderTypeOK
  <2> QED
    BY <2>1 DEF ProviderInv, ProviderTypeOK
<1>7. AttemptsAreBounded'
  BY DEF ProviderInv, AttemptsAreBounded
<1>4. CurrentIsPublished'
  BY DEF ProviderInv, CurrentIsPublished
<1>5. CachesAreDated'
  <2>1. \A d \in Document : \A e \in entry'[d] :
          e.at \in 0 .. now' /\ (Dated(d, e.edition.number, e.at))'
    BY DEF ProviderInv, CachesAreDated, Dated
  <2>2. \A m \in memo' : kind' = "stations" /\ (Honest(m, Stations))'
    BY <1>1 DEF ProviderInv, CachesAreDated, Stations
  <2> QED
    BY <2>1, <2>2 DEF CachesAreDated, Stations
<1>6. CallsAreHonest'
  <2> SUFFICES ASSUME NEW b \in Caller
               PROVE  /\ call'[b].pc = "idle" => call'[b].answer = {}
                      /\ call'[b].pc # "idle" =>
                           /\ call'[b].document \in Document
                           /\ (kind = "stations" => call'[b].document = Stations)
                      /\ policy = "fixture" => call'[b].pc \in {"idle", "done"}
                      /\ \A a \in call'[b].answer :
                           /\ (Honest(a, call[b].document))'
                           /\ (Timely(a, call[b].since))'
    BY DEF CallsAreHonest, Stations
  <2>1. CASE b = c
    BY <2>1, <1>1, <1>2 DEF ProviderInv, CallsAreHonest
  <2>2. CASE b # c
    BY <2>2, <1>1, <1>2 DEF ProviderInv, CallsAreHonest
  <2> QED
    BY <2>1, <2>2
<1> QED
  BY <1>3, <1>4, <1>5, <1>6, <1>7 DEF ProviderInv

\* The last two of a list that has grown by one.
LEMMA LastTwoOf ==
  ASSUME NEW s \in Seq(Nat), Len(s) <= 2, NEW t \in Nat
  PROVE  /\ LastTwo(Append(s, t)) \in Seq(Nat)
         /\ Len(LastTwo(Append(s, t))) = IF s = <<>> THEN 1 ELSE 2
         /\ LastTwo(Append(s, t))[Len(LastTwo(Append(s, t)))] = t
         /\ s # <<>> => LastTwo(Append(s, t))[1] = s[Len(s)]
<1> DEFINE u == Append(s, t)
<1>1. u \in Seq(Nat) /\ Len(u) = Len(s) + 1 /\ Len(s) \in Nat /\ u[Len(s) + 1] = t
      /\ \A i \in 1 .. Len(s) : u[i] = s[i]
  OBVIOUS
<1>2. s = <<>> <=> Len(s) = 0
  OBVIOUS
<1> HIDE DEF u
<1>3. CASE Len(s) = 0
  <2>1. LastTwo(u) = SubSeq(u, 1, 1)
    BY <1>1, <1>3 DEF LastTwo, Most
  <2>2. SubSeq(u, 1, 1) \in Seq(Nat) /\ Len(SubSeq(u, 1, 1)) = 1 /\ SubSeq(u, 1, 1)[1] = u[1]
    BY <1>1, <1>3
  <2> QED
    BY <2>1, <2>2, <1>1, <1>2, <1>3 DEF u
<1>4. CASE Len(s) # 0
  <2> DEFINE n == Len(s)
  <2>0. n \in Nat /\ n # 0 /\ n <= 2 /\ Len(u) = n + 1
    BY <1>1, <1>4
  <2>9. Most(1, Len(u) - 1) = n
    BY <2>0 DEF Most
  <2>1. LastTwo(u) = SubSeq(u, n, n + 1)
    BY <2>0, <2>9 DEF LastTwo
  <2>2. /\ SubSeq(u, n, n + 1) \in Seq(Nat) /\ Len(SubSeq(u, n, n + 1)) = 2
        /\ SubSeq(u, n, n + 1)[1] = u[n] /\ SubSeq(u, n, n + 1)[2] = u[n + 1]
    BY <1>1, <1>4
  <2> QED
    BY <2>1, <2>2, <1>1, <1>2, <1>4 DEF u
<1> QED
  BY <1>3, <1>4

\* A first request leaves when the limiter lets it: no sooner than the interval after the
\* one before.
LEMMA ReleasedKeeps ==
  ASSUME ProviderInv, NEW c \in Caller, Released(c),
         call[c].pc \in {"limit", "spacing"},
         call[c].pc = "limit" => Holder = {},
         \A l \in lastRequest : Due(l) <= now,
         UNCHANGED <<kind, policy, now, edition, entry, memo, published>>
  PROVE  ProviderInv'
<1>1. /\ DOMAIN call = Caller /\ DOMAIN call[c] = CallFields
      /\ call' = [call EXCEPT ![c] = [call[c] EXCEPT !.pc = "sent", !.attempt = 1, !.until = 0]]
      /\ lastRequest' = {now} /\ firsts' = LastTwo(Append(firsts, now))
      /\ now \in Nat /\ firsts \in Seq(Nat) /\ Len(firsts) <= 2
  BY ProviderAssumption DEF ProviderInv, ProviderTypeOK, Released
<1>2. /\ DOMAIN call' = Caller
      /\ \A b \in Caller \ {c} : call'[b] = call[b]
      /\ DOMAIN call'[c] = CallFields
      /\ call'[c].pc = "sent" /\ call'[c].attempt = 1
      /\ call'[c].document = call[c].document /\ call'[c].since = call[c].since
      /\ call'[c].answer = call[c].answer
  BY <1>1 DEF CallFields
<1>3. kind = "place" /\ policy # "fixture"
  BY DEF ProviderInv, CallsAreHonest, LimiterIsExact
<1>4. /\ firsts' \in Seq(Nat)
      /\ Len(firsts') = IF firsts = <<>> THEN 1 ELSE 2
      /\ firsts'[Len(firsts')] = now
      /\ firsts # <<>> => firsts'[1] = firsts[Len(firsts)]
  BY <1>1, LastTwoOf
<1>5. \A b \in Caller : call'[b].pc # "spacing"
  <2>1. call[c].pc = "limit" => \A b \in Caller : call[b].pc # "spacing"
    BY DEF Holder
  <2>2. call[c].pc = "spacing" => \A b \in Caller \ {c} : call[b].pc # "spacing"
    BY DEF ProviderInv, LimiterIsExact
  <2> QED
    BY <2>1, <2>2, <1>2
<1>6. Len(firsts') = 2 => firsts'[2] - firsts'[1] >= Interval
  <2> SUFFICES ASSUME firsts # <<>> PROVE firsts'[2] - firsts'[1] >= Interval
    BY <1>4
  <2>1. lastRequest = {firsts[Len(firsts)]}
    BY <1>3 DEF ProviderInv, LimiterIsExact
  <2>2. Due(firsts[Len(firsts)]) <= now
    BY <2>1
  <2>3. firsts[Len(firsts)] \in Nat
    BY <1>1
  <2> QED
    BY <1>1, <1>4, <2>2, <2>3, ProviderAssumption DEF Due
<1>7. firsts' # <<>>
  BY <1>4
<1>8. LimiterIsExact'
  <2>1. \A b \in Caller : call'[b].pc = "limit" => kind' = "place"
    BY <1>3
  <2> QED
    BY <1>1, <1>3, <1>4, <1>5, <1>6, <1>7, <2>1 DEF LimiterIsExact
<1>9. MaxAttempts \in Nat \ {0}
  BY ProviderAssumption
<1> QED
  BY <1>1, <1>2, <1>3, <1>4, <1>8, <1>9, PhaseKeeps DEF Phase

LEMMA AcquireKeeps == ASSUME ProviderInv, NEW c \in Caller, Acquire(c) PROVE ProviderInv'
<1> DEFINE wait == {t \in {Due(l) : l \in lastRequest} : t > now}
<1>1. /\ call[c].pc = "limit" /\ Holder = {}
      /\ UNCHANGED <<kind, policy, now, edition, entry, memo, published>>
  BY DEF Acquire
<1>2. kind = "place" /\ policy # "fixture" /\ now \in Nat /\ lastRequest \subseteq Nat
      /\ DOMAIN call = Caller /\ DOMAIN call[c] = CallFields /\ firsts \in Seq(Nat) /\ Len(firsts) <= 2
  BY <1>1, ProviderAssumption DEF ProviderInv, ProviderTypeOK, CallsAreHonest, LimiterIsExact
<1>3. CASE wait = {}
  <2>1. Released(c)
    BY <1>3 DEF Acquire
  <2>2. ASSUME NEW l \in lastRequest PROVE Due(l) <= now
    <3>1. Due(l) \in Int /\ Due(l) \in {Due(k) : k \in lastRequest}
      BY <1>2, ProviderAssumption DEF Due
    <3>2. ~(Due(l) > now)
      BY <1>3, <3>1
    <3> QED
      BY <3>1, <3>2, <1>2
  <2> QED
    BY <1>1, <2>1, <2>2, ReleasedKeeps
<1>4. CASE wait # {}
  <2> DEFINE t == CHOOSE x \in wait : TRUE
  <2>1. /\ call' = [call EXCEPT ![c].pc = "spacing", ![c].until = t]
        /\ UNCHANGED <<lastRequest, firsts>>
    BY <1>4 DEF Acquire
  <2>2. /\ DOMAIN call' = Caller
        /\ \A b \in Caller \ {c} : call'[b] = call[b]
        /\ DOMAIN call'[c] = CallFields
        /\ call'[c].pc = "spacing" /\ call'[c].attempt = call[c].attempt /\ call'[c].until = t
        /\ call'[c].document = call[c].document /\ call'[c].since = call[c].since
        /\ call'[c].answer = call[c].answer
    <3> HIDE DEF t
    <3> QED
      BY <2>1, <1>2 DEF CallFields
  <2>3. firsts # <<>> /\ t = Due(firsts[Len(firsts)])
    <3>1. t \in wait
      BY <1>4
    <3>2. lastRequest = IF firsts = <<>> THEN {} ELSE {firsts[Len(firsts)]}
      BY <1>2 DEF ProviderInv, LimiterIsExact
    <3> HIDE DEF t
    <3> QED
      BY <3>1, <3>2
  <2> HIDE DEF t, wait
  <2>4. \A b \in Caller : call'[b].pc = "spacing" => b = c
    BY <2>2, <1>1 DEF Holder
  <2>5. LimiterIsExact'
    <3>1. /\ (policy = "fixture" => firsts = <<>>)'
          /\ \A b \in Caller : call'[b].pc \in {"limit", "spacing"} => kind' = "place"
      BY <1>1, <1>2
    <3>2. /\ lastRequest' = IF firsts' = <<>> THEN {} ELSE {firsts'[Len(firsts')]}
          /\ Len(firsts') = 2 => firsts'[2] - firsts'[1] >= Interval
      BY <2>1, <1>2 DEF ProviderInv, LimiterIsExact
    <3>3. \A b \in Caller : call'[b].pc = "spacing" =>
            firsts' # <<>> /\ call'[b].until = Due(firsts'[Len(firsts')])
      BY <2>1, <2>2, <2>3, <2>4
    <3> QED
      BY <3>1, <3>2, <3>3, <2>4 DEF LimiterIsExact, Due
  <2>6. call[c].attempt \in 0 .. MaxAttempts
    BY DEF ProviderInv, AttemptsAreBounded
  <2> QED
    BY <1>1, <1>2, <2>1, <2>2, <2>5, <2>6, PhaseKeeps DEF Phase
<1> QED
  BY <1>3, <1>4

LEMMA SpacingOverKeeps == ASSUME ProviderInv, NEW c \in Caller, SpacingOver(c) PROVE ProviderInv'
<1>1. /\ call[c].pc = "spacing" /\ now >= call[c].until /\ Released(c)
      /\ UNCHANGED <<kind, policy, now, edition, entry, memo, published>>
  BY DEF SpacingOver
<1>2. kind = "place"
  BY <1>1 DEF ProviderInv, LimiterIsExact
<1>3. firsts # <<>> /\ call[c].until = Due(firsts[Len(firsts)]) /\ lastRequest = {firsts[Len(firsts)]}
  BY <1>1, <1>2 DEF ProviderInv, LimiterIsExact
<1>4. firsts[Len(firsts)] \in Nat /\ now \in Nat
  BY <1>3, ProviderAssumption DEF ProviderInv, ProviderTypeOK
<1>5. \A l \in lastRequest : Due(l) <= now
  BY <1>1, <1>3, <1>4, ProviderAssumption DEF Due
<1> QED
  BY <1>1, <1>5, ReleasedKeeps

\* A step outside the limiter.
LEMMA LimiterStays ==
  ASSUME ProviderInv, NEW c \in Caller, \A b \in Caller \ {c} : call'[b] = call[b],
         call'[c].pc \notin {"limit", "spacing"},
         UNCHANGED <<kind, policy, lastRequest, firsts>>
  PROVE  LimiterIsExact'
<1>1. \A b \in Caller : call'[b].pc \in {"limit", "spacing"} => b # c /\ call'[b] = call[b]
  OBVIOUS
<1> QED
  BY <1>1 DEF ProviderInv, LimiterIsExact, Due

LEMMA RetryKeeps == ASSUME ProviderInv, NEW c \in Caller, Retry(c) PROVE ProviderInv'
<1>1. /\ call[c].pc = "backoff"
      /\ call' = [call EXCEPT ![c] = [call[c] EXCEPT !.pc = "sent", !.attempt = call[c].attempt + 1, !.until = 0]]
      /\ UNCHANGED <<kind, policy, now, edition, entry, memo, lastRequest, published, firsts>>
  BY DEF Retry
<1>2. /\ DOMAIN call = Caller /\ DOMAIN call[c] = CallFields
      /\ call[c].attempt \in 0 .. MaxAttempts /\ call[c].attempt # MaxAttempts
      /\ policy # "fixture" /\ lastRequest \subseteq Nat /\ firsts \in Seq(Nat) /\ Len(firsts) <= 2
  BY <1>1 DEF ProviderInv, ProviderTypeOK, AttemptsAreBounded, CallsAreHonest
<1>3. /\ DOMAIN call' = Caller
      /\ \A b \in Caller \ {c} : call'[b] = call[b]
      /\ DOMAIN call'[c] = CallFields
      /\ call'[c].pc = "sent" /\ call'[c].attempt = call[c].attempt + 1
      /\ call'[c].document = call[c].document /\ call'[c].since = call[c].since
      /\ call'[c].answer = call[c].answer
  BY <1>1, <1>2 DEF CallFields
<1>4. call'[c].attempt \in 0 .. MaxAttempts
  BY <1>2, <1>3, ProviderAssumption
<1>5. LimiterIsExact'
  BY <1>1, <1>3, LimiterStays
<1> QED
  BY <1>1, <1>2, <1>3, <1>4, <1>5, PhaseKeeps DEF Phase

LEMMA FailAttemptKeeps == ASSUME ProviderInv, NEW c \in Caller, FailAttempt(c) PROVE ProviderInv'
<1>1. /\ call[c].pc = "sent"
      /\ UNCHANGED <<kind, policy, now, edition, entry, lastRequest, published, firsts>>
  BY DEF FailAttempt
<1>2. PICK failure \in Failures, demanded \in RetryAfter :
        IF failure \in Retried /\ call[c].attempt < MaxAttempts
        THEN /\ call' = [call EXCEPT ![c].pc = "backoff",
                                     ![c].until = now + Delay(call[c].attempt, failure, demanded)]
             /\ UNCHANGED memo
        ELSE GiveUp(c, StatusError(failure))
  BY DEF FailAttempt
<1>3. CASE failure \in Retried /\ call[c].attempt < MaxAttempts
  <2> DEFINE until == now + Delay(call[c].attempt, failure, demanded)
  <2>1. call' = [call EXCEPT ![c].pc = "backoff", ![c].until = until] /\ UNCHANGED memo
    BY <1>2, <1>3
  <2> HIDE DEF until
  <2>2. /\ DOMAIN call = Caller /\ DOMAIN call[c] = CallFields
        /\ call[c].attempt \in 0 .. MaxAttempts
        /\ policy # "fixture" /\ lastRequest \subseteq Nat /\ firsts \in Seq(Nat) /\ Len(firsts) <= 2
    BY <1>1 DEF ProviderInv, ProviderTypeOK, AttemptsAreBounded, CallsAreHonest
  <2>3. /\ DOMAIN call' = Caller
        /\ \A b \in Caller \ {c} : call'[b] = call[b]
        /\ DOMAIN call'[c] = CallFields
        /\ call'[c].pc = "backoff" /\ call'[c].attempt = call[c].attempt
        /\ call'[c].document = call[c].document /\ call'[c].since = call[c].since
        /\ call'[c].answer = call[c].answer
    BY <2>1, <2>2 DEF CallFields
  <2>4. LimiterIsExact'
    BY <1>1, <2>3, LimiterStays
  <2> QED
    <3>1. call[c].attempt # MaxAttempts
      BY <1>3, <2>2, ProviderAssumption
    <3> QED
      BY <1>1, <2>1, <2>2, <2>3, <2>4, <3>1, PhaseKeeps DEF Phase
<1>4. CASE ~(failure \in Retried /\ call[c].attempt < MaxAttempts)
  BY <1>1, <1>2, <1>4, GiveUpKeeps
<1> QED
  BY <1>3, <1>4


LEMMA AskKeeps == ASSUME ProviderInv, NEW c \in Caller, Ask(c) PROVE ProviderInv'
<1> DEFINE young == {m \in memo : now - m.fetched < MemoTime}
           pc == IF policy = "fixture" \/ young # {} THEN "done"
                 ELSE IF kind = "place" THEN "limit" ELSE "sent"
           answer(d) == IF pc # "done" THEN {} ELSE IF young # {} THEN young ELSE {FixtureAnswer(d)}
<1>1. call[c].pc \in {"idle", "done"} /\ UNCHANGED <<kind, policy, now, edition, entry, lastRequest, published>>
  BY DEF Ask
<1>2. PICK d \in Document :
        /\ kind = "stations" => d = Stations
        /\ call' = [call EXCEPT ![c] = [[Idle EXCEPT !.document = d, !.since = now] EXCEPT
              !.pc = pc, !.attempt = Cardinality({pc} \cap {"sent"}), !.answer = answer(d)]]
        /\ memo' = IF kind = "stations" /\ pc = "done" THEN call'[c].answer ELSE memo
        /\ firsts' = IF pc = "sent" THEN LastTwo(Append(firsts, now)) ELSE firsts
  BY DEF Ask, Stations
<1>3. Cardinality({pc} \cap {"sent"}) \in 0 .. 1
  <2>1. CASE pc = "sent"
    <3>1. {pc} \cap {"sent"} = {"sent"}
      BY <2>1
    <3> QED
      BY <3>1, FS_Singleton
  <2>2. CASE pc # "sent"
    <3>1. {pc} \cap {"sent"} = {}
      BY <2>2
    <3> QED
      BY <3>1, FS_EmptySet
  <2> QED
    BY <2>1, <2>2
<1>4. /\ DOMAIN call = Caller /\ now \in Nat /\ firsts \in Seq(Nat) /\ Len(firsts) <= 2
      /\ lastRequest \subseteq Nat /\ MaxAttempts \in Nat \ {0}
  BY ProviderAssumption DEF ProviderInv, ProviderTypeOK
<1>5. pc \in {"done", "limit", "sent"} /\ (pc = "limit" => kind = "place") /\ (policy = "fixture" => pc = "done")
      /\ (pc = "sent" => kind # "place")
  OBVIOUS
<1>6. \A m \in young : Honest(m, Stations) /\ kind = "stations" /\ Timely(m, now)
  BY DEF ProviderInv, CachesAreDated, Timely
<1>7. policy = "fixture" => Honest(FixtureAnswer(d), d) /\ Timely(FixtureAnswer(d), now)
                            /\ (kind = "stations" => FixtureAnswer(d).mode = "fixture")
  <2>1. \A error : Raised(error).mode = "raised"
    BY DEF Raised
  <2>2. \A mode, n, t : Answer(mode, n, t).mode = mode
    BY DEF Answer
  <2>3. FixtureAnswer(d).mode \in {"fixture", "raised"} /\ (kind = "stations" => FixtureAnswer(d).mode = "fixture")
    BY <2>1, <2>2 DEF FixtureAnswer
  <2> QED
    BY <2>3 DEF Honest, Timely
<1>8. \A a \in answer(d) : Honest(a, d) /\ Timely(a, now)
  BY <1>2, <1>6, <1>7
<1> HIDE DEF pc, answer, young
<1>9. /\ DOMAIN call' = Caller
      /\ \A b \in Caller \ {c} : call'[b] = call[b]
      /\ DOMAIN call'[c] = CallFields
      /\ call'[c].pc = pc /\ call'[c].attempt = Cardinality({pc} \cap {"sent"})
      /\ call'[c].document = d /\ call'[c].since = now /\ call'[c].answer = answer(d)
  BY <1>2, <1>4 DEF Idle, CallFields
<1>10. \A a, b : (Honest(a, b))' <=> Honest(a, b)
  BY <1>1 DEF Honest, Dated
<1>11. \A a, s : (Timely(a, s))' <=> Timely(a, s)
  BY <1>1 DEF Timely
<1>12. firsts' \in Seq(Nat) /\ Len(firsts') <= 2
  BY <1>2, <1>4, LastTwoOf
<1>13. ProviderTypeOK'
  <2>1. \A b \in Caller : /\ DOMAIN call'[b] = CallFields
                          /\ call'[b].pc \in Phase
                          /\ call'[b].since \in 0 .. now
    BY <1>3, <1>4, <1>5, <1>9 DEF ProviderInv, ProviderTypeOK, Phase
  <2> QED
    BY <1>1, <1>9, <1>12, <2>1 DEF ProviderInv, ProviderTypeOK
<1>18. AttemptsAreBounded'
  BY <1>3, <1>4, <1>5, <1>9 DEF ProviderInv, AttemptsAreBounded
<1>14. CurrentIsPublished'
  BY <1>1 DEF ProviderInv, CurrentIsPublished
<1>15. CachesAreDated'
  <2>1. \A b \in Document : \A e \in entry'[b] :
          e.at \in 0 .. now' /\ (Dated(b, e.edition.number, e.at))'
    BY <1>1 DEF ProviderInv, CachesAreDated, Dated
  <2>2. \A m \in memo' : kind' = "stations" /\ (Honest(m, Stations))'
    <3>1. CASE kind = "stations" /\ pc = "done"
      BY <3>1, <1>1, <1>2, <1>8, <1>9, <1>10 DEF Stations
    <3>2. CASE ~(kind = "stations" /\ pc = "done")
      BY <3>2, <1>1, <1>2, <1>10 DEF ProviderInv, CachesAreDated, Stations
    <3> QED
      BY <3>1, <3>2
  <2> QED
    BY <2>1, <2>2 DEF CachesAreDated, Stations
<1>16. CallsAreHonest'
  <2> SUFFICES ASSUME NEW b \in Caller
               PROVE  /\ call'[b].pc = "idle" => call'[b].answer = {}
                      /\ call'[b].pc # "idle" =>
                           /\ call'[b].document \in Document
                           /\ (kind = "stations" => call'[b].document = Stations)
                      /\ policy = "fixture" => call'[b].pc \in {"idle", "done"}
                      /\ \A a \in call'[b].answer :
                           /\ Honest(a, call'[b].document)
                           /\ Timely(a, call'[b].since)
    BY <1>1, <1>10, <1>11 DEF CallsAreHonest, Stations
  <2>1. CASE b = c
    BY <2>1, <1>2, <1>5, <1>8, <1>9
  <2>2. CASE b # c
    BY <2>2, <1>9 DEF ProviderInv, CallsAreHonest
  <2> QED
    BY <2>1, <2>2
<1>17. LimiterIsExact'
  <2>1. \A b \in Caller : call'[b].pc = "spacing" => b # c /\ call'[b] = call[b]
    BY <1>5, <1>9
  <2>2. policy = "fixture" => firsts' = <<>>
    BY <1>2, <1>5 DEF ProviderInv, LimiterIsExact
  <2>3. kind = "place" => firsts' = firsts
    BY <1>2, <1>5
  <2>4. \A b \in Caller : call'[b].pc \in {"limit", "spacing"} => kind = "place"
    BY <1>5, <1>9 DEF ProviderInv, LimiterIsExact
  <2> QED
    BY <1>1, <2>1, <2>2, <2>3, <2>4 DEF ProviderInv, LimiterIsExact, Due
<1> QED
  BY <1>13, <1>14, <1>15, <1>16, <1>17, <1>18 DEF ProviderInv

\* What was published at a date stays published at it.
LEMMA PublishedStays ==
  ASSUME ProviderInv, NEW d \in Document, NEW sort \in Sorts,
         published' = {[p EXCEPT !.to = IF p.document = d /\ p.edition = edition[d].number
                                        THEN now ELSE @] : p \in published}
                        \cup {[document |-> d, edition |-> edition[d].number + 1, from |-> now, to |-> MaxNow]},
         NEW e, NEW n, NEW t \in 0 .. now, Dated(e, n, t)
  PROVE  (Dated(e, n, t))'
<1>1. PICK p \in published : p.document = e /\ p.edition = n /\ p.from <= t /\ t <= p.to
  BY DEF Dated
<1> DEFINE q == [p EXCEPT !.to = IF p.document = d /\ p.edition = edition[d].number THEN now ELSE @]
<1>2. q \in published'
  OBVIOUS
<1>3. p \in [document : Document, edition : Nat, from : Nat, to : Nat] /\ now \in Nat
  BY ProviderAssumption DEF ProviderInv, ProviderTypeOK
<1>4. q.document = e /\ q.edition = n /\ q.from <= t /\ t <= q.to
  BY <1>1, <1>3
<1> HIDE DEF q
<1> QED
  BY <1>2, <1>4 DEF Dated

\* A step of the world leaves every answer and every cached response what it was.
LEMMA WorldKeeps ==
  ASSUME ProviderInv, now' \in 0 .. MaxNow, now <= now',
         \A e, n : \A t \in 0 .. now : Dated(e, n, t) => (Dated(e, n, t))',
         UNCHANGED <<kind, policy, entry, memo, lastRequest, call, firsts>>,
         edition' \in [Document -> [number : Nat, sort : Sorts]],
         published' \subseteq [document : Document, edition : Nat, from : Nat, to : Nat],
         CurrentIsPublished'
  PROVE  ProviderInv'
<1>1. now \in Nat /\ now' \in Nat /\ 0 .. now \subseteq 0 .. now'
  BY ProviderAssumption DEF ProviderInv, ProviderTypeOK
<1>2. \A a, d : Honest(a, d) => (Honest(a, d))'
  BY <1>1 DEF Honest
<1>3. \A a, s : (Timely(a, s))' <=> Timely(a, s)
  BY DEF Timely
<1>4. ProviderTypeOK'
  BY <1>1 DEF ProviderInv, ProviderTypeOK
<1>5. AttemptsAreBounded'
  BY DEF ProviderInv, AttemptsAreBounded
<1>6. CachesAreDated'
  <2>1. \A d \in Document : \A e \in entry[d] : e.at \in 0 .. now' /\ (Dated(d, e.edition.number, e.at))'
    BY <1>1 DEF ProviderInv, CachesAreDated
  <2>2. \A m \in memo : kind = "stations" /\ (Honest(m, Stations))'
    BY <1>2 DEF ProviderInv, CachesAreDated, Stations
  <2> QED
    BY <2>1, <2>2 DEF CachesAreDated, Stations
<1>7. CallsAreHonest'
  <2> SUFFICES ASSUME NEW c \in Caller
               PROVE  /\ call[c].pc = "idle" => call[c].answer = {}
                      /\ call[c].pc # "idle" =>
                           /\ call[c].document \in Document
                           /\ (kind = "stations" => call[c].document = Stations)
                      /\ policy = "fixture" => call[c].pc \in {"idle", "done"}
                      /\ \A a \in call[c].answer :
                           /\ (Honest(a, call[c].document))'
                           /\ (Timely(a, call[c].since))'
    BY DEF CallsAreHonest, Stations
  <2>1. call' = call
    OBVIOUS
  <2> QED
    BY <2>1, <1>2, <1>3 DEF ProviderInv, CallsAreHonest
<1>8. LimiterIsExact'
  BY DEF ProviderInv, LimiterIsExact, Due
<1> QED
  BY <1>4, <1>5, <1>6, <1>7, <1>8 DEF ProviderInv

LEMMA PublishKeeps == ASSUME ProviderInv, Publish PROVE ProviderInv'
<1>1. PICK d \in Document, sort \in Sorts :
        /\ edition' = [edition EXCEPT ![d] = [number |-> edition[d].number + 1, sort |-> sort]]
        /\ published' = {[p EXCEPT !.to = IF p.document = d /\ p.edition = edition[d].number
                                          THEN now ELSE @] : p \in published}
                          \cup {[document |-> d, edition |-> edition[d].number + 1, from |-> now, to |-> MaxNow]}
        /\ UNCHANGED <<kind, policy, now, entry, memo, lastRequest, call, firsts>>
  BY DEF Publish
<1>2. /\ now \in Nat /\ MaxNow \in Nat /\ now \in 0 .. MaxNow
      /\ edition \in [Document -> [number : Nat, sort : Sorts]]
      /\ published \subseteq [document : Document, edition : Nat, from : Nat, to : Nat]
  BY ProviderAssumption DEF ProviderInv, ProviderTypeOK
<1>3. \A e, n : \A t \in 0 .. now : Dated(e, n, t) => (Dated(e, n, t))'
  BY <1>1, PublishedStays
<1>4. edition' \in [Document -> [number : Nat, sort : Sorts]]
  BY <1>1, <1>2
<1> DEFINE q(p) == [p EXCEPT !.to = IF p.document = d /\ p.edition = edition[d].number THEN now ELSE @]
           new == [document |-> d, edition |-> edition[d].number + 1, from |-> now, to |-> MaxNow]
<1>5. \A p \in published : /\ q(p) \in [document : Document, edition : Nat, from : Nat, to : Nat]
                           /\ q(p).document = p.document /\ q(p).edition = p.edition /\ q(p).from = p.from
                           /\ ~(p.document = d /\ p.edition = edition[d].number) => q(p).to = p.to
  BY <1>2
<1>6. /\ new \in [document : Document, edition : Nat, from : Nat, to : Nat]
      /\ new.document = d /\ new.edition = edition[d].number + 1 /\ new.from = now /\ new.to = MaxNow
  BY <1>2
<1>7. published' = {q(p) : p \in published} \cup {new}
  BY <1>1
<1> HIDE DEF q, new
<1>8. published' \subseteq [document : Document, edition : Nat, from : Nat, to : Nat]
  BY <1>5, <1>6, <1>7
<1>9. CurrentIsPublished'
  <2> SUFFICES ASSUME NEW e \in Document
               PROVE  \E p \in published' : /\ p.document = e /\ p.edition = edition'[e].number
                                            /\ p.from <= now /\ p.to = MaxNow
    BY <1>1 DEF CurrentIsPublished
  <2>1. CASE e = d
    <3>1. edition'[d].number = edition[d].number + 1
      BY <1>1, <1>2
    <3> QED
      BY <2>1, <3>1, <1>2, <1>6, <1>7
  <2>2. CASE e # d
    <3>1. PICK p \in published : p.document = e /\ p.edition = edition[e].number /\ p.from <= now /\ p.to = MaxNow
      BY DEF ProviderInv, CurrentIsPublished
    <3>2. edition'[e] = edition[e]
      BY <1>1, <1>2, <2>2
    <3> QED
      BY <2>2, <3>1, <3>2, <1>5, <1>7
  <2> QED
    BY <2>1, <2>2
<1>10. now' \in 0 .. MaxNow /\ now <= now'
  BY <1>1, <1>2
<1> QED
  BY <1>1, <1>3, <1>4, <1>8, <1>9, <1>10, WorldKeeps

LEMMA PassKeeps == ASSUME ProviderInv, Pass PROVE ProviderInv'
<1>1. /\ now < MaxNow /\ now' = now + 1
      /\ UNCHANGED <<kind, policy, edition, entry, memo, lastRequest, call, published, firsts>>
  BY DEF Pass
<1>2. /\ now \in Nat /\ MaxNow \in Nat /\ now \in 0 .. MaxNow
      /\ edition \in [Document -> [number : Nat, sort : Sorts]]
      /\ published \subseteq [document : Document, edition : Nat, from : Nat, to : Nat]
  BY ProviderAssumption DEF ProviderInv, ProviderTypeOK
<1>3. \A e, n : \A t \in 0 .. now : Dated(e, n, t) => (Dated(e, n, t))'
  BY <1>1 DEF Dated
<1>4. now' \in 0 .. MaxNow /\ now <= now'
  BY <1>1, <1>2
<1>5. CurrentIsPublished'
  <2> SUFFICES ASSUME NEW e \in Document
               PROVE  \E p \in published : /\ p.document = e /\ p.edition = edition[e].number
                                           /\ p.from <= now + 1 /\ p.to = MaxNow
    BY <1>1 DEF CurrentIsPublished
  <2>1. PICK p \in published : p.document = e /\ p.edition = edition[e].number /\ p.from <= now /\ p.to = MaxNow
    BY DEF ProviderInv, CurrentIsPublished
  <2> QED
    BY <2>1, <1>2
<1> QED
  BY <1>1, <1>2, <1>3, <1>4, <1>5, WorldKeeps

LEMMA ProviderInvNext == ProviderInv /\ [ProviderNext]_providerVars => ProviderInv'
<1> SUFFICES ASSUME ProviderInv, [ProviderNext]_providerVars PROVE ProviderInv'
  OBVIOUS
<1>1. ASSUME NEW c \in Caller, Ask(c) PROVE ProviderInv'
  BY <1>1, AskKeeps
<1>2. ASSUME NEW c \in Caller, Acquire(c) PROVE ProviderInv'
  BY <1>2, AcquireKeeps
<1>3. ASSUME NEW c \in Caller, SpacingOver(c) PROVE ProviderInv'
  BY <1>3, SpacingOverKeeps
<1>4. ASSUME NEW c \in Caller, Retry(c) PROVE ProviderInv'
  BY <1>4, RetryKeeps
<1>5. ASSUME NEW c \in Caller, Receive(c) PROVE ProviderInv'
  BY <1>5, ReceiveKeeps
<1>6. ASSUME NEW c \in Caller, FailAttempt(c) PROVE ProviderInv'
  BY <1>6, FailAttemptKeeps
<1>7. CASE Publish
  BY <1>7, PublishKeeps
<1>8. CASE Pass
  BY <1>8, PassKeeps
<1>9. CASE UNCHANGED providerVars
  <2>1. UNCHANGED <<kind, policy, now, edition, entry, memo, lastRequest, call, published, firsts>>
    BY <1>9 DEF providerVars
  <2>2. now' \in 0 .. MaxNow /\ now <= now'
    BY <2>1, ProviderAssumption DEF ProviderInv, ProviderTypeOK
  <2>3. \A e, n : \A t \in 0 .. now : Dated(e, n, t) => (Dated(e, n, t))'
    BY <2>1 DEF Dated
  <2>4. CurrentIsPublished'
    BY <2>1 DEF ProviderInv, CurrentIsPublished
  <2>5. /\ edition' \in [Document -> [number : Nat, sort : Sorts]]
        /\ published' \subseteq [document : Document, edition : Nat, from : Nat, to : Nat]
    BY <2>1 DEF ProviderInv, ProviderTypeOK
  <2> QED
    BY <2>1, <2>2, <2>3, <2>4, <2>5, WorldKeeps
<1> QED
  BY <1>1, <1>2, <1>3, <1>4, <1>5, <1>6, <1>7, <1>8, <1>9 DEF ProviderNext

LEMMA ProviderInvHolds == ProviderInv => ProvidersHold
<1> SUFFICES ASSUME ProviderInv PROVE AnswersAreHonest /\ RequestsAreSpaced
  BY DEF ProvidersHold
<1>1. AnswersAreHonest
  <2> SUFFICES ASSUME NEW c \in Caller, NEW a \in call[c].answer
               PROVE  /\ a.mode \in {"live", "cache"} /\ kind # "product" =>
                           \E p \in published : /\ p.document = call[c].document /\ p.edition = a.edition
                                                /\ p.from <= a.fetched /\ a.fetched <= p.to
                      /\ a.mode = "live" => \/ a.fetched >= call[c].since
                                            \/ kind = "stations" /\ call[c].since - a.fetched < MemoTime
                      /\ policy = "live" => a.mode \in {"live", "raised"} \/ kind = "product"
                      /\ policy = "fixture" => a.mode \notin {"live", "cache"} /\ firsts = <<>>
    BY DEF AnswersAreHonest
  <2>1. Honest(a, call[c].document) /\ Timely(a, call[c].since)
    BY DEF ProviderInv, CallsAreHonest
  <2>2. policy = "fixture" => firsts = <<>>
    BY DEF ProviderInv, LimiterIsExact
  <2> QED
    BY <2>1, <2>2 DEF Honest, Timely, Dated
<1>2. RequestsAreSpaced
  BY DEF ProviderInv, LimiterIsExact, RequestsAreSpaced
<1> QED
  BY <1>1, <1>2

-----------------------------------------------------------------------------
(* The training file and its sidecar *)

ParquetFile == [by : Nat, whole : BOOLEAN]

CommandPc == {"writing", "hashing", "claim", "claiming", "done", "dead"}

Generating == [kind : {"physics_sweep", "simulator"}, pc : CommandPc, hash : ParquetFile \cup {Nothing}]

FilesTypeOK ==
  /\ commands \in Seq(Generating)
  /\ parquet \in ParquetFile \cup {Nothing}
  /\ claim \in [hash : ParquetFile, whole : BOOLEAN] \cup {Nothing}
  /\ training \in [pc : {"idle", "hash", "compare", "described"}, loaded : Nat \cup {Nothing},
                   hash : ParquetFile \cup {Nothing}, source : {"none", "unknown", "physics_sweep"}]

NewestCommand == Len(commands)

\* Only the newest command writes, and none while a training reads.
OneAtATime == /\ \A n \in DOMAIN commands : n # NewestCommand => commands[n].pc \in {"done", "dead"}
              /\ UnderWay => \A n \in DOMAIN commands : commands[n].pc \in {"done", "dead"}

\* The file is that of the newest command, and whole once that has closed it.
FileIsNewest ==
  /\ NewestCommand = 0 => parquet = Nothing
  /\ NewestCommand > 0 =>
    /\ parquet # Nothing /\ parquet.by = NewestCommand
    /\ commands[NewestCommand].pc \in {"hashing", "claim", "claiming", "done"} => parquet.whole
    /\ commands[NewestCommand].pc \in {"hashing", "claim", "claiming"} =>
         commands[NewestCommand].kind = "physics_sweep"
    /\ commands[NewestCommand].pc \in {"claim", "claiming"} => commands[NewestCommand].hash = parquet

\* The sidecar is of some sweep's file: of the newest command's, if that is a sweep that
\* has come to it.
ClaimIsOfSweep ==
  /\ claim # Nothing =>
       claim.hash.by \in DOMAIN commands /\ commands[claim.hash.by].kind = "physics_sweep"
  /\ NewestCommand > 0 /\ commands[NewestCommand].kind = "physics_sweep" =>
       /\ commands[NewestCommand].pc \in {"claiming", "done"} => claim # Nothing /\ claim.hash = parquet
       /\ commands[NewestCommand].pc = "done" => claim.whole

\* A training has loaded a file nobody writes any more, and judges it as it is.
TrainingIsOfFile ==
  /\ training.pc # "idle" =>
       training.loaded \in DOMAIN commands /\ commands[training.loaded].pc \in {"done", "dead"}
  /\ UnderWay => training.loaded = NewestCommand /\ parquet # Nothing /\ parquet.whole
  /\ training.pc = "compare" => training.hash = parquet
  /\ training.pc = "described" =>
       /\ training.source = "physics_sweep" => commands[training.loaded].kind = "physics_sweep"
       /\ commands[training.loaded].kind = "physics_sweep" /\ commands[training.loaded].pc = "done" =>
            training.source = "physics_sweep"

FilesInv ==
  /\ crossed \in BOOLEAN
  /\ crossed \/ (FilesTypeOK /\ OneAtATime /\ FileIsNewest /\ ClaimIsOfSweep /\ TrainingIsOfFile)

FilesOK == FilesTypeOK /\ OneAtATime /\ FileIsNewest /\ ClaimIsOfSweep /\ TrainingIsOfFile

LEMMA FilesInvInit == FilesInit => FilesInv
<1> SUFFICES ASSUME FilesInit PROVE FilesInv
  OBVIOUS
<1>1. commands \in Seq(Generating) /\ Len(commands) = 0 /\ DOMAIN commands = {}
  BY DEF FilesInit
<1>2. FilesTypeOK
  BY <1>1 DEF FilesInit, FilesTypeOK, NoTraining
<1>3. training.pc = "idle"
  BY DEF FilesInit, NoTraining
<1>4. OneAtATime /\ FileIsNewest /\ TrainingIsOfFile
  BY <1>1, <1>3 DEF FilesInit, OneAtATime, FileIsNewest, TrainingIsOfFile, NewestCommand, UnderWay
<1>5. ClaimIsOfSweep
  BY <1>1 DEF FilesInit, ClaimIsOfSweep, NewestCommand
<1>6. crossed \in BOOLEAN
  BY DEF FilesInit
<1> QED
  BY <1>2, <1>4, <1>5, <1>6 DEF FilesInv

\* A step of the command that writes: it is the newest one, and no training has to do with
\* its file.
LEMMA NewestSteps ==
  ASSUME FilesOK, NEW n \in Writing, n \in DOMAIN commands, NEW g \in Generating,
         commands' = [commands EXCEPT ![n] = g], g.kind = commands[n].kind,
         parquet' \in ParquetFile \cup {Nothing},
         claim' \in [hash : ParquetFile, whole : BOOLEAN] \cup {Nothing},
         UNCHANGED training
  PROVE  /\ n = NewestCommand /\ n > 0 /\ NewestCommand' = n
         /\ DOMAIN commands' = DOMAIN commands /\ commands'[n] = g
         /\ \A m \in DOMAIN commands : m # n => commands'[m] = commands[m]
         /\ \A m \in DOMAIN commands : commands'[m].kind = commands[m].kind
         /\ FilesTypeOK' /\ OneAtATime' /\ TrainingIsOfFile'
<1>1. /\ commands \in Seq(Generating) /\ commands[n].pc \notin {"done", "dead"}
      /\ DOMAIN commands = 1 .. Len(commands) /\ Len(commands) \in Nat
  BY DEF FilesOK, FilesTypeOK, Writing
<1>2. n = NewestCommand /\ n > 0 /\ ~UnderWay
  BY <1>1 DEF FilesOK, OneAtATime, NewestCommand
<1>3. /\ commands' \in Seq(Generating) /\ Len(commands') = Len(commands)
      /\ DOMAIN commands' = DOMAIN commands /\ commands'[n] = g
      /\ \A m \in DOMAIN commands : m # n => commands'[m] = commands[m]
  BY <1>1
<1>4. NewestCommand' = n
  BY <1>2, <1>3 DEF NewestCommand
<1>5. FilesTypeOK'
  BY <1>3 DEF FilesOK, FilesTypeOK
<1>6. OneAtATime'
  BY <1>2, <1>3, <1>4 DEF FilesOK, OneAtATime, UnderWay
<1>7. TrainingIsOfFile'
  <2>1. training.pc # "idle" => training.loaded \in DOMAIN commands /\ training.loaded # n
    BY <1>1 DEF FilesOK, TrainingIsOfFile
  <2>2. training.pc # "compare"
    BY <1>2 DEF UnderWay
  <2> QED
    BY <1>2, <1>3, <2>1, <2>2 DEF FilesOK, TrainingIsOfFile, UnderWay
<1> QED
  BY <1>2, <1>3, <1>4, <1>5, <1>6, <1>7

\* A command that closes its file, or dies, and leaves the sidecar alone.
LEMMA ClosesParquetKeeps ==
  ASSUME FilesOK, NEW n \in Writing, n \in DOMAIN commands, ClosesParquet(n)
  PROVE  FilesOK'
<1> DEFINE pc == IF commands[n].kind = "physics_sweep" THEN "hashing" ELSE "done"
           g == [commands[n] EXCEPT !.pc = pc]
<1>1. /\ commands[n].pc = "writing" /\ commands[n] \in Generating
      /\ commands' = [commands EXCEPT ![n] = g] /\ UNCHANGED <<claim, training>>
  BY DEF ClosesParquet, GoesOn, FilesOK, FilesTypeOK
<1>2. PICK whole \in IF \E m \in Writing \ {n} : commands[m].pc = "writing" THEN BOOLEAN ELSE {TRUE} :
        parquet' = [by |-> n, whole |-> whole]
  BY DEF ClosesParquet
<1>3. whole = TRUE
  BY DEF FilesOK, OneAtATime, Writing
<1>4. n \in Nat
  BY DEF FilesOK, FilesTypeOK
<1>5. parquet' = [by |-> n, whole |-> TRUE] /\ parquet' \in ParquetFile /\ parquet'.by = n /\ parquet'.whole
  BY <1>2, <1>3, <1>4 DEF ParquetFile
<1>6. g \in Generating /\ g.kind = commands[n].kind /\ g.pc = pc
  BY <1>1 DEF Generating, CommandPc
<1>7. claim' \in [hash : ParquetFile, whole : BOOLEAN] \cup {Nothing}
  BY <1>1 DEF FilesOK, FilesTypeOK
<1> HIDE DEF g
<1>8. /\ n = NewestCommand /\ n > 0 /\ NewestCommand' = n
      /\ DOMAIN commands' = DOMAIN commands /\ commands'[n] = g
      /\ \A m \in DOMAIN commands : m # n => commands'[m] = commands[m]
      /\ \A m \in DOMAIN commands : commands'[m].kind = commands[m].kind
      /\ FilesTypeOK' /\ OneAtATime' /\ TrainingIsOfFile'
  BY <1>1, <1>5, <1>6, <1>7, NewestSteps
<1>9. FileIsNewest'
  <2>1. parquet' # Nothing
    BY <1>5, FilesAssumption DEF ParquetFile
  <2> QED
    BY <1>5, <1>6, <1>8, <2>1 DEF FileIsNewest
<1>10. ClaimIsOfSweep'
  <2>1. commands'[n].kind = "physics_sweep" => commands'[n].pc = "hashing"
    BY <1>6, <1>8
  <2> QED
    BY <1>1, <1>8, <2>1 DEF FilesOK, ClaimIsOfSweep
<1> QED
  BY <1>8, <1>9, <1>10 DEF FilesOK

LEMMA HashesParquetKeeps ==
  ASSUME FilesOK, NEW n \in Writing, n \in DOMAIN commands, HashesParquet(n)
  PROVE  FilesOK'
<1> DEFINE g == [commands[n] EXCEPT !.pc = "claim", !.hash = parquet]
<1>1. /\ commands[n].pc = "hashing" /\ commands[n] \in Generating
      /\ commands' = [commands EXCEPT ![n] = g] /\ UNCHANGED <<parquet, claim, training>>
  BY DEF HashesParquet, FilesOK, FilesTypeOK
<1>2. g \in Generating /\ g.kind = commands[n].kind /\ g.pc = "claim" /\ g.hash = parquet
  BY <1>1 DEF Generating, CommandPc, FilesOK, FilesTypeOK
<1>3. /\ parquet' \in ParquetFile \cup {Nothing}
      /\ claim' \in [hash : ParquetFile, whole : BOOLEAN] \cup {Nothing}
  BY <1>1 DEF FilesOK, FilesTypeOK
<1> HIDE DEF g
<1>4. /\ n = NewestCommand /\ n > 0 /\ NewestCommand' = n
      /\ DOMAIN commands' = DOMAIN commands /\ commands'[n] = g
      /\ \A m \in DOMAIN commands : commands'[m].kind = commands[m].kind
      /\ FilesTypeOK' /\ OneAtATime' /\ TrainingIsOfFile'
  BY <1>1, <1>2, <1>3, NewestSteps
<1>5. FileIsNewest'
  BY <1>1, <1>2, <1>4 DEF FilesOK, FileIsNewest
<1>6. ClaimIsOfSweep'
  BY <1>1, <1>2, <1>4 DEF FilesOK, ClaimIsOfSweep
<1> QED
  BY <1>4, <1>5, <1>6 DEF FilesOK

LEMMA OpensClaimKeeps ==
  ASSUME FilesOK, NEW n \in Writing, n \in DOMAIN commands, OpensClaim(n)
  PROVE  FilesOK'
<1> DEFINE g == [commands[n] EXCEPT !.pc = "claiming"]
<1>1. /\ commands[n].pc = "claim" /\ commands[n] \in Generating
      /\ commands' = [commands EXCEPT ![n] = g] /\ UNCHANGED <<parquet, training>>
      /\ claim' = [hash |-> commands[n].hash, whole |-> FALSE]
  BY DEF OpensClaim, GoesOn, FilesOK, FilesTypeOK
<1>2. g \in Generating /\ g.kind = commands[n].kind /\ g.pc = "claiming" /\ g.hash = commands[n].hash
  BY <1>1 DEF Generating, CommandPc
<1>3. n = NewestCommand /\ n > 0
  BY <1>1 DEF FilesOK, FilesTypeOK, OneAtATime, NewestCommand
<1>4. /\ commands[n].hash = parquet /\ commands[n].kind = "physics_sweep"
      /\ parquet \in ParquetFile /\ parquet.by = n
  BY <1>1, <1>3 DEF FilesOK, FileIsNewest, FilesTypeOK
<1>5. /\ claim' \in [hash : ParquetFile, whole : BOOLEAN] /\ claim'.hash = parquet
      /\ parquet' \in ParquetFile \cup {Nothing}
  BY <1>1, <1>4
<1> HIDE DEF g
<1>6. /\ NewestCommand' = n
      /\ DOMAIN commands' = DOMAIN commands /\ commands'[n] = g
      /\ \A m \in DOMAIN commands : commands'[m].kind = commands[m].kind
      /\ FilesTypeOK' /\ OneAtATime' /\ TrainingIsOfFile'
  BY <1>1, <1>2, <1>5, NewestSteps
<1>7. FileIsNewest'
  BY <1>1, <1>2, <1>3, <1>4, <1>6 DEF FilesOK, FileIsNewest
<1>8. ClaimIsOfSweep'
  <2>1. claim' # Nothing
    BY <1>5, FilesAssumption DEF ParquetFile
  <2> QED
    BY <1>1, <1>2, <1>4, <1>5, <1>6, <2>1 DEF ClaimIsOfSweep
<1> QED
  BY <1>6, <1>7, <1>8 DEF FilesOK

LEMMA ClosesClaimKeeps ==
  ASSUME FilesOK, NEW n \in Writing, n \in DOMAIN commands, ClosesClaim(n)
  PROVE  FilesOK'
<1> DEFINE g == [commands[n] EXCEPT !.pc = "done"]
<1>1. /\ commands[n].pc = "claiming" /\ commands[n] \in Generating
      /\ commands' = [commands EXCEPT ![n] = g] /\ UNCHANGED <<parquet, training>>
      /\ claim' = [hash |-> commands[n].hash, whole |-> TRUE]
  BY DEF ClosesClaim, GoesOn, FilesOK, FilesTypeOK
<1>2. g \in Generating /\ g.kind = commands[n].kind /\ g.pc = "done"
  BY <1>1 DEF Generating, CommandPc
<1>3. n = NewestCommand /\ n > 0
  BY <1>1 DEF FilesOK, FilesTypeOK, OneAtATime, NewestCommand
<1>4. /\ commands[n].hash = parquet /\ commands[n].kind = "physics_sweep"
      /\ parquet \in ParquetFile /\ parquet.by = n /\ parquet.whole
  BY <1>1, <1>3 DEF FilesOK, FileIsNewest, FilesTypeOK
<1>5. /\ claim' \in [hash : ParquetFile, whole : BOOLEAN] /\ claim'.hash = parquet /\ claim'.whole
      /\ parquet' \in ParquetFile \cup {Nothing}
  BY <1>1, <1>4
<1> HIDE DEF g
<1>6. /\ NewestCommand' = n
      /\ DOMAIN commands' = DOMAIN commands /\ commands'[n] = g
      /\ \A m \in DOMAIN commands : commands'[m].kind = commands[m].kind
      /\ FilesTypeOK' /\ OneAtATime' /\ TrainingIsOfFile'
  BY <1>1, <1>2, <1>5, NewestSteps
<1>7. FileIsNewest'
  BY <1>1, <1>2, <1>3, <1>4, <1>6 DEF FilesOK, FileIsNewest
<1>8. ClaimIsOfSweep'
  <2>1. claim' # Nothing
    BY <1>5, FilesAssumption DEF ParquetFile
  <2> QED
    BY <1>1, <1>2, <1>4, <1>5, <1>6, <2>1 DEF ClaimIsOfSweep
<1> QED
  BY <1>6, <1>7, <1>8 DEF FilesOK

LEMMA CommandDiesKeeps ==
  ASSUME FilesOK, NEW n \in Writing, n \in DOMAIN commands, CommandDies(n)
  PROVE  FilesOK'
<1> DEFINE g == [commands[n] EXCEPT !.pc = "dead"]
<1>1. /\ commands[n] \in Generating
      /\ commands' = [commands EXCEPT ![n] = g] /\ UNCHANGED <<parquet, claim, training>>
  BY DEF CommandDies, GoesOn, FilesOK, FilesTypeOK
<1>2. g \in Generating /\ g.kind = commands[n].kind /\ g.pc = "dead"
  BY <1>1 DEF Generating, CommandPc
<1>3. /\ parquet' \in ParquetFile \cup {Nothing}
      /\ claim' \in [hash : ParquetFile, whole : BOOLEAN] \cup {Nothing}
  BY <1>1 DEF FilesOK, FilesTypeOK
<1> HIDE DEF g
<1>4. /\ n = NewestCommand /\ n > 0 /\ NewestCommand' = n
      /\ DOMAIN commands' = DOMAIN commands /\ commands'[n] = g
      /\ \A m \in DOMAIN commands : commands'[m].kind = commands[m].kind
      /\ FilesTypeOK' /\ OneAtATime' /\ TrainingIsOfFile'
  BY <1>1, <1>2, <1>3, NewestSteps
<1>5. FileIsNewest'
  BY <1>1, <1>2, <1>4 DEF FilesOK, FileIsNewest
<1>6. ClaimIsOfSweep'
  BY <1>1, <1>2, <1>4 DEF FilesOK, ClaimIsOfSweep
<1> QED
  BY <1>4, <1>5, <1>6 DEF FilesOK

\* A command starts over the file, with nobody else about.
LEMMA OpensParquetKeeps ==
  ASSUME FilesOK, NEW k \in {"physics_sweep", "simulator"}, OpensParquet(k),
         Writing = {}, ~UnderWay
  PROVE  FilesOK'
<1> DEFINE g == [kind |-> k, pc |-> "writing", hash |-> Nothing]
           m == Len(commands) + 1
<1>1. /\ commands' = Append(commands, g) /\ UNCHANGED <<claim, training>>
      /\ parquet' = [by |-> m, whole |-> FALSE]
  BY DEF OpensParquet
<1>2. g \in Generating /\ g.kind = k /\ g.pc = "writing"
  BY DEF Generating, CommandPc
<1>3. commands \in Seq(Generating) /\ Len(commands) \in Nat /\ DOMAIN commands = 1 .. Len(commands)
  BY DEF FilesOK, FilesTypeOK
<1> HIDE DEF g
<1>4. /\ commands' \in Seq(Generating) /\ Len(commands') = m
      /\ DOMAIN commands' = 1 .. m /\ commands'[m] = g
      /\ \A n \in DOMAIN commands : commands'[n] = commands[n]
  BY <1>1, <1>2, <1>3
<1>5. m \in Nat /\ m > 0 /\ NewestCommand' = m /\ \A n \in DOMAIN commands' : n # m => n \in DOMAIN commands
  BY <1>3, <1>4 DEF NewestCommand
<1>6. \A n \in DOMAIN commands : n \in DOMAIN commands' /\ n # m
  BY <1>3, <1>4
<1> HIDE DEF m
<1>7. parquet' \in ParquetFile /\ parquet'.by = m /\ ~parquet'.whole /\ parquet' # Nothing
  <2>1. parquet' \in ParquetFile /\ parquet'.by = m /\ ~parquet'.whole
    BY <1>1, <1>5 DEF ParquetFile
  <2> QED
    BY <2>1, FilesAssumption DEF ParquetFile
<1>8. FilesTypeOK'
  BY <1>1, <1>4, <1>7 DEF FilesOK, FilesTypeOK
<1>9. OneAtATime'
  <2>1. \A n \in DOMAIN commands : commands[n].pc \in {"done", "dead"}
    BY DEF Writing
  <2> QED
    BY <1>1, <1>4, <1>5, <2>1 DEF OneAtATime, UnderWay
<1>10. FileIsNewest'
  BY <1>2, <1>4, <1>5, <1>7 DEF FileIsNewest
<1>11. ClaimIsOfSweep'
  BY <1>1, <1>2, <1>4, <1>5, <1>6 DEF FilesOK, ClaimIsOfSweep
<1>12. TrainingIsOfFile'
  <2>1. training.pc # "idle" => training.loaded \in DOMAIN commands
    BY DEF FilesOK, TrainingIsOfFile
  <2>2. training.pc # "compare"
    BY DEF UnderWay
  <2> QED
    BY <1>1, <1>4, <1>6, <2>1, <2>2 DEF FilesOK, TrainingIsOfFile, UnderWay
<1> QED
  BY <1>8, <1>9, <1>10, <1>11, <1>12 DEF FilesOK

\* A training reads the newest command's file.
LEMMA LoadsDatasetKeeps ==
  ASSUME FilesOK, LoadsDataset, Writing = {}
  PROVE  FilesOK'
<1>1. /\ parquet # Nothing /\ parquet.whole
      /\ training' = [NoTraining EXCEPT !.pc = "hash", !.loaded = parquet.by]
      /\ UNCHANGED <<parquet, claim, commands>>
  BY DEF LoadsDataset
<1>2. commands \in Seq(Generating) /\ Len(commands) \in Nat /\ DOMAIN commands = 1 .. Len(commands)
      /\ parquet \in ParquetFile
  BY <1>1 DEF FilesOK, FilesTypeOK
<1>3. training'.pc = "hash" /\ training'.loaded = parquet.by
  BY <1>1 DEF NoTraining
<1>4. FilesTypeOK'
  <2>1. training' \in [pc : {"idle", "hash", "compare", "described"}, loaded : Nat \cup {Nothing},
                       hash : ParquetFile \cup {Nothing}, source : {"none", "unknown", "physics_sweep"}]
    BY <1>1, <1>2 DEF NoTraining, ParquetFile
  <2> QED
    BY <1>1, <2>1 DEF FilesOK, FilesTypeOK
<1>5. \A n \in DOMAIN commands : commands[n].pc \in {"done", "dead"}
  BY DEF Writing
<1>6. OneAtATime'
  BY <1>1, <1>5 DEF OneAtATime
<1>7. FileIsNewest' /\ ClaimIsOfSweep'
  BY <1>1 DEF FilesOK, FileIsNewest, ClaimIsOfSweep, NewestCommand
<1>8. parquet.by = NewestCommand /\ NewestCommand \in DOMAIN commands
  BY <1>1, <1>2 DEF FilesOK, FileIsNewest, NewestCommand
<1>9. TrainingIsOfFile'
  BY <1>1, <1>3, <1>5, <1>8 DEF TrainingIsOfFile, UnderWay, NewestCommand
<1> QED
  BY <1>4, <1>6, <1>7, <1>9 DEF FilesOK

LEMMA HashesDatasetKeeps == ASSUME FilesOK, HashesDataset PROVE FilesOK'
<1>1. /\ training.pc = "hash" /\ training' = [training EXCEPT !.pc = "compare", !.hash = parquet]
      /\ UNCHANGED <<parquet, claim, commands>>
  BY DEF HashesDataset
<1>2. FilesTypeOK'
  BY <1>1 DEF FilesOK, FilesTypeOK
<1>3. /\ training'.pc = "compare" /\ training'.hash = parquet /\ training'.loaded = training.loaded
  BY <1>1 DEF FilesOK, FilesTypeOK
<1>4. UnderWay /\ UnderWay'
  BY <1>1, <1>3 DEF UnderWay
<1>5. OneAtATime' /\ FileIsNewest' /\ ClaimIsOfSweep'
  BY <1>1, <1>4 DEF FilesOK, OneAtATime, FileIsNewest, ClaimIsOfSweep, NewestCommand
<1>6. TrainingIsOfFile'
  BY <1>1, <1>3, <1>4 DEF FilesOK, TrainingIsOfFile, NewestCommand
<1> QED
  BY <1>2, <1>5, <1>6 DEF FilesOK

\* The sidecar vouches for the file exactly if the file is a sweep's that has finished.
LEMMA ComparesClaimKeeps == ASSUME FilesOK, ComparesClaim PROVE FilesOK'
<1> DEFINE verified == claim # Nothing /\ claim.whole /\ claim.hash = training.hash
<1>1. /\ training.pc = "compare"
      /\ training' = [training EXCEPT !.pc = "described",
                        !.source = IF verified THEN "physics_sweep" ELSE "unknown"]
      /\ UNCHANGED <<parquet, claim, commands>>
  BY DEF ComparesClaim
<1>2. FilesTypeOK'
  BY <1>1 DEF FilesOK, FilesTypeOK
<1>3. /\ training'.pc = "described" /\ training'.loaded = training.loaded
      /\ training'.source = IF verified THEN "physics_sweep" ELSE "unknown"
  BY <1>1 DEF FilesOK, FilesTypeOK
<1>4. UnderWay /\ ~UnderWay'
  BY <1>1, <1>3 DEF UnderWay
<1>5. OneAtATime' /\ FileIsNewest' /\ ClaimIsOfSweep'
  BY <1>1, <1>4 DEF FilesOK, OneAtATime, FileIsNewest, ClaimIsOfSweep, NewestCommand
<1>6. /\ training.loaded = NewestCommand /\ parquet.by = NewestCommand /\ training.hash = parquet
      /\ NewestCommand \in DOMAIN commands /\ commands[NewestCommand].pc \in {"done", "dead"}
      /\ NewestCommand > 0
  <2>1. commands \in Seq(Generating) /\ training.loaded \in DOMAIN commands /\ training.loaded = NewestCommand
        /\ training.hash = parquet /\ commands[training.loaded].pc \in {"done", "dead"}
    BY <1>1, <1>4 DEF FilesOK, FilesTypeOK, TrainingIsOfFile
  <2>2. NewestCommand > 0
    BY <2>1
  <2> QED
    BY <2>1, <2>2 DEF FilesOK, FileIsNewest
<1>7. verified => commands[NewestCommand].kind = "physics_sweep"
  BY <1>6 DEF FilesOK, ClaimIsOfSweep
<1>8. commands[NewestCommand].kind = "physics_sweep" /\ commands[NewestCommand].pc = "done" => verified
  BY <1>6 DEF FilesOK, ClaimIsOfSweep
<1> HIDE DEF verified
<1>9. TrainingIsOfFile'
  BY <1>1, <1>3, <1>4, <1>6, <1>7, <1>8 DEF TrainingIsOfFile
<1> QED
  BY <1>2, <1>5, <1>9 DEF FilesOK

LEMMA FilesInvNext == FilesInv /\ [FilesNext]_filesVars => FilesInv'
<1> SUFFICES ASSUME FilesInv, [FilesNext]_filesVars PROVE FilesInv'
  OBVIOUS
<1>1. /\ crossed' \in BOOLEAN
      /\ crossed => crossed'
  BY DEF FilesNext, FilesInv, OpensParquet, ClosesParquet, HashesParquet, OpensClaim, ClosesClaim,
         CommandDies, LoadsDataset, HashesDataset, ComparesClaim, filesVars
<1>2. CASE crossed'
  BY <1>1, <1>2 DEF FilesInv
<1>3. CASE ~crossed'
  <2>1. ~crossed /\ FilesOK
    BY <1>1, <1>3 DEF FilesInv, FilesOK
  <2> SUFFICES FilesOK'
    BY <1>1 DEF FilesInv, FilesOK
  <2>2. ASSUME NEW k \in {"physics_sweep", "simulator"}, OpensParquet(k) PROVE FilesOK'
    <3>1. Writing = {} /\ ~UnderWay
      BY <1>3, <2>2 DEF OpensParquet
    <3> QED
      BY <2>1, <2>2, <3>1, OpensParquetKeeps
  <2>3. ASSUME NEW n \in Writing,
               ClosesParquet(n) \/ HashesParquet(n) \/ OpensClaim(n) \/ ClosesClaim(n) \/ CommandDies(n)
        PROVE  FilesOK'
    <3>1. n \in DOMAIN commands
      BY DEF Writing
    <3> QED
      BY <2>1, <2>3, <3>1, ClosesParquetKeeps, HashesParquetKeeps, OpensClaimKeeps, ClosesClaimKeeps,
         CommandDiesKeeps
  <2>4. CASE LoadsDataset
    <3>1. Writing = {}
      BY <1>3, <2>4 DEF LoadsDataset
    <3> QED
      BY <2>1, <2>4, <3>1, LoadsDatasetKeeps
  <2>5. CASE HashesDataset
    BY <2>1, <2>5, HashesDatasetKeeps
  <2>6. CASE ComparesClaim
    BY <2>1, <2>6, ComparesClaimKeeps
  <2>7. CASE UNCHANGED filesVars
    BY <2>1, <2>7 DEF filesVars, FilesOK, FilesTypeOK, OneAtATime, FileIsNewest, ClaimIsOfSweep,
                      TrainingIsOfFile, NewestCommand, UnderWay
  <2> QED
    BY <2>2, <2>3, <2>4, <2>5, <2>6, <2>7 DEF FilesNext
<1> QED
  BY <1>2, <1>3

LEMMA FilesInvHolds == FilesInv => SourcesAreVerified
<1> SUFFICES ASSUME FilesInv, training.pc = "described", ~crossed
             PROVE  /\ training.source = "physics_sweep" => commands[training.loaded].kind = "physics_sweep"
                    /\ commands[training.loaded].kind = "physics_sweep"
                         /\ commands[training.loaded].pc = "done" => training.source = "physics_sweep"
  BY DEF SourcesAreVerified
<1> QED
  BY DEF FilesInv, TrainingIsOfFile

-----------------------------------------------------------------------------
(* The data lake *)

LakePc == {"idle", "adopting", "copying", "hashing", "streaming", "closing", "bronze", "silver",
           "writing", "done", "failed"}

LakeFields == {"pc", "kind", "doc", "next", "buffer", "cleared", "written"}

LakeRow == LakeRun \X (Nat \ {0})

LakeTypeOK ==
  /\ DOMAIN lakeRun = LakeRun
  /\ \A r \in LakeRun :
       /\ DOMAIN lakeRun[r] = LakeFields
       /\ lakeRun[r].pc \in LakePc
       /\ lakeRun[r].doc \in Seq(BOOLEAN)
       /\ lakeRun[r].next \in 1 .. (Len(lakeRun[r].doc) + 1)
       /\ lakeRun[r].buffer \in [Zone -> Seq(LakeRow)]
       /\ lakeRun[r].cleared \subseteq Zone
       /\ lakeRun[r].written \in [Zone -> Nat]
  /\ DOMAIN part = Zone
  /\ \A z \in Zone : DOMAIN part[z] \subseteq Nat /\ \A i \in DOMAIN part[z] : part[z][i] \in Seq(LakeRow)
  /\ DOMAIN raw = {"content", "claim"}

\* Only a register adopts a document, and a description that does not fit is a run's that
\* is at it or has failed.
SidecarInv ==
  /\ \A r \in LakeRun : lakeRun[r].pc \in {"adopting", "copying", "hashing"} => lakeRun[r].kind = "register"
  /\ raw.claim # raw.content =>
       \E r \in LakeRun : lakeRun[r].kind = "register" /\ lakeRun[r].pc \in {"copying", "hashing", "failed"}

\* Runs have started in their order, one after the other.
RunsAreOrdered ==
  /\ Started # {} => \E r \in Started : /\ Started = {q \in LakeRun : q <= r}
                                        /\ \A q \in Started : q # r => lakeRun[q].pc \in {"done", "failed"}
  /\ committed # 0 => committed \in Started /\ lakeRun[committed].pc = "done"

\* How many of its rows a run has considered for a zone.
Considered(r, z) ==
  CASE lakeRun[r].pc \in {"streaming", "closing", z}                   -> lakeRun[r].next - 1
    [] lakeRun[r].pc = "writing" \/ (lakeRun[r].pc = "silver" /\ z = "bronze") -> Len(lakeRun[r].doc)
    [] OTHER                                                           -> 0

Buffered(r, z) == {lakeRun[r].buffer[z][k] : k \in DOMAIN lakeRun[r].buffer[z]}

\* The rows of a run that are in its parts.
Mine(r, z) == IF z \in lakeRun[r].cleared THEN Held(z) ELSE {}

\* What a run has considered for a zone is in its parts or still in its buffer.
Accounted(r, z) ==
  Mine(r, z) \cup Buffered(r, z) = {q \in RowsOf(r, z) : q[2] <= Considered(r, z)}

BufferInOrder(r, z) ==
  /\ \A k, l \in DOMAIN lakeRun[r].buffer[z] :
       k < l => lakeRun[r].buffer[z][k][2] < lakeRun[r].buffer[z][l][2]
  /\ \A q \in Mine(r, z) : \A k \in DOMAIN lakeRun[r].buffer[z] : q[2] < lakeRun[r].buffer[z][k][2]

\* A buffer is never too long, and only kept for a zone that is open.
BufferFits(r, z) ==
  /\ Len(lakeRun[r].buffer[z]) <= PartRows
  /\ lakeRun[r].buffer[z] # <<>> => z \in Open(r)

\* A run counts its parts; one that is not full is its last.
PartsAreCounted(r, z) ==
  /\ z \notin lakeRun[r].cleared => lakeRun[r].written[z] = 0
  /\ z \in lakeRun[r].cleared =>
       /\ DOMAIN part[z] = 0 .. (lakeRun[r].written[z] - 1)
       /\ \A i \in DOMAIN part[z] : Len(part[z][i]) # PartRows =>
            /\ lakeRun[r].buffer[z] = <<>>
            /\ Considered(r, z) = Len(lakeRun[r].doc)
            /\ lakeRun[r].pc # "streaming"

ZoneIsWritten(r, z) ==
  Accounted(r, z) /\ BufferInOrder(r, z) /\ BufferFits(r, z) /\ PartsAreCounted(r, z)

OngoingIsWritten ==
  /\ \A r \in Ongoing, z \in Zone : ZoneIsWritten(r, z)
  /\ \A r \in LakeRun : lakeRun[r].pc \in {"closing", "writing"} => Read(r)
  /\ \A r \in LakeRun : lakeRun[r].pc \in {"adopting", "copying", "hashing"} =>
                          lakeRun[r].next = 1 /\ lakeRun[r].cleared = {}

\* The runs a zone's rows are of have started.
HeldIsStarted == \A z \in Zone : \A row \in Held(z) : row[1] \in Started

PartitionsAreSound == \A z \in Zone : PartsAreWhole(z) /\ RowsAreInOrder(z) /\ NoRowIsSkipped(z)

\* A committed run that is the latest left every zone it has rows for complete.
CommittedIsHeld ==
  committed # 0 /\ (\A q \in Started : q <= committed) =>
    \A z \in Zone : RowsOf(committed, z) # {} => Held(z) = RowsOf(committed, z)

\* As long as one run is under way at a time.
LakeOK ==
  /\ RunsAreOrdered
  /\ PartitionsAreSound
  /\ OngoingIsWritten
  /\ HeldIsStarted
  /\ CommittedIsHeld

LakeInv ==
  /\ LakeTypeOK
  /\ SidecarInv
  /\ ~Overlap => LakeOK

-----------------------------------------------------------------------------
(* What a step does to the run it is of *)

\* A step of a run leaves the others, its kind and its document alone.
Moves(r, pc, next, buffer, cleared, written) ==
  /\ DOMAIN lakeRun' = LakeRun
  /\ \A q \in LakeRun : q # r => lakeRun'[q] = lakeRun[q]
  /\ DOMAIN lakeRun'[r] = LakeFields
  /\ lakeRun'[r].kind = lakeRun[r].kind
  /\ lakeRun'[r].doc = lakeRun[r].doc
  /\ lakeRun'[r].pc = pc
  /\ lakeRun'[r].next = next
  /\ lakeRun'[r].buffer = buffer
  /\ lakeRun'[r].cleared = cleared
  /\ lakeRun'[r].written = written

\* Only the place of a run changes.  (DataLake.Go.)
LEMMA GoMoves ==
  ASSUME LakeTypeOK, NEW r \in LakeRun, NEW pc, Go(r, pc)
  PROVE  Moves(r, pc, lakeRun[r].next, lakeRun[r].buffer, lakeRun[r].cleared, lakeRun[r].written)
<1>1. /\ DOMAIN lakeRun = LakeRun
      /\ DOMAIN lakeRun[r] = LakeFields
  BY DEF LakeTypeOK
<1>2. lakeRun' = [lakeRun EXCEPT ![r].pc = pc]
  BY DEF Go
<1> QED
  BY <1>1, <1>2 DEF Moves, LakeFields

\* What a zone's buffer is after the next row of the document.
Taken(r, z) ==
  IF z \in Open(r) /\ Belongs(z, lakeRun[r].doc[lakeRun[r].next])
  THEN Append(lakeRun[r].buffer[z], <<r, lakeRun[r].next>>)
  ELSE lakeRun[r].buffer[z]

\* A row is read into the buffers it belongs into.  (DataLake.AddRow.)
LEMMA AddRowMoves ==
  ASSUME LakeTypeOK, NEW r \in LakeRun, AddRow(r)
  PROVE  Moves(r, lakeRun[r].pc, lakeRun[r].next + 1, [z \in Zone |-> Taken(r, z)],
               lakeRun[r].cleared, lakeRun[r].written)
<1>1. /\ DOMAIN lakeRun = LakeRun
      /\ DOMAIN lakeRun[r] = LakeFields
  BY DEF LakeTypeOK
<1> DEFINE buffer == [z \in Zone |-> Taken(r, z)]
<1>2. lakeRun' = [lakeRun EXCEPT ![r].next = lakeRun[r].next + 1, ![r].buffer = buffer]
  BY <1>1 DEF AddRow, Taken, LakeFields
<1> HIDE DEF buffer
<1>3. Moves(r, lakeRun[r].pc, lakeRun[r].next + 1, buffer, lakeRun[r].cleared, lakeRun[r].written)
  BY <1>1, <1>2 DEF Moves, LakeFields
<1> QED
  BY <1>3 DEF buffer

\* A partition is cleared once.  (DataLake.ClearPartition.)
LEMMA ClearMoves ==
  ASSUME LakeTypeOK, NEW r \in LakeRun, NEW z \in Zone, ClearPartition(r, z)
  PROVE  Moves(r, lakeRun[r].pc, lakeRun[r].next, lakeRun[r].buffer,
               lakeRun[r].cleared \cup {z}, lakeRun[r].written)
<1>1. /\ DOMAIN lakeRun = LakeRun
      /\ DOMAIN lakeRun[r] = LakeFields
  BY DEF LakeTypeOK
<1>2. lakeRun' = [lakeRun EXCEPT ![r].cleared = lakeRun[r].cleared \cup {z}]
  BY DEF ClearPartition
<1> DEFINE cleared == lakeRun[r].cleared \cup {z}
<1>3. lakeRun' = [lakeRun EXCEPT ![r].cleared = cleared]
  BY <1>2
<1> HIDE DEF cleared
<1>4. Moves(r, lakeRun[r].pc, lakeRun[r].next, lakeRun[r].buffer, cleared, lakeRun[r].written)
  BY <1>1, <1>3 DEF Moves, LakeFields
<1> QED
  BY <1>4 DEF cleared

\* A part is placed and its buffer emptied.  (DataLake.PlacePart.)
LEMMA PlaceMoves ==
  ASSUME LakeTypeOK, NEW r \in LakeRun, NEW z \in Zone, PlacePart(r, z)
  PROVE  Moves(r, lakeRun[r].pc, lakeRun[r].next, [lakeRun[r].buffer EXCEPT ![z] = <<>>],
               lakeRun[r].cleared, [lakeRun[r].written EXCEPT ![z] = lakeRun[r].written[z] + 1])
<1>1. /\ DOMAIN lakeRun = LakeRun
      /\ DOMAIN lakeRun[r] = LakeFields
  BY DEF LakeTypeOK
<1> DEFINE buffer == [lakeRun[r].buffer EXCEPT ![z] = <<>>]
           written == [lakeRun[r].written EXCEPT ![z] = lakeRun[r].written[z] + 1]
<1>2. lakeRun' = [lakeRun EXCEPT ![r] = [lakeRun[r] EXCEPT !.buffer = buffer, !.written = written]]
  <2>1. lakeRun' = [lakeRun EXCEPT ![r].buffer[z] = <<>>, ![r].written[z] = @ + 1]
    BY DEF PlacePart
  <2> QED
    BY <1>1, <2>1 DEF LakeFields
<1> HIDE DEF buffer, written
<1>3. Moves(r, lakeRun[r].pc, lakeRun[r].next, buffer, lakeRun[r].cleared, written)
  BY <1>1, <1>2 DEF Moves, LakeFields
<1> QED
  BY <1>3 DEF buffer, written

\* Where a run goes on when its document is read to the end.
AfterReading(pc) ==
  CASE pc = "streaming" -> "closing" [] pc = "bronze" -> "silver" [] OTHER -> "writing"

\* A writer closes.  (DataLake.CloseWriter.)
LEMMA CloseMoves ==
  ASSUME LakeTypeOK, NEW r \in LakeRun, CloseWriter(r)
  PROVE  Moves(r, AfterReading(lakeRun[r].pc), IF lakeRun[r].pc = "bronze" THEN 1 ELSE lakeRun[r].next,
               lakeRun[r].buffer, lakeRun[r].cleared, lakeRun[r].written)
<1>1. /\ DOMAIN lakeRun = LakeRun
      /\ DOMAIN lakeRun[r] = LakeFields
  BY DEF LakeTypeOK
<1> DEFINE pc == AfterReading(lakeRun[r].pc)
           next == IF lakeRun[r].pc = "bronze" THEN 1 ELSE lakeRun[r].next
<1>2. lakeRun' = [lakeRun EXCEPT ![r] = [lakeRun[r] EXCEPT !.pc = pc, !.next = next]]
  BY <1>1 DEF CloseWriter, AfterReading, LakeFields
<1> HIDE DEF pc, next
<1>3. Moves(r, pc, next, lakeRun[r].buffer, lakeRun[r].cleared, lakeRun[r].written)
  BY <1>1, <1>2 DEF Moves, LakeFields
<1> QED
  BY <1>3 DEF pc, next

\* The types after a step of a run that leaves the parts alone.
LEMMA MovesTypeOK ==
  ASSUME LakeTypeOK, NEW r \in LakeRun, NEW pc \in LakePc, NEW next \in 1 .. (Len(lakeRun[r].doc) + 1),
         NEW buffer \in [Zone -> Seq(LakeRow)], NEW cleared \in SUBSET Zone, NEW written \in [Zone -> Nat],
         Moves(r, pc, next, buffer, cleared, written),
         DOMAIN part' = Zone,
         \A z \in Zone : DOMAIN part'[z] \subseteq Nat /\ \A i \in DOMAIN part'[z] : part'[z][i] \in Seq(LakeRow),
         DOMAIN raw' = {"content", "claim"}
  PROVE  LakeTypeOK'
<1>1. /\ lakeRun'[r].pc \in LakePc
      /\ lakeRun'[r].buffer \in [Zone -> Seq(LakeRow)]
      /\ lakeRun'[r].cleared \subseteq Zone
      /\ lakeRun'[r].written \in [Zone -> Nat]
      /\ DOMAIN lakeRun'[r] = LakeFields
  BY DEF Moves
<1>2. /\ lakeRun'[r].doc \in Seq(BOOLEAN)
      /\ lakeRun'[r].next \in 1 .. (Len(lakeRun'[r].doc) + 1)
  BY DEF Moves, LakeTypeOK
<1>3. \A q \in LakeRun : q # r => lakeRun'[q] = lakeRun[q]
  BY DEF Moves
<1>4. DOMAIN lakeRun' = LakeRun
  BY DEF Moves
<1> QED
  BY <1>1, <1>2, <1>3, <1>4 DEF LakeTypeOK

\* The types after a step that changes only the place of a run.
LEMMA GoTypeOK ==
  ASSUME LakeTypeOK, NEW r \in LakeRun, NEW pc \in LakePc, Go(r, pc), UNCHANGED part,
         DOMAIN raw' = {"content", "claim"}
  PROVE  LakeTypeOK'
<1>1. Moves(r, pc, lakeRun[r].next, lakeRun[r].buffer, lakeRun[r].cleared, lakeRun[r].written)
  BY GoMoves
<1>2. /\ lakeRun[r].next \in 1 .. (Len(lakeRun[r].doc) + 1)
      /\ lakeRun[r].buffer \in [Zone -> Seq(LakeRow)]
      /\ lakeRun[r].cleared \in SUBSET Zone
      /\ lakeRun[r].written \in [Zone -> Nat]
  BY DEF LakeTypeOK
<1>3. /\ DOMAIN part' = Zone
      /\ \A z \in Zone : DOMAIN part'[z] \subseteq Nat /\ \A i \in DOMAIN part'[z] : part'[z][i] \in Seq(LakeRow)
  BY DEF LakeTypeOK
<1> QED
  BY <1>1, <1>2, <1>3, MovesTypeOK

LEMMA LakeTypeOKInit == LakeInit => LakeTypeOK
<1> SUFFICES ASSUME LakeInit PROVE LakeTypeOK
  OBVIOUS
<1>1. /\ DOMAIN lakeRun = LakeRun
      /\ \A r \in LakeRun : lakeRun[r] = Unstarted
      /\ part = [z \in Zone |-> <<>>]
  BY DEF LakeInit
<1>2. /\ DOMAIN Unstarted = LakeFields
      /\ Unstarted.pc \in LakePc
      /\ Unstarted.doc \in Seq(BOOLEAN)
      /\ Unstarted.next = 1
      /\ Len(Unstarted.doc) = 0
      /\ Unstarted.buffer \in [Zone -> Seq(LakeRow)]
      /\ Unstarted.cleared \subseteq Zone
      /\ Unstarted.written \in [Zone -> Nat]
  BY DEF Unstarted, LakeFields, LakePc
<1>3. DOMAIN part = Zone /\ \A z \in Zone : DOMAIN part[z] = {}
  BY <1>1
<1>4. DOMAIN raw = {"content", "claim"}
  BY DEF LakeInit, NoFile
<1> QED
  BY <1>1, <1>2, <1>3, <1>4 DEF LakeTypeOK

\* A run begins with a document of the source, at its first row and with nothing buffered.
LEMMA BeginRunBegins ==
  ASSUME LakeTypeOK, NEW r \in LakeRun, NEW k, NEW doc, BeginRun(r, k, doc)
  PROVE  /\ DOMAIN lakeRun' = LakeRun
         /\ \A q \in LakeRun : q # r => lakeRun'[q] = lakeRun[q]
         /\ DOMAIN lakeRun'[r] = LakeFields
         /\ lakeRun'[r].kind = k
         /\ lakeRun'[r].doc = doc
         /\ lakeRun'[r].pc = IF k = "register" THEN "adopting" ELSE "bronze"
         /\ lakeRun'[r].next = 1
         /\ lakeRun'[r].buffer = [z \in Zone |-> <<>>]
         /\ lakeRun'[r].cleared = {}
         /\ lakeRun'[r].written = [z \in Zone |-> 0]
<1>1. DOMAIN lakeRun = LakeRun
  BY DEF LakeTypeOK
<1> DEFINE begun == [Unstarted EXCEPT !.kind = k, !.doc = doc,
                       !.pc = IF k = "register" THEN "adopting" ELSE "bronze"]
<1>2. lakeRun' = [lakeRun EXCEPT ![r] = begun]
  BY DEF BeginRun
<1>3. /\ DOMAIN begun = LakeFields
      /\ begun.kind = k
      /\ begun.doc = doc
      /\ begun.pc = IF k = "register" THEN "adopting" ELSE "bronze"
      /\ begun.next = 1
      /\ begun.buffer = [z \in Zone |-> <<>>]
      /\ begun.cleared = {}
      /\ begun.written = [z \in Zone |-> 0]
  BY DEF Unstarted, LakeFields
<1> HIDE DEF begun
<1>4. lakeRun'[r] = begun /\ DOMAIN lakeRun' = LakeRun /\ \A q \in LakeRun : q # r => lakeRun'[q] = lakeRun[q]
  BY <1>1, <1>2
<1> QED
  BY <1>3, <1>4

LEMMA BeginRunTypeOK ==
  ASSUME LakeTypeOK, NEW r \in LakeRun, NEW k, NEW doc \in LakeDocs, BeginRun(r, k, doc)
  PROVE  LakeTypeOK'
<1>1. /\ lakeRun'[r].pc \in LakePc
      /\ DOMAIN lakeRun'[r] = LakeFields
  BY BeginRunBegins DEF LakePc
<1>2. /\ lakeRun'[r].doc \in Seq(BOOLEAN)
      /\ lakeRun'[r].next \in 1 .. (Len(lakeRun'[r].doc) + 1)
  BY BeginRunBegins, LakeAssumption
<1>3. /\ lakeRun'[r].buffer \in [Zone -> Seq(LakeRow)]
      /\ lakeRun'[r].written \in [Zone -> Nat]
  <2>1. /\ [z \in Zone |-> <<>>] \in [Zone -> Seq(LakeRow)]
        /\ [z \in Zone |-> 0] \in [Zone -> Nat]
    OBVIOUS
  <2>2. /\ lakeRun'[r].buffer = [z \in Zone |-> <<>>]
        /\ lakeRun'[r].written = [z \in Zone |-> 0]
    BY BeginRunBegins
  <2> QED
    BY <2>1, <2>2
<1>4. lakeRun'[r].cleared \subseteq Zone
  BY BeginRunBegins
<1>5. DOMAIN lakeRun' = LakeRun /\ \A q \in LakeRun : q # r => lakeRun'[q] = lakeRun[q]
  BY BeginRunBegins
<1>6. part' = part /\ raw' = raw
  BY DEF BeginRun
<1> QED
  BY <1>1, <1>2, <1>3, <1>4, <1>5, <1>6 DEF LakeTypeOK

\* A row that is read fits the buffers it is added to.
LEMMA AddRowTypeOK ==
  ASSUME LakeTypeOK, NEW r \in LakeRun, AddRow(r)
  PROVE  LakeTypeOK'
<1> DEFINE next == lakeRun[r].next + 1
           buffer == [z \in Zone |-> Taken(r, z)]
<1>1. Moves(r, lakeRun[r].pc, next, buffer, lakeRun[r].cleared, lakeRun[r].written)
  BY AddRowMoves
<1>2. /\ lakeRun[r].pc \in LakePc
      /\ lakeRun[r].cleared \in SUBSET Zone
      /\ lakeRun[r].written \in [Zone -> Nat]
  BY DEF LakeTypeOK
<1>3. next \in 1 .. (Len(lakeRun[r].doc) + 1)
  <2>1. lakeRun[r].doc \in Seq(BOOLEAN) /\ lakeRun[r].next \in 1 .. (Len(lakeRun[r].doc) + 1)
    BY DEF LakeTypeOK
  <2>2. ~(lakeRun[r].next > Len(lakeRun[r].doc))
    BY DEF AddRow, Read
  <2> QED
    BY <2>1, <2>2
<1>4. buffer \in [Zone -> Seq(LakeRow)]
  <2> SUFFICES ASSUME NEW z \in Zone PROVE Taken(r, z) \in Seq(LakeRow)
    OBVIOUS
  <2>1. lakeRun[r].buffer[z] \in Seq(LakeRow)
    BY DEF LakeTypeOK
  <2>2. <<r, lakeRun[r].next>> \in LakeRow
    <3>1. lakeRun[r].next \in Nat \ {0}
      BY DEF LakeTypeOK
    <3> QED
      BY <3>1 DEF LakeRow
  <2> QED
    BY <2>1, <2>2 DEF Taken
<1>5. /\ DOMAIN part' = Zone
      /\ \A z \in Zone : DOMAIN part'[z] \subseteq Nat /\ \A i \in DOMAIN part'[z] : part'[z][i] \in Seq(LakeRow)
  BY DEF LakeTypeOK, AddRow
<1>6. DOMAIN raw' = {"content", "claim"}
  BY DEF LakeTypeOK, AddRow
<1> HIDE DEF next, buffer
<1> QED
  BY <1>1, <1>2, <1>3, <1>4, <1>5, <1>6, MovesTypeOK

LEMMA ClearTypeOK ==
  ASSUME LakeTypeOK, NEW r \in LakeRun, NEW z \in Zone, ClearPartition(r, z)
  PROVE  LakeTypeOK'
<1> DEFINE cleared == lakeRun[r].cleared \cup {z}
<1>1. Moves(r, lakeRun[r].pc, lakeRun[r].next, lakeRun[r].buffer, cleared, lakeRun[r].written)
  BY ClearMoves
<1>2. /\ lakeRun[r].pc \in LakePc
      /\ lakeRun[r].next \in 1 .. (Len(lakeRun[r].doc) + 1)
      /\ lakeRun[r].buffer \in [Zone -> Seq(LakeRow)]
      /\ lakeRun[r].written \in [Zone -> Nat]
  BY DEF LakeTypeOK
<1>3. cleared \in SUBSET Zone
  BY DEF LakeTypeOK
<1>4. /\ DOMAIN part' = Zone
      /\ \A y \in Zone : DOMAIN part'[y] \subseteq Nat /\ \A i \in DOMAIN part'[y] : part'[y][i] \in Seq(LakeRow)
  <2>1. part' = [part EXCEPT ![z] = <<>>] /\ DOMAIN part = Zone
    BY DEF ClearPartition, LakeTypeOK
  <2>2. /\ DOMAIN part' = Zone
        /\ DOMAIN part'[z] = {}
        /\ \A y \in Zone : y # z => part'[y] = part[y]
    BY <2>1
  <2> QED
    BY <2>2 DEF LakeTypeOK
<1>5. DOMAIN raw' = {"content", "claim"}
  BY DEF LakeTypeOK, ClearPartition
<1> HIDE DEF cleared
<1> QED
  BY <1>1, <1>2, <1>3, <1>4, <1>5, MovesTypeOK

\* The parts of a zone after one is placed: as they were, but for its number.
LEMMA PlacedParts ==
  ASSUME LakeTypeOK, NEW r \in LakeRun, NEW z \in Zone, PlacePart(r, z)
  PROVE  /\ DOMAIN part' = Zone
         /\ \A y \in Zone : y # z => part'[y] = part[y]
         /\ DOMAIN part'[z] = DOMAIN part[z] \cup {lakeRun[r].written[z]}
         /\ part'[z][lakeRun[r].written[z]] = lakeRun[r].buffer[z]
         /\ \A i \in DOMAIN part[z] : i # lakeRun[r].written[z] => part'[z][i] = part[z][i]
<1> DEFINE n == lakeRun[r].written[z]
           rows == lakeRun[r].buffer[z]
           parts == WithPart(part[z], n, rows)
<1>1. part' = [part EXCEPT ![z] = parts] /\ DOMAIN part = Zone
  BY DEF PlacePart, LakeTypeOK
<1>2. /\ DOMAIN parts = DOMAIN part[z] \cup {n}
      /\ parts[n] = rows
      /\ \A i \in DOMAIN part[z] : i # n => parts[i] = part[z][i]
  <2> HIDE DEF n, rows
  <2> QED
    BY DEF WithPart
<1> HIDE DEF parts, n, rows
<1>3. /\ DOMAIN part' = Zone
      /\ part'[z] = parts
      /\ \A y \in Zone : y # z => part'[y] = part[y]
  BY <1>1
<1> QED
  BY <1>2, <1>3 DEF n, rows

LEMMA PlaceTypeOK ==
  ASSUME LakeTypeOK, NEW r \in LakeRun, NEW z \in Zone, PlacePart(r, z)
  PROVE  LakeTypeOK'
<1> DEFINE buffer == [lakeRun[r].buffer EXCEPT ![z] = <<>>]
           written == [lakeRun[r].written EXCEPT ![z] = lakeRun[r].written[z] + 1]
<1>1. Moves(r, lakeRun[r].pc, lakeRun[r].next, buffer, lakeRun[r].cleared, written)
  BY PlaceMoves
<1>2. /\ lakeRun[r].pc \in LakePc
      /\ lakeRun[r].next \in 1 .. (Len(lakeRun[r].doc) + 1)
      /\ lakeRun[r].cleared \in SUBSET Zone
      /\ lakeRun[r].buffer \in [Zone -> Seq(LakeRow)]
      /\ lakeRun[r].written \in [Zone -> Nat]
  BY DEF LakeTypeOK
<1>3. /\ DOMAIN buffer = Zone
      /\ \A y \in Zone : buffer[y] \in Seq(LakeRow)
  BY <1>2
<1>4. buffer \in [Zone -> Seq(LakeRow)]
  <2>1. buffer = [y \in Zone |-> buffer[y]]
    BY <1>2
  <2> HIDE DEF buffer
  <2> QED
    BY <1>3, <2>1
<1>5. written \in [Zone -> Nat]
  BY <1>2
<1>6. /\ DOMAIN part' = Zone
      /\ \A y \in Zone : DOMAIN part'[y] \subseteq Nat /\ \A i \in DOMAIN part'[y] : part'[y][i] \in Seq(LakeRow)
  <2>1. \A y \in Zone : DOMAIN part[y] \subseteq Nat /\ \A i \in DOMAIN part[y] : part[y][i] \in Seq(LakeRow)
    BY DEF LakeTypeOK
  <2>2. lakeRun[r].buffer[z] \in Seq(LakeRow) /\ lakeRun[r].written[z] \in Nat
    BY <1>2
  <2> QED
    BY <2>1, <2>2, PlacedParts
<1>7. DOMAIN raw' = {"content", "claim"}
  BY DEF LakeTypeOK, PlacePart
<1> HIDE DEF buffer, written
<1> QED
  BY <1>1, <1>2, <1>4, <1>5, <1>6, <1>7, MovesTypeOK

LEMMA CloseTypeOK ==
  ASSUME LakeTypeOK, NEW r \in LakeRun, CloseWriter(r)
  PROVE  LakeTypeOK'
<1> DEFINE pc == AfterReading(lakeRun[r].pc)
           next == IF lakeRun[r].pc = "bronze" THEN 1 ELSE lakeRun[r].next
<1>1. Moves(r, pc, next, lakeRun[r].buffer, lakeRun[r].cleared, lakeRun[r].written)
  BY CloseMoves
<1>2. /\ lakeRun[r].cleared \in SUBSET Zone
      /\ lakeRun[r].buffer \in [Zone -> Seq(LakeRow)]
      /\ lakeRun[r].written \in [Zone -> Nat]
  BY DEF LakeTypeOK
<1>3. pc \in LakePc
  BY DEF AfterReading, LakePc
<1>4. next \in 1 .. (Len(lakeRun[r].doc) + 1)
  <2>1. lakeRun[r].doc \in Seq(BOOLEAN) /\ lakeRun[r].next \in 1 .. (Len(lakeRun[r].doc) + 1)
    BY DEF LakeTypeOK
  <2>2. next = 1 \/ next = lakeRun[r].next
    OBVIOUS
  <2> HIDE DEF next
  <2> QED
    BY <2>1, <2>2
<1>5. /\ DOMAIN part' = Zone
      /\ \A z \in Zone : DOMAIN part'[z] \subseteq Nat /\ \A i \in DOMAIN part'[z] : part'[z][i] \in Seq(LakeRow)
  BY DEF LakeTypeOK, CloseWriter
<1>6. DOMAIN raw' = {"content", "claim"}
  BY DEF LakeTypeOK, CloseWriter
<1> HIDE DEF pc, next
<1> QED
  BY <1>1, <1>2, <1>3, <1>4, <1>5, <1>6, MovesTypeOK

\* Every step of the lake keeps the types.
LEMMA LakeTypeOKNext == LakeTypeOK /\ [LakeNext]_lakeVars => LakeTypeOK'
<1> SUFFICES ASSUME LakeTypeOK, [LakeNext]_lakeVars PROVE LakeTypeOK'
  OBVIOUS
<1>1. CASE UNCHANGED lakeVars
  BY <1>1 DEF LakeTypeOK, lakeVars
<1>2. ASSUME NEW r \in LakeRun, NEW k \in {"register", "events"}, NEW doc \in LakeDocs, BeginRun(r, k, doc)
      PROVE  LakeTypeOK'
  BY <1>2, BeginRunTypeOK
<1>3. ASSUME NEW r \in LakeRun, StartCopy(r) \/ EndCopy(r) \/ Describe(r) \/ CommitRows(r) \/ RunFails(r)
      PROVE  LakeTypeOK'
  <2>1. PICK pc \in LakePc : Go(r, pc) /\ UNCHANGED part
    BY <1>3 DEF StartCopy, EndCopy, Describe, CommitRows, RunFails, LakePc
  <2>2. DOMAIN raw' = {"content", "claim"}
    BY <1>3 DEF StartCopy, EndCopy, Describe, CommitRows, RunFails, LakeTypeOK
  <2> QED
    BY <2>1, <2>2, GoTypeOK
<1>4. ASSUME NEW r \in LakeRun, AddRow(r) PROVE LakeTypeOK'
  BY <1>4, AddRowTypeOK
<1>5. ASSUME NEW r \in LakeRun, NEW z \in Zone, ClearPartition(r, z) PROVE LakeTypeOK'
  BY <1>5, ClearTypeOK
<1>6. ASSUME NEW r \in LakeRun, NEW z \in Zone, PlacePart(r, z) PROVE LakeTypeOK'
  BY <1>6, PlaceTypeOK
<1>7. ASSUME NEW r \in LakeRun, CloseWriter(r) PROVE LakeTypeOK'
  BY <1>7, CloseTypeOK
<1> QED
  BY <1>1, <1>2, <1>3, <1>4, <1>5, <1>6, <1>7 DEF LakeNext

-----------------------------------------------------------------------------
(* The sidecar of the source document *)

LEMMA SidecarInvInit == LakeInit => SidecarInv
  BY DEF LakeInit, SidecarInv, NoFile, Unstarted

\* A step of one run keeps what the sidecar is said to be about.
LEMMA SidecarInvNext == LakeTypeOK /\ SidecarInv /\ [LakeNext]_lakeVars => SidecarInv'
<1> SUFFICES ASSUME LakeTypeOK, SidecarInv, [LakeNext]_lakeVars PROVE SidecarInv'
  OBVIOUS
<1>1. CASE UNCHANGED lakeVars
  BY <1>1 DEF SidecarInv, lakeVars
<1>2. ASSUME NEW r \in LakeRun, NEW k \in {"register", "events"}, NEW doc \in LakeDocs, BeginRun(r, k, doc)
      PROVE  SidecarInv'
  <2>1. /\ \A q \in LakeRun : q # r => lakeRun'[q] = lakeRun[q]
        /\ lakeRun'[r].kind = k
        /\ lakeRun'[r].pc = IF k = "register" THEN "adopting" ELSE "bronze"
    BY <1>2, BeginRunBegins
  <2>2. raw' = raw /\ lakeRun[r].pc = "idle"
    <3>1. r \notin Started \/ r < r
      BY <1>2 DEF BeginRun
    <3>2. ~(r < r)
      BY LakeAssumption
    <3> QED
      BY <1>2, <3>1, <3>2 DEF BeginRun, Started
  <2> QED
    BY <2>1, <2>2 DEF SidecarInv
<1>3. ASSUME NEW r \in LakeRun, StartCopy(r) PROVE SidecarInv'
  <2>1. Moves(r, "copying", lakeRun[r].next, lakeRun[r].buffer, lakeRun[r].cleared, lakeRun[r].written)
    BY <1>3, GoMoves DEF StartCopy
  <2> QED
    BY <1>3, <2>1 DEF SidecarInv, StartCopy, Moves
<1>4. ASSUME NEW r \in LakeRun, EndCopy(r) PROVE SidecarInv'
  <2>1. Moves(r, "hashing", lakeRun[r].next, lakeRun[r].buffer, lakeRun[r].cleared, lakeRun[r].written)
    BY <1>4, GoMoves DEF EndCopy
  <2> QED
    BY <1>4, <2>1 DEF SidecarInv, EndCopy, Moves
<1>5. ASSUME NEW r \in LakeRun, Describe(r) PROVE SidecarInv'
  <2>1. Moves(r, "streaming", lakeRun[r].next, lakeRun[r].buffer, lakeRun[r].cleared, lakeRun[r].written)
    BY <1>5, GoMoves DEF Describe
  <2>2. raw' = [raw EXCEPT !.claim = raw.content]
    BY <1>5 DEF Describe
  <2>3. raw'.claim = raw'.content
    BY <2>2 DEF LakeTypeOK
  <2> QED
    BY <2>1, <2>3 DEF SidecarInv, Moves
<1>6. ASSUME NEW r \in LakeRun, RunFails(r) PROVE SidecarInv'
  <2>1. Moves(r, "failed", lakeRun[r].next, lakeRun[r].buffer, lakeRun[r].cleared, lakeRun[r].written)
    BY <1>6, GoMoves DEF RunFails
  <2> QED
    BY <1>6, <2>1 DEF SidecarInv, RunFails, Moves
<1>7. ASSUME NEW r \in LakeRun, CommitRows(r) PROVE SidecarInv'
  <2>1. Moves(r, "done", lakeRun[r].next, lakeRun[r].buffer, lakeRun[r].cleared, lakeRun[r].written)
    BY <1>7, GoMoves DEF CommitRows
  <2> QED
    BY <1>7, <2>1 DEF SidecarInv, CommitRows, Moves
<1>8. ASSUME NEW r \in LakeRun, NEW z \in Zone,
             AddRow(r) \/ ClearPartition(r, z) \/ PlacePart(r, z) \/ CloseWriter(r)
      PROVE  SidecarInv'
  <2>1. /\ \A q \in LakeRun : q # r => lakeRun'[q] = lakeRun[q]
        /\ lakeRun'[r].kind = lakeRun[r].kind
        /\ lakeRun'[r].pc = lakeRun[r].pc \/ lakeRun'[r].pc = AfterReading(lakeRun[r].pc)
    BY <1>8, AddRowMoves, ClearMoves, PlaceMoves, CloseMoves DEF Moves
  <2>2. lakeRun[r].pc \in {"streaming", "closing", "bronze", "silver"}
    BY <1>8 DEF AddRow, ClearPartition, PlacePart, CloseWriter, PartDue, Open, Zone
  <2>3. raw' = raw
    BY <1>8 DEF AddRow, ClearPartition, PlacePart, CloseWriter
  <2> QED
    BY <2>1, <2>2, <2>3 DEF SidecarInv, AfterReading
<1> QED
  BY <1>1, <1>2, <1>3, <1>4, <1>5, <1>6, <1>7, <1>8 DEF LakeNext, Zone

-----------------------------------------------------------------------------
(* One run at a time *)

\* The run that is under way is the last one that has started, and has not committed.
LEMMA OnlyOneIsOngoing ==
  ASSUME LakeTypeOK, RunsAreOrdered, NEW r \in Ongoing
  PROVE  /\ r \in LakeRun /\ r \in Started
         /\ Ongoing = {r}
         /\ Started = {q \in LakeRun : q <= r}
         /\ committed # r
         /\ committed # 0 => committed \in LakeRun /\ committed < r
<1>1. r \in LakeRun /\ r \in Started /\ lakeRun[r].pc \notin {"idle", "done", "failed"}
  BY DEF Ongoing, Started
<1>2. PICK s \in Started : /\ Started = {q \in LakeRun : q <= s}
                           /\ \A q \in Started : q # s => lakeRun[q].pc \in {"done", "failed"}
  BY <1>1 DEF RunsAreOrdered
<1>3. s = r
  BY <1>1, <1>2
<1>4. Ongoing \subseteq {r}
  BY <1>2, <1>3 DEF Ongoing, Started
<1>5. committed # r
  <2> SUFFICES ASSUME committed = r PROVE FALSE
    OBVIOUS
  <2>1. r # 0
    BY <1>1, LakeAssumption
  <2> QED
    BY <1>1, <2>1 DEF RunsAreOrdered
<1>6. committed # 0 => committed \in LakeRun /\ committed < r
  <2> SUFFICES ASSUME committed # 0 PROVE committed \in LakeRun /\ committed < r
    OBVIOUS
  <2>1. committed \in Started
    BY DEF RunsAreOrdered
  <2>2. committed \in LakeRun /\ committed <= r
    BY <2>1, <1>2, <1>3
  <2>3. committed \in Nat /\ r \in Nat
    BY <1>1, <2>2, LakeAssumption
  <2> QED
    BY <2>2, <2>3, <1>5
<1> QED
  BY <1>1, <1>2, <1>3, <1>4, <1>5, <1>6

\* A step of the run under way keeps the order the runs have started in.
LEMMA OrderIsKept ==
  ASSUME LakeTypeOK, RunsAreOrdered, NEW r \in Ongoing,
         DOMAIN lakeRun' = LakeRun, \A q \in LakeRun : q # r => lakeRun'[q] = lakeRun[q],
         lakeRun'[r].pc # "idle",
         committed' = committed \/ (committed' = r /\ lakeRun'[r].pc = "done")
  PROVE  RunsAreOrdered' /\ Started' = Started
<1>1. /\ r \in LakeRun /\ r \in Started
      /\ Ongoing = {r}
      /\ Started = {q \in LakeRun : q <= r}
      /\ committed # r
  BY OnlyOneIsOngoing
<1>2. Started' = Started
  BY <1>1 DEF Started
<1>3. \A q \in Started : q # r => lakeRun[q].pc \in {"done", "failed"}
  BY <1>1 DEF Ongoing, Started
<1>4. \A q \in Started : q # r => lakeRun'[q].pc \in {"done", "failed"}
  BY <1>3 DEF Started
<1>5. committed' # 0 => committed' \in Started' /\ lakeRun'[committed'].pc = "done"
  <2>1. CASE committed' = committed
    <3>1. committed # 0 => committed \in Started /\ lakeRun[committed].pc = "done"
      BY DEF RunsAreOrdered
    <3>2. \A q \in Started : q \in LakeRun
      BY DEF Started
    <3> QED
      BY <1>1, <1>2, <2>1, <3>1, <3>2
  <2>2. CASE committed' = r /\ lakeRun'[r].pc = "done"
    BY <1>1, <1>2, <2>2
  <2> QED
    BY <2>1, <2>2
<1>6. Started' # {} => \E s \in Started' : /\ Started' = {q \in LakeRun : q <= s}
                                           /\ \A q \in Started' : q # s => lakeRun'[q].pc \in {"done", "failed"}
  BY <1>1, <1>2, <1>4
<1> QED
  BY <1>2, <1>5, <1>6 DEF RunsAreOrdered

\* Parts that are left alone stay sound: no run that has started gets another document.
LEMMA PartsStaySound ==
  ASSUME LakeTypeOK, NEW z \in Zone, part'[z] = part[z],
         \A row \in Held(z) : row[1] \in Started,
         \A q \in Started : q \in Started' /\ lakeRun'[q].doc = lakeRun[q].doc
  PROVE  /\ Held(z)' = Held(z)
         /\ PartsAreWhole(z) => PartsAreWhole(z)'
         /\ RowsAreInOrder(z) => RowsAreInOrder(z)'
         /\ NoRowIsSkipped(z) => NoRowIsSkipped(z)'
         /\ \A row \in Held(z)' : row[1] \in Started'
<1>1. Held(z)' = Held(z)
  BY DEF Held
<1>2. PartsAreWhole(z) => PartsAreWhole(z)'
  BY DEF PartsAreWhole
<1>3. RowsAreInOrder(z) => RowsAreInOrder(z)'
  BY DEF RowsAreInOrder
<1>4. \A q \in Started : RowsOf(q, z)' = RowsOf(q, z)
  BY DEF RowsOf
<1>5. NoRowIsSkipped(z) => NoRowIsSkipped(z)'
  BY <1>1, <1>4 DEF NoRowIsSkipped
<1> QED
  BY <1>1, <1>2, <1>3, <1>5

\* What the other parts of the invariant come to when a run moves and no rows are committed.
LEMMA LakeOKMoves ==
  ASSUME LakeTypeOK, LakeOK, NEW r \in Ongoing,
         NEW pc \in LakePc \ {"idle"}, NEW next, NEW buffer, NEW cleared, NEW written,
         Moves(r, pc, next, buffer, cleared, written),
         committed' = committed,
         PartitionsAreSound', HeldIsStarted',
         pc # "failed" => \A z \in Zone : ZoneIsWritten(r, z)',
         pc \in {"closing", "writing"} => Read(r)',
         pc \in {"adopting", "copying", "hashing"} => next = 1 /\ cleared = {}
  PROVE  LakeOK'
<1>1. /\ DOMAIN lakeRun' = LakeRun
      /\ \A q \in LakeRun : q # r => lakeRun'[q] = lakeRun[q]
      /\ lakeRun'[r].pc = pc /\ lakeRun'[r].next = next /\ lakeRun'[r].cleared = cleared
  BY DEF Moves
<1>2. RunsAreOrdered' /\ Started' = Started
  BY <1>1, OrderIsKept DEF LakeOK
<1>3. /\ r \in LakeRun /\ Ongoing = {r} /\ r \in Started
      /\ committed # 0 => committed \in LakeRun /\ committed < r
  BY OnlyOneIsOngoing DEF LakeOK
<1>4. CommittedIsHeld'
  <2> SUFFICES ASSUME committed # 0, \A q \in Started : q <= committed PROVE FALSE
    BY <1>2 DEF CommittedIsHeld
  <2>1. committed \in LakeRun /\ committed < r /\ r <= committed
    BY <1>3
  <2>2. committed \in Nat /\ r \in Nat
    BY <1>3, <2>1, LakeAssumption
  <2> QED
    BY <2>1, <2>2
<1>5. OngoingIsWritten'
  <2>1. \A q \in Ongoing' : q = r /\ pc # "failed"
    BY <1>1, <1>3 DEF Ongoing
  <2>2. \A q \in Ongoing', z \in Zone : ZoneIsWritten(q, z)'
    BY <2>1
  <2>3. \A q \in LakeRun : q # r => lakeRun[q].pc \in {"idle", "done", "failed"}
    BY <1>3 DEF Ongoing
  <2>4. \A q \in LakeRun : lakeRun'[q].pc \in {"closing", "writing"} => Read(q)'
    BY <1>1, <2>3
  <2>5. \A q \in LakeRun : lakeRun'[q].pc \in {"adopting", "copying", "hashing"} =>
                             lakeRun'[q].next = 1 /\ lakeRun'[q].cleared = {}
    BY <1>1, <2>3
  <2> QED
    BY <2>2, <2>4, <2>5 DEF OngoingIsWritten
<1> QED
  BY <1>2, <1>4, <1>5 DEF LakeOK

-----------------------------------------------------------------------------
(* What a run has written of a zone *)

\* A step that does nothing to a zone keeps what was written of it.
LEMMA ZoneIsKept ==
  ASSUME LakeTypeOK, NEW r \in LakeRun, NEW z \in Zone, ZoneIsWritten(r, z),
         part'[z] = part[z],
         lakeRun'[r].doc = lakeRun[r].doc,
         lakeRun'[r].buffer[z] = lakeRun[r].buffer[z],
         lakeRun'[r].written[z] = lakeRun[r].written[z],
         z \in lakeRun'[r].cleared <=> z \in lakeRun[r].cleared,
         Considered(r, z)' = Considered(r, z),
         z \in Open(r) /\ lakeRun[r].buffer[z] # <<>> => z \in Open(r)',
         lakeRun'[r].pc = "streaming" => lakeRun[r].pc = "streaming"
  PROVE  ZoneIsWritten(r, z)'
<1>1. Held(z)' = Held(z)
  BY DEF Held
<1>2. /\ Mine(r, z)' = Mine(r, z)
      /\ Buffered(r, z)' = Buffered(r, z)
      /\ RowsOf(r, z)' = RowsOf(r, z)
  BY <1>1 DEF Mine, Buffered, RowsOf
<1>3. Accounted(r, z)'
  BY <1>2 DEF ZoneIsWritten, Accounted
<1>4. BufferInOrder(r, z)'
  BY <1>2 DEF ZoneIsWritten, BufferInOrder
<1>5. BufferFits(r, z)'
  BY DEF ZoneIsWritten, BufferFits
<1>6. PartsAreCounted(r, z)'
  BY DEF ZoneIsWritten, PartsAreCounted
<1> QED
  BY <1>3, <1>4, <1>5, <1>6 DEF ZoneIsWritten

\* A run that has read nothing yet has written nothing.
LEMMA NothingIsWritten ==
  ASSUME NEW r \in LakeRun, NEW z \in Zone,
         lakeRun'[r].pc \in {"adopting", "copying", "hashing", "streaming", "bronze"},
         lakeRun'[r].doc \in Seq(BOOLEAN),
         lakeRun'[r].next = 1, lakeRun'[r].cleared = {},
         lakeRun'[r].buffer[z] = <<>>, lakeRun'[r].written[z] = 0
  PROVE  ZoneIsWritten(r, z)'
<1>1. Considered(r, z)' = 0
  BY DEF Considered, Zone
<1>2. Mine(r, z)' = {} /\ Buffered(r, z)' = {}
  BY DEF Mine, Buffered
<1>3. {q \in RowsOf(r, z)' : q[2] <= 0} = {}
  <2>1. \A i \in DOMAIN lakeRun'[r].doc : i \in Nat /\ ~(i <= 0)
    OBVIOUS
  <2>2. \A q \in RowsOf(r, z)' : \E i \in DOMAIN lakeRun'[r].doc : q = <<r, i>>
    BY DEF RowsOf
  <2> QED
    BY <2>1, <2>2
<1>4. Accounted(r, z)'
  BY <1>1, <1>2, <1>3 DEF Accounted
<1>5. BufferInOrder(r, z)'
  BY <1>2 DEF BufferInOrder
<1>6. BufferFits(r, z)'
  BY LakeAssumption DEF BufferFits
<1>7. PartsAreCounted(r, z)'
  BY DEF PartsAreCounted
<1> QED
  BY <1>4, <1>5, <1>6, <1>7 DEF ZoneIsWritten

LEMMA LakeOKInit == LakeInit => LakeOK
<1> SUFFICES ASSUME LakeInit PROVE LakeOK
  OBVIOUS
<1>1. /\ \A r \in LakeRun : lakeRun[r].pc = "idle"
      /\ committed = 0
      /\ \A z \in Zone : DOMAIN part[z] = {}
  BY DEF LakeInit, Unstarted
<1>2. Started = {} /\ Ongoing = {} /\ \A z \in Zone : Held(z) = {}
  BY <1>1 DEF Started, Ongoing, Held
<1>3. RunsAreOrdered /\ CommittedIsHeld
  BY <1>1, <1>2 DEF RunsAreOrdered, CommittedIsHeld
<1>4. PartitionsAreSound /\ HeldIsStarted
  BY <1>1, <1>2 DEF PartitionsAreSound, HeldIsStarted, PartsAreWhole, RowsAreInOrder, NoRowIsSkipped
<1>5. OngoingIsWritten
  BY <1>1, <1>2 DEF OngoingIsWritten
<1> QED
  BY <1>3, <1>4, <1>5 DEF LakeOK

\* A run that begins replaces nothing yet.
LEMMA BeginRunOK ==
  ASSUME LakeTypeOK, LakeOK, ~Overlap,
         NEW r \in LakeRun, NEW k \in {"register", "events"}, NEW doc \in LakeDocs, BeginRun(r, k, doc)
  PROVE  LakeOK'
<1>1. /\ DOMAIN lakeRun' = LakeRun
      /\ \A q \in LakeRun : q # r => lakeRun'[q] = lakeRun[q]
      /\ lakeRun'[r].pc \in {"adopting", "bronze"}
      /\ lakeRun'[r].next = 1 /\ lakeRun'[r].cleared = {}
      /\ \A z \in Zone : lakeRun'[r].buffer[z] = <<>> /\ lakeRun'[r].written[z] = 0
      /\ lakeRun'[r].doc \in Seq(BOOLEAN)
  BY BeginRunBegins, LakeAssumption
<1>2. /\ Started = {q \in LakeRun : q < r} /\ Ongoing = {}
      /\ part' = part /\ committed' = committed
  BY DEF BeginRun
<1>3. r \in Nat /\ \A q \in LakeRun : q \in Nat
  BY LakeAssumption
<1>4. r \notin Started /\ \A q \in LakeRun : q <= r <=> q < r \/ q = r
  BY <1>2, <1>3
<1>5. Started' = Started \cup {r}
  BY <1>1, <1>4 DEF Started
<1>6. Started' = {q \in LakeRun : q <= r}
  BY <1>2, <1>4, <1>5
<1>7. \A q \in Started : lakeRun[q].pc \in {"done", "failed"} /\ lakeRun'[q] = lakeRun[q] /\ q \in LakeRun
  BY <1>1, <1>2, <1>4 DEF Started, Ongoing
<1>8. RunsAreOrdered'
  <2>1. committed # 0 => committed \in Started /\ lakeRun[committed].pc = "done"
    BY DEF LakeOK, RunsAreOrdered
  <2>2. committed' # 0 => committed' \in Started' /\ lakeRun'[committed'].pc = "done"
    BY <1>2, <1>5, <1>7, <2>1
  <2>3. r \in Started' /\ \A q \in Started' : q # r => lakeRun'[q].pc \in {"done", "failed"}
    BY <1>5, <1>7
  <2> QED
    BY <1>6, <2>2, <2>3 DEF RunsAreOrdered
<1>9. PartitionsAreSound' /\ HeldIsStarted'
  <2> SUFFICES ASSUME NEW z \in Zone
               PROVE  /\ PartsAreWhole(z)' /\ RowsAreInOrder(z)' /\ NoRowIsSkipped(z)'
                      /\ \A row \in Held(z)' : row[1] \in Started'
    BY DEF PartitionsAreSound, HeldIsStarted
  <2>1. /\ PartsAreWhole(z) /\ RowsAreInOrder(z) /\ NoRowIsSkipped(z)
        /\ \A row \in Held(z) : row[1] \in Started
    BY DEF LakeOK, PartitionsAreSound, HeldIsStarted
  <2>2. \A q \in Started : q \in Started' /\ lakeRun'[q].doc = lakeRun[q].doc
    BY <1>5, <1>7
  <2>3. part'[z] = part[z]
    BY <1>2
  <2> QED
    BY <2>1, <2>2, <2>3, PartsStaySound
<1>10. CommittedIsHeld'
  <2> SUFFICES ASSUME committed # 0, \A q \in Started' : q <= committed PROVE FALSE
    BY <1>2 DEF CommittedIsHeld
  <2>1. committed \in Started
    BY DEF LakeOK, RunsAreOrdered
  <2>2. committed \in LakeRun /\ committed < r /\ r <= committed
    BY <1>2, <1>5, <2>1
  <2> QED
    BY <1>3, <2>2
<1>11. OngoingIsWritten'
  <2>1. Ongoing' = {r}
    BY <1>1, <1>2 DEF Ongoing
  <2>2. \A z \in Zone : ZoneIsWritten(r, z)'
    BY <1>1, NothingIsWritten
  <2>3. \A q \in LakeRun : q # r => lakeRun'[q].pc \in {"idle", "done", "failed"}
    BY <1>1, <1>2 DEF Ongoing
  <2>4. \A q \in Ongoing', z \in Zone : ZoneIsWritten(q, z)'
    BY <2>1, <2>2
  <2>5. \A q \in LakeRun : lakeRun'[q].pc \notin {"closing", "writing"}
    BY <1>1, <2>3
  <2>6. \A q \in LakeRun : lakeRun'[q].pc \in {"adopting", "copying", "hashing"} =>
                             lakeRun'[q].next = 1 /\ lakeRun'[q].cleared = {}
    BY <1>1, <2>3
  <2> QED
    BY <2>4, <2>5, <2>6 DEF OngoingIsWritten
<1> QED
  BY <1>8, <1>9, <1>10, <1>11 DEF LakeOK

\* Parts of a step of the run under way that writes none.
LEMMA PartitionsAreKept ==
  ASSUME LakeTypeOK, LakeOK, NEW r \in Ongoing,
         NEW pc \in LakePc \ {"idle"}, NEW next, NEW buffer, NEW cleared, NEW written,
         Moves(r, pc, next, buffer, cleared, written), UNCHANGED part
  PROVE  PartitionsAreSound' /\ HeldIsStarted'
<1>1. /\ \A q \in LakeRun : q # r => lakeRun'[q] = lakeRun[q]
      /\ lakeRun'[r].pc # "idle"
      /\ lakeRun'[r].doc = lakeRun[r].doc
  BY DEF Moves
<1>2. \A q \in Started : q \in Started' /\ lakeRun'[q].doc = lakeRun[q].doc
  BY <1>1 DEF Started
<1> SUFFICES ASSUME NEW z \in Zone
             PROVE  /\ PartsAreWhole(z)' /\ RowsAreInOrder(z)' /\ NoRowIsSkipped(z)'
                    /\ \A row \in Held(z)' : row[1] \in Started'
  BY DEF PartitionsAreSound, HeldIsStarted
<1>3. /\ PartsAreWhole(z) /\ RowsAreInOrder(z) /\ NoRowIsSkipped(z)
      /\ \A row \in Held(z) : row[1] \in Started
  BY DEF LakeOK, PartitionsAreSound, HeldIsStarted
<1> QED
  BY <1>2, <1>3, PartsStaySound

\* Adopting the document writes nothing of it.
LEMMA AdoptingOK ==
  ASSUME LakeTypeOK, LakeOK, NEW r \in LakeRun, StartCopy(r) \/ EndCopy(r) \/ Describe(r)
  PROVE  LakeOK'
<1>1. PICK pc \in {"copying", "hashing", "streaming"} : Go(r, pc) /\ UNCHANGED <<part, committed>>
  BY DEF StartCopy, EndCopy, Describe
<1>2. lakeRun[r].pc \in {"adopting", "copying", "hashing"}
  BY DEF StartCopy, EndCopy, Describe
<1>3. r \in Ongoing
  BY <1>2 DEF Ongoing
<1>4. Moves(r, pc, lakeRun[r].next, lakeRun[r].buffer, lakeRun[r].cleared, lakeRun[r].written)
  BY <1>1, GoMoves
<1>5. lakeRun[r].next = 1 /\ lakeRun[r].cleared = {}
  BY <1>2 DEF LakeOK, OngoingIsWritten
<1>6. pc \in LakePc \ {"idle"} /\ pc # "failed" /\ pc \notin {"closing", "writing"}
  BY <1>1 DEF LakePc
<1>7. \A z \in Zone : ZoneIsWritten(r, z)'
  <2> TAKE z \in Zone
  <2>1. ZoneIsWritten(r, z)
    BY <1>3 DEF LakeOK, OngoingIsWritten
  <2>2. lakeRun[r].buffer[z] = <<>>
    <3>1. Open(r) = {}
      BY <1>2 DEF Open, Zone
    <3> QED
      BY <2>1, <3>1 DEF ZoneIsWritten, BufferFits
  <2>3. lakeRun[r].written[z] = 0
    BY <1>5, <2>1 DEF ZoneIsWritten, PartsAreCounted
  <2>4. /\ lakeRun'[r].pc = pc /\ lakeRun'[r].next = 1 /\ lakeRun'[r].cleared = {}
        /\ lakeRun'[r].buffer[z] = <<>> /\ lakeRun'[r].written[z] = 0
    BY <1>4, <1>5, <2>2, <2>3 DEF Moves
  <2>5. lakeRun'[r].doc \in Seq(BOOLEAN)
    BY <1>4 DEF Moves, LakeTypeOK
  <2> QED
    BY <1>1, <2>4, <2>5, NothingIsWritten
<1>8. PartitionsAreSound' /\ HeldIsStarted'
  BY <1>1, <1>3, <1>4, <1>6, PartitionsAreKept
<1> QED
  BY <1>1, <1>3, <1>4, <1>5, <1>6, <1>7, <1>8, LakeOKMoves

\* A run that fails leaves its parts behind.
LEMMA RunFailsOK ==
  ASSUME LakeTypeOK, LakeOK, NEW r \in LakeRun, RunFails(r)
  PROVE  LakeOK'
<1>1. r \in Ongoing /\ Go(r, "failed") /\ UNCHANGED <<part, committed>>
  BY DEF RunFails
<1>2. Moves(r, "failed", lakeRun[r].next, lakeRun[r].buffer, lakeRun[r].cleared, lakeRun[r].written)
  BY <1>1, GoMoves
<1>3. "failed" \in LakePc \ {"idle"}
  BY DEF LakePc
<1>4. PartitionsAreSound' /\ HeldIsStarted'
  BY <1>1, <1>2, <1>3, PartitionsAreKept
<1> QED
  BY <1>1, <1>2, <1>3, <1>4, LakeOKMoves

\* The rows of a run that belong into a zone have the places of its document.
LEMMA RowsHavePlaces ==
  ASSUME LakeTypeOK, NEW r \in LakeRun, NEW z \in Zone, NEW q \in RowsOf(r, z)
  PROVE  /\ q = <<r, q[2]>> /\ q[1] = r
         /\ q[2] \in 1 .. Len(lakeRun[r].doc)
         /\ Belongs(z, lakeRun[r].doc[q[2]])
<1>1. PICK i \in DOMAIN lakeRun[r].doc : q = <<r, i>> /\ Belongs(z, lakeRun[r].doc[i])
  BY DEF RowsOf
<1>2. DOMAIN lakeRun[r].doc = 1 .. Len(lakeRun[r].doc)
  BY DEF LakeTypeOK
<1> QED
  BY <1>1, <1>2

\* A zone whose writer is open has one row more considered, and the row is in its buffer if
\* it belongs there.
LEMMA RowIsTaken ==
  ASSUME LakeTypeOK, NEW r \in LakeRun, NEW z \in Zone, ZoneIsWritten(r, z),
         AddRow(r), z \in Open(r)
  PROVE  ZoneIsWritten(r, z)'
<1> DEFINE i == lakeRun[r].next
           before == lakeRun[r].buffer[z]
           doc == lakeRun[r].doc
<1>1. /\ doc \in Seq(BOOLEAN) /\ i \in Nat /\ i >= 1 /\ i <= Len(doc)
  BY DEF LakeTypeOK, AddRow, Read
<1>2. before \in Seq(LakeRow) /\ Len(before) < PartRows
  <2>1. before \in Seq(LakeRow) /\ ~(Len(before) >= PartRows)
    BY DEF LakeTypeOK, AddRow, BufferFull
  <2>2. Len(before) \in Nat /\ PartRows \in Nat
    BY <2>1, LakeAssumption
  <2> QED
    BY <2>1, <2>2
<1>3. /\ lakeRun'[r].doc = doc
      /\ lakeRun'[r].next = i + 1
      /\ lakeRun'[r].pc = lakeRun[r].pc
      /\ lakeRun'[r].cleared = lakeRun[r].cleared
      /\ lakeRun'[r].written = lakeRun[r].written
      /\ lakeRun'[r].buffer[z] = Taken(r, z)
  BY AddRowMoves DEF Moves
<1>4. Taken(r, z) = IF Belongs(z, doc[i]) THEN Append(before, <<r, i>>) ELSE before
  BY DEF Taken
<1>5. lakeRun[r].pc \in {"streaming", z}
  BY DEF AddRow, Open, Zone
<1>6. Considered(r, z) = i - 1 /\ Considered(r, z)' = i
  <2>1. Considered(r, z) = i - 1
    BY <1>5 DEF Considered, Zone
  <2>2. Considered(r, z)' = lakeRun'[r].next - 1
    BY <1>3, <1>5 DEF Considered, Zone
  <2> QED
    BY <1>1, <1>3, <2>1, <2>2
<1>7. /\ Mine(r, z)' = Mine(r, z)
      /\ RowsOf(r, z)' = RowsOf(r, z)
  <2>1. Held(z)' = Held(z)
    BY DEF Held, AddRow
  <2> QED
    BY <1>3, <2>1 DEF Mine, RowsOf
<1>8. Mine(r, z) \cup Buffered(r, z) = {q \in RowsOf(r, z) : q[2] <= i - 1}
  BY <1>6 DEF ZoneIsWritten, Accounted
<1>9. \A q \in Mine(r, z) \cup Buffered(r, z) : q[2] < i
  <2> TAKE q \in Mine(r, z) \cup Buffered(r, z)
  <2>1. q \in RowsOf(r, z) /\ q[2] <= i - 1
    BY <1>8
  <2>2. q[2] \in Nat
    BY <2>1, RowsHavePlaces
  <2> QED
    BY <1>1, <2>1, <2>2
<1>10. CASE ~Belongs(z, doc[i])
  <2>1. lakeRun'[r].buffer[z] = before
    BY <1>3, <1>4, <1>10
  <2>2. Buffered(r, z)' = Buffered(r, z)
    BY <2>1 DEF Buffered
  <2>3. {q \in RowsOf(r, z) : q[2] <= i} = {q \in RowsOf(r, z) : q[2] <= i - 1}
    <3> SUFFICES ASSUME NEW q \in RowsOf(r, z) PROVE q[2] <= i <=> q[2] <= i - 1
      OBVIOUS
    <3>1. q[2] \in Nat /\ q[2] # i
      BY <1>10, RowsHavePlaces
    <3> QED
      BY <1>1, <3>1
  <2>4. Accounted(r, z)'
    BY <1>6, <1>7, <1>8, <2>2, <2>3 DEF Accounted
  <2>5. BufferInOrder(r, z)'
    BY <1>7, <2>1 DEF ZoneIsWritten, BufferInOrder
  <2>6. BufferFits(r, z)'
    BY <1>3, <2>1 DEF ZoneIsWritten, BufferFits, Open
  <2>7. PartsAreCounted(r, z)'
    <3>1. Considered(r, z) # Len(doc)
      BY <1>1, <1>6
    <3> QED
      BY <1>3, <2>1, <3>1 DEF ZoneIsWritten, PartsAreCounted, AddRow
  <2> QED
    BY <2>4, <2>5, <2>6, <2>7 DEF ZoneIsWritten
<1>11. CASE Belongs(z, doc[i])
  <2> DEFINE row == <<r, i>>
             after == Append(before, row)
  <2>1. lakeRun'[r].buffer[z] = after
    BY <1>3, <1>4, <1>11
  <2>2. row \in RowsOf(r, z) /\ row[2] = i
    <3>1. i \in DOMAIN doc
      BY <1>1
    <3> QED
      BY <1>11, <3>1 DEF RowsOf
  <2>3. row \in LakeRow
    BY <1>1 DEF LakeRow
  <2>4. /\ DOMAIN after = DOMAIN before \cup {Len(before) + 1}
        /\ Len(after) = Len(before) + 1
        /\ after[Len(before) + 1] = row
        /\ \A k \in DOMAIN before : after[k] = before[k] /\ k \in Nat /\ k < Len(before) + 1
    <3> HIDE DEF before, row
    <3> QED
      BY <1>2, <2>3
  <2>5. Buffered(r, z)' = Buffered(r, z) \cup {row}
    <3> HIDE DEF row, after
    <3>1. {after[k] : k \in DOMAIN after} = {before[k] : k \in DOMAIN before} \cup {row}
      BY <2>4
    <3> QED
      BY <2>1, <3>1 DEF Buffered
  <2>6. {q \in RowsOf(r, z) : q[2] <= i} = {q \in RowsOf(r, z) : q[2] <= i - 1} \cup {row}
    <3>1. ASSUME NEW q \in RowsOf(r, z) PROVE q[2] <= i <=> (q[2] <= i - 1 \/ q = row)
      <4>1. q = <<r, q[2]>> /\ q[2] \in Nat
        BY RowsHavePlaces
      <4> QED
        BY <1>1, <4>1
    <3> HIDE DEF row
    <3> QED
      BY <2>2, <3>1
  <2>7. Accounted(r, z)'
    BY <1>6, <1>7, <1>8, <2>5, <2>6 DEF Accounted
  <2>8. BufferInOrder(r, z)'
    <3> HIDE DEF row, after
    <3>1. \A k \in DOMAIN before : before[k][2] < i
      BY <1>9 DEF Buffered
    <3>2. \A k, l \in DOMAIN after : k < l => after[k][2] < after[l][2]
      <4> SUFFICES ASSUME NEW k \in DOMAIN after, NEW l \in DOMAIN after, k < l
                   PROVE  after[k][2] < after[l][2]
        OBVIOUS
      <4>1. k \in DOMAIN before
        BY <1>2, <2>4
      <4>2. CASE l \in DOMAIN before
        BY <2>4, <4>1, <4>2 DEF ZoneIsWritten, BufferInOrder
      <4>3. CASE l = Len(before) + 1
        BY <2>2, <2>4, <3>1, <4>1, <4>3
      <4> QED
        BY <2>4, <4>2, <4>3
    <3>3. \A q \in Mine(r, z) : \A k \in DOMAIN after : q[2] < after[k][2]
      <4> SUFFICES ASSUME NEW q \in Mine(r, z), NEW k \in DOMAIN after PROVE q[2] < after[k][2]
        OBVIOUS
      <4>1. CASE k \in DOMAIN before
        BY <2>4, <4>1 DEF ZoneIsWritten, BufferInOrder
      <4>2. CASE k = Len(before) + 1
        BY <1>9, <2>2, <2>4, <4>2
      <4> QED
        BY <2>4, <4>1, <4>2
    <3> QED
      BY <1>7, <2>1, <3>2, <3>3 DEF BufferInOrder
  <2>9. BufferFits(r, z)'
    <3>1. Len(lakeRun'[r].buffer[z]) <= PartRows
      <4> HIDE DEF after, before
      <4>1. Len(before) \in Nat /\ PartRows \in Nat
        BY <1>2, LakeAssumption
      <4> QED
        BY <1>2, <2>1, <2>4, <4>1
    <3>2. z \in Open(r)'
      BY <1>3 DEF Open
    <3> QED
      BY <3>1, <3>2 DEF BufferFits
  <2>10. PartsAreCounted(r, z)'
    <3>1. Considered(r, z) # Len(doc)
      BY <1>1, <1>6
    <3>2. part' = part
      BY DEF AddRow
    <3>3. z \in lakeRun[r].cleared => \A j \in DOMAIN part[z] : Len(part[z][j]) = PartRows
      BY <3>1 DEF ZoneIsWritten, PartsAreCounted
    <3> QED
      BY <1>3, <3>2, <3>3 DEF ZoneIsWritten, PartsAreCounted
  <2> QED
    BY <2>7, <2>8, <2>9, <2>10 DEF ZoneIsWritten
<1> QED
  BY <1>10, <1>11

\* Reading a row keeps every zone's account.
LEMMA AddRowOK ==
  ASSUME LakeTypeOK, LakeOK, NEW r \in LakeRun, AddRow(r)
  PROVE  LakeOK'
<1> DEFINE next == lakeRun[r].next + 1
           buffer == [z \in Zone |-> Taken(r, z)]
<1>1. Moves(r, lakeRun[r].pc, next, buffer, lakeRun[r].cleared, lakeRun[r].written)
  BY AddRowMoves
<1>2. lakeRun[r].pc \in {"bronze", "silver", "streaming"} /\ UNCHANGED <<part, committed>>
  BY DEF AddRow, Zone
<1>3. /\ r \in Ongoing /\ lakeRun[r].pc \in LakePc \ {"idle"} /\ lakeRun[r].pc # "failed"
      /\ lakeRun[r].pc \notin {"closing", "writing", "adopting", "copying", "hashing"}
  BY <1>2 DEF Ongoing, LakePc
<1>4. \A z \in Zone : ZoneIsWritten(r, z)'
  <2> TAKE z \in Zone
  <2>1. ZoneIsWritten(r, z)
    BY <1>3 DEF LakeOK, OngoingIsWritten
  <2>2. CASE z \in Open(r)
    BY <2>1, <2>2, RowIsTaken
  <2>3. CASE z \notin Open(r)
    <3>1. /\ lakeRun'[r].doc = lakeRun[r].doc /\ lakeRun'[r].pc = lakeRun[r].pc
          /\ lakeRun'[r].buffer[z] = lakeRun[r].buffer[z]
          /\ lakeRun'[r].written = lakeRun[r].written
          /\ lakeRun'[r].cleared = lakeRun[r].cleared
      BY <1>1, <2>3 DEF Moves, Taken
    <3>2. Considered(r, z)' = Considered(r, z)
      BY <1>2, <2>3, <3>1 DEF Considered, Open, Zone
    <3>3. part'[z] = part[z]
      BY <1>2
    <3> QED
      BY <2>1, <2>3, <3>1, <3>2, <3>3, ZoneIsKept
  <2> QED
    BY <2>2, <2>3
<1> HIDE DEF next, buffer
<1>5. PartitionsAreSound' /\ HeldIsStarted'
  BY <1>1, <1>2, <1>3, PartitionsAreKept
<1> QED
  BY <1>1, <1>2, <1>3, <1>4, <1>5, LakeOKMoves

\* Clearing a partition takes nothing of the run's own, which has written none there.
LEMMA ClearOK ==
  ASSUME LakeTypeOK, LakeOK, NEW r \in LakeRun, NEW z \in Zone, ClearPartition(r, z)
  PROVE  LakeOK'
<1> DEFINE cleared == lakeRun[r].cleared \cup {z}
<1>1. Moves(r, lakeRun[r].pc, lakeRun[r].next, lakeRun[r].buffer, cleared, lakeRun[r].written)
  BY ClearMoves
<1>2. /\ lakeRun[r].pc \in {"streaming", "closing", "bronze", "silver"}
      /\ lakeRun[r].buffer[z] # <<>>
      /\ z \notin lakeRun[r].cleared
      /\ committed' = committed
  BY DEF ClearPartition, PartDue, Open, Zone
<1>3. /\ r \in Ongoing /\ lakeRun[r].pc \in LakePc \ {"idle"} /\ lakeRun[r].pc # "failed"
      /\ lakeRun[r].pc \notin {"adopting", "copying", "hashing"}
  BY <1>2 DEF Ongoing, LakePc
<1>4. /\ DOMAIN part'[z] = {}
      /\ \A y \in Zone : y # z => part'[y] = part[y]
  <2>1. part' = [part EXCEPT ![z] = <<>>] /\ DOMAIN part = Zone
    BY DEF ClearPartition, LakeTypeOK
  <2> QED
    BY <2>1
<1>5. /\ lakeRun'[r].doc = lakeRun[r].doc
      /\ lakeRun'[r].pc = lakeRun[r].pc
      /\ lakeRun'[r].next = lakeRun[r].next
      /\ lakeRun'[r].buffer = lakeRun[r].buffer
      /\ lakeRun'[r].written = lakeRun[r].written
      /\ lakeRun'[r].cleared = cleared
      /\ \A q \in LakeRun : q # r => lakeRun'[q] = lakeRun[q]
  BY <1>1 DEF Moves
<1>6. \A y \in Zone : Considered(r, y)' = Considered(r, y)
  BY <1>5 DEF Considered
<1>7. Held(z)' = {}
  BY <1>4 DEF Held
<1>8. ASSUME NEW y \in Zone PROVE ZoneIsWritten(r, y)'
  <2>1. ZoneIsWritten(r, y)
    BY <1>3 DEF LakeOK, OngoingIsWritten
  <2>2. CASE y # z
    <3>1. y \in cleared <=> y \in lakeRun[r].cleared
      BY <2>2
    <3>2. y \in Open(r) => y \in Open(r)'
      BY <1>5 DEF Open
    <3> QED
      BY <1>4, <1>5, <1>6, <2>1, <2>2, <3>1, <3>2, ZoneIsKept
  <2>3. CASE y = z
    <3>1. /\ Mine(r, z) = {} /\ Mine(r, z)' = {}
          /\ Buffered(r, z)' = Buffered(r, z)
          /\ RowsOf(r, z)' = RowsOf(r, z)
      BY <1>2, <1>5, <1>7 DEF Mine, Buffered, RowsOf
    <3>2. Accounted(r, z)'
      BY <1>6, <2>1, <2>3, <3>1 DEF ZoneIsWritten, Accounted
    <3>3. BufferInOrder(r, z)'
      BY <1>5, <2>1, <2>3, <3>1 DEF ZoneIsWritten, BufferInOrder
    <3>4. BufferFits(r, z)'
      BY <1>5, <2>1, <2>3 DEF ZoneIsWritten, BufferFits, Open
    <3>5. PartsAreCounted(r, z)'
      <4>1. lakeRun'[r].written[z] = 0 /\ z \in lakeRun'[r].cleared
        BY <1>2, <1>5, <2>1, <2>3 DEF ZoneIsWritten, PartsAreCounted
      <4>2. DOMAIN part'[z] = 0 .. (0 - 1)
        BY <1>4
      <4> QED
        BY <1>4, <4>1, <4>2 DEF PartsAreCounted
    <3> QED
      BY <2>3, <3>2, <3>3, <3>4, <3>5 DEF ZoneIsWritten
  <2> QED
    BY <2>2, <2>3
<1>9. \A q \in Started : q \in Started' /\ lakeRun'[q].doc = lakeRun[q].doc
  BY <1>3, <1>5 DEF Started
<1>10. PartitionsAreSound' /\ HeldIsStarted'
  <2> SUFFICES ASSUME NEW y \in Zone
               PROVE  /\ PartsAreWhole(y)' /\ RowsAreInOrder(y)' /\ NoRowIsSkipped(y)'
                      /\ \A row \in Held(y)' : row[1] \in Started'
    BY DEF PartitionsAreSound, HeldIsStarted
  <2>1. CASE y = z
    BY <1>4, <1>7, <2>1 DEF PartsAreWhole, RowsAreInOrder, NoRowIsSkipped
  <2>2. CASE y # z
    <3>1. /\ PartsAreWhole(y) /\ RowsAreInOrder(y) /\ NoRowIsSkipped(y)
          /\ \A row \in Held(y) : row[1] \in Started
      BY DEF LakeOK, PartitionsAreSound, HeldIsStarted
    <3> QED
      BY <1>4, <1>9, <2>2, <3>1, PartsStaySound
  <2> QED
    BY <2>1, <2>2
<1>11. lakeRun[r].pc \in {"closing", "writing"} => Read(r)'
  <2>1. lakeRun[r].pc \in {"closing", "writing"} => Read(r)
    BY DEF LakeOK, OngoingIsWritten
  <2> QED
    BY <1>5, <2>1 DEF Read
<1> HIDE DEF cleared
<1> QED
  BY <1>1, <1>2, <1>3, <1>8, <1>10, <1>11, LakeOKMoves

\* A part that is placed holds the next rows of the run, after all that are in its parts.
LEMMA PartIsPlaced ==
  ASSUME LakeTypeOK, NEW r \in LakeRun, NEW z \in Zone, ZoneIsWritten(r, z),
         PlacePart(r, z)
  PROVE  /\ ZoneIsWritten(r, z)'
         /\ PartsAreWhole(z) => PartsAreWhole(z)'
         /\ RowsAreInOrder(z) => RowsAreInOrder(z)'
         /\ NoRowIsSkipped(z)'
         /\ \A row \in Held(z)' : row[1] = r
<1> DEFINE n == lakeRun[r].written[z]
           rows == lakeRun[r].buffer[z]
<1>1. /\ lakeRun'[r].doc = lakeRun[r].doc
      /\ lakeRun'[r].pc = lakeRun[r].pc
      /\ lakeRun'[r].next = lakeRun[r].next
      /\ lakeRun'[r].cleared = lakeRun[r].cleared
      /\ lakeRun'[r].buffer[z] = <<>>
      /\ lakeRun'[r].written[z] = n + 1
  <2>1. /\ lakeRun[r].buffer \in [Zone -> Seq(LakeRow)]
        /\ lakeRun[r].written \in [Zone -> Nat]
    BY DEF LakeTypeOK
  <2>2. /\ [lakeRun[r].buffer EXCEPT ![z] = <<>>][z] = <<>>
        /\ [lakeRun[r].written EXCEPT ![z] = n + 1][z] = n + 1
    BY <2>1
  <2> QED
    BY <2>2, PlaceMoves DEF Moves
<1>2. /\ z \in lakeRun[r].cleared /\ z \in Open(r) /\ rows # <<>>
      /\ Len(rows) >= PartRows \/ (lakeRun[r].pc # "streaming" /\ Read(r))
  BY DEF PlacePart, PartDue, BufferFull
<1>3. /\ DOMAIN part[z] = 0 .. (n - 1)
      /\ \A i \in DOMAIN part[z] : Len(part[z][i]) = PartRows
  BY <1>2 DEF ZoneIsWritten, PartsAreCounted
<1>4. n \in Nat /\ rows \in Seq(LakeRow) /\ PartRows \in Nat
  BY LakeAssumption DEF LakeTypeOK
<1>5. DOMAIN part'[z] = 0 .. n
  <2>1. DOMAIN part'[z] = DOMAIN part[z] \cup {n}
    BY PlacedParts
  <2> HIDE DEF n, rows
  <2> QED
    BY <1>3, <1>4, <2>1
<1>6. /\ part'[z][n] = rows
      /\ \A i \in 0 .. (n - 1) : part'[z][i] = part[z][i]
  <2>1. /\ part'[z][n] = rows
        /\ \A i \in DOMAIN part[z] : i # n => part'[z][i] = part[z][i]
    BY PlacedParts
  <2> HIDE DEF n, rows
  <2> QED
    BY <1>3, <1>4, <2>1
<1>7. Held(z)' = Held(z) \cup Buffered(r, z)
  <2> DEFINE in(p, i) == {p[i][k] : k \in DOMAIN p[i]}
  <2>1. \A i \in 0 .. (n - 1) : in(part'[z], i) = in(part[z], i)
    BY <1>6
  <2>2. in(part'[z], n) = Buffered(r, z)
    BY <1>6 DEF Buffered
  <2>3. DOMAIN part'[z] = DOMAIN part[z] \cup {n} /\ DOMAIN part[z] = 0 .. (n - 1)
    BY <1>3, PlacedParts
  <2>4. Held(z) = UNION {in(part[z], i) : i \in DOMAIN part[z]}
    BY DEF Held
  <2>5. Held(z)' = UNION {in(part'[z], i) : i \in DOMAIN part'[z]}
    BY DEF Held
  <2> HIDE DEF in, n
  <2> QED
    BY <2>1, <2>2, <2>3, <2>4, <2>5
<1>8. Mine(r, z) = Held(z) /\ Mine(r, z)' = Held(z)' /\ Buffered(r, z)' = {}
  BY <1>1, <1>2 DEF Mine, Buffered
<1>9. RowsOf(r, z)' = RowsOf(r, z) /\ Considered(r, z)' = Considered(r, z)
  BY <1>1 DEF RowsOf, Considered
<1>10. Held(z)' = {q \in RowsOf(r, z) : q[2] <= Considered(r, z)}
  BY <1>7, <1>8 DEF ZoneIsWritten, Accounted
<1>11. Accounted(r, z)'
  BY <1>8, <1>9, <1>10 DEF Accounted
<1>12. BufferInOrder(r, z)'
  BY <1>1 DEF BufferInOrder
<1>13. BufferFits(r, z)'
  BY <1>1, <1>4 DEF BufferFits
<1>14. PartsAreCounted(r, z)'
  <2>1. DOMAIN part'[z] = 0 .. (lakeRun'[r].written[z] - 1)
    BY <1>1, <1>4, <1>5
  <2>2. ASSUME NEW i \in DOMAIN part'[z], Len(part'[z][i]) # PartRows
        PROVE  Considered(r, z) = Len(lakeRun[r].doc) /\ lakeRun[r].pc # "streaming"
    <3>1. i = n
      <4> HIDE DEF n, rows
      <4>1. i \in 0 .. (n - 1) \/ i = n
        BY <1>4, <1>5
      <4> QED
        BY <1>3, <1>6, <2>2, <4>1
    <3>2. Len(rows) <= PartRows
      BY DEF ZoneIsWritten, BufferFits
    <3>3. lakeRun[r].pc # "streaming" /\ Read(r)
      <4> HIDE DEF n, rows
      <4>1. Len(rows) # PartRows /\ Len(rows) \in Nat
        BY <1>4, <1>6, <2>2, <3>1
      <4>2. ~(Len(rows) >= PartRows)
        BY <1>4, <3>2, <4>1
      <4> QED
        BY <1>2, <4>2
    <3>4. lakeRun[r].next - 1 = Len(lakeRun[r].doc)
      <4>1. /\ lakeRun[r].doc \in Seq(BOOLEAN)
            /\ lakeRun[r].next \in 1 .. (Len(lakeRun[r].doc) + 1)
        BY DEF LakeTypeOK
      <4> QED
        BY <3>3, <4>1 DEF Read
    <3>5. lakeRun[r].pc \in {"streaming", "closing", z}
      BY <1>2 DEF Open, Zone
    <3>6. Considered(r, z) = lakeRun[r].next - 1
      BY <3>5 DEF Considered, Zone
    <3> QED
      BY <3>3, <3>4, <3>6
  <2> QED
    BY <1>1, <1>2, <1>9, <2>1, <2>2 DEF PartsAreCounted
<1>15. PartsAreWhole(z) => PartsAreWhole(z)'
  <2> SUFFICES ASSUME NEW i \in DOMAIN part'[z]
               PROVE  /\ 0 .. i \subseteq DOMAIN part'[z]
                      /\ i + 1 \in DOMAIN part'[z] => Len(part'[z][i]) = PartRows
    BY DEF PartsAreWhole
  <2> HIDE DEF n, rows
  <2>1. 0 .. i \subseteq DOMAIN part'[z]
    BY <1>4, <1>5
  <2>2. ASSUME i + 1 \in DOMAIN part'[z] PROVE Len(part'[z][i]) = PartRows
    <3>1. i \in 0 .. (n - 1)
      BY <1>4, <1>5, <2>2
    <3> QED
      BY <1>3, <1>6, <3>1
  <2> QED
    BY <2>1, <2>2
<1>16. RowsAreInOrder(z) => RowsAreInOrder(z)'
  <2> SUFFICES ASSUME RowsAreInOrder(z),
                      NEW i \in DOMAIN part'[z], NEW j \in DOMAIN part'[z],
                      NEW k \in DOMAIN part'[z][i], NEW l \in DOMAIN part'[z][j]
               PROVE  /\ part'[z][i][k][1] = part'[z][j][l][1]
                      /\ i < j \/ (i = j /\ k < l) => part'[z][i][k][2] < part'[z][j][l][2]
    BY DEF RowsAreInOrder
  <2>1. \A q \in Held(z)' : q[1] = r
    BY <1>10, RowsHavePlaces
  <2>2. part'[z][i][k] \in Held(z)' /\ part'[z][j][l] \in Held(z)'
    BY DEF Held
  <2>3. /\ (i \in 0 .. (n - 1) /\ part'[z][i] = part[z][i]) \/ (i = n /\ part'[z][i] = rows)
        /\ (j \in 0 .. (n - 1) /\ part'[z][j] = part[z][j]) \/ (j = n /\ part'[z][j] = rows)
    <3> HIDE DEF n, rows
    <3> QED
      BY <1>4, <1>5, <1>6
  <2>4. ASSUME i < j \/ (i = j /\ k < l) PROVE part'[z][i][k][2] < part'[z][j][l][2]
    <3>1. CASE i \in 0 .. (n - 1) /\ j \in 0 .. (n - 1)
      <4>1. i \in DOMAIN part[z] /\ j \in DOMAIN part[z] /\ part'[z][i] = part[z][i] /\ part'[z][j] = part[z][j]
        BY <1>3, <1>6, <3>1
      <4> QED
        BY <2>4, <4>1 DEF RowsAreInOrder
    <3>2. CASE i \in 0 .. (n - 1) /\ j = n
      <4>1. part'[z][i] = part[z][i] /\ part'[z][j] = rows /\ i \in DOMAIN part[z]
        BY <1>3, <1>6, <3>2
      <4>2. part[z][i][k] \in Held(z)
        BY <4>1 DEF Held
      <4>3. part[z][i][k][2] < rows[l][2]
        BY <1>8, <4>1, <4>2 DEF ZoneIsWritten, BufferInOrder
      <4> QED
        BY <4>1, <4>3
    <3>3. CASE i = n /\ j = n
      <4>1. part'[z][i] = rows /\ part'[z][j] = rows
        BY <1>6, <3>3
      <4>2. k < l
        <5> HIDE DEF n
        <5> QED
          BY <1>4, <2>4, <3>3
      <4> QED
        BY <4>1, <4>2 DEF ZoneIsWritten, BufferInOrder
    <3>4. ~(i = n /\ j \in 0 .. (n - 1))
      <4> HIDE DEF n
      <4> QED
        BY <1>4, <2>4
    <3> QED
      BY <2>3, <3>1, <3>2, <3>3, <3>4
  <2> QED
    BY <2>1, <2>2, <2>4
<1>17. NoRowIsSkipped(z)'
  <2> SUFFICES ASSUME NEW row \in Held(z)'
               PROVE  /\ row \in RowsOf(row[1], z)'
                      /\ \A q \in RowsOf(row[1], z)' : q[2] < row[2] => q \in Held(z)'
    BY DEF NoRowIsSkipped
  <2>1. row \in RowsOf(r, z) /\ row[2] <= Considered(r, z)
    BY <1>10
  <2>2. row[1] = r /\ row[2] \in Nat
    BY <2>1, RowsHavePlaces
  <2>3. row \in RowsOf(row[1], z)'
    BY <1>9, <2>1, <2>2
  <2>4. ASSUME NEW q \in RowsOf(r, z), q[2] < row[2] PROVE q \in Held(z)'
    <3>1. q[2] \in Nat
      BY RowsHavePlaces
    <3>2. Considered(r, z) \in Nat
      <4>1. lakeRun[r].doc \in Seq(BOOLEAN) /\ lakeRun[r].next \in 1 .. (Len(lakeRun[r].doc) + 1)
        BY DEF LakeTypeOK
      <4>2. Len(lakeRun[r].doc) \in Nat /\ lakeRun[r].next - 1 \in Nat
        BY <4>1
      <4> QED
        BY <4>2 DEF Considered
    <3>3. q[2] <= Considered(r, z)
      BY <2>1, <2>2, <2>4, <3>1, <3>2
    <3> QED
      BY <1>10, <3>3
  <2> QED
    BY <1>9, <2>2, <2>3, <2>4
<1>18. \A row \in Held(z)' : row[1] = r
  BY <1>10, RowsHavePlaces
<1> QED
  BY <1>11, <1>12, <1>13, <1>14, <1>15, <1>16, <1>17, <1>18 DEF ZoneIsWritten

\* Placing a part moves rows of the run from its buffer into its parts.
LEMMA PlaceOK ==
  ASSUME LakeTypeOK, LakeOK, NEW r \in LakeRun, NEW z \in Zone, PlacePart(r, z)
  PROVE  LakeOK'
<1> DEFINE buffer == [lakeRun[r].buffer EXCEPT ![z] = <<>>]
           written == [lakeRun[r].written EXCEPT ![z] = lakeRun[r].written[z] + 1]
<1>1. Moves(r, lakeRun[r].pc, lakeRun[r].next, buffer, lakeRun[r].cleared, written)
  BY PlaceMoves
<1>2. /\ lakeRun[r].pc \in {"streaming", "closing", "bronze", "silver"}
      /\ committed' = committed
  BY DEF PlacePart, PartDue, Open, Zone
<1>3. /\ r \in Ongoing /\ lakeRun[r].pc \in LakePc \ {"idle"} /\ lakeRun[r].pc # "failed"
      /\ lakeRun[r].pc \notin {"adopting", "copying", "hashing"}
  BY <1>2 DEF Ongoing, LakePc
<1>4. /\ lakeRun'[r].doc = lakeRun[r].doc
      /\ lakeRun'[r].pc = lakeRun[r].pc
      /\ lakeRun'[r].next = lakeRun[r].next
      /\ lakeRun'[r].cleared = lakeRun[r].cleared
      /\ \A q \in LakeRun : q # r => lakeRun'[q] = lakeRun[q]
  BY <1>1 DEF Moves
<1>5. \A y \in Zone : y # z => /\ lakeRun'[r].buffer[y] = lakeRun[r].buffer[y]
                               /\ lakeRun'[r].written[y] = lakeRun[r].written[y]
                               /\ part'[y] = part[y]
  <2>1. /\ lakeRun[r].buffer \in [Zone -> Seq(LakeRow)]
        /\ lakeRun[r].written \in [Zone -> Nat]
    BY DEF LakeTypeOK
  <2>2. \A y \in Zone : y # z => buffer[y] = lakeRun[r].buffer[y] /\ written[y] = lakeRun[r].written[y]
    BY <2>1
  <2> HIDE DEF buffer, written
  <2> QED
    BY <1>1, <2>2, PlacedParts DEF Moves
<1>6. ZoneIsWritten(r, z)
  BY <1>3 DEF LakeOK, OngoingIsWritten
<1>7. ASSUME NEW y \in Zone PROVE ZoneIsWritten(r, y)'
  <2>1. CASE y = z
    BY <1>6, <2>1, PartIsPlaced
  <2>2. CASE y # z
    <3>1. ZoneIsWritten(r, y)
      BY <1>3 DEF LakeOK, OngoingIsWritten
    <3>2. Considered(r, y)' = Considered(r, y) /\ (y \in Open(r) => y \in Open(r)')
      BY <1>4 DEF Considered, Open
    <3> QED
      BY <1>4, <1>5, <2>2, <3>1, <3>2, ZoneIsKept
  <2> QED
    BY <2>1, <2>2
<1>8. r \in Started' /\ \A q \in Started : q \in Started' /\ lakeRun'[q].doc = lakeRun[q].doc
  BY <1>3, <1>4 DEF Started
<1>9. PartitionsAreSound' /\ HeldIsStarted'
  <2> SUFFICES ASSUME NEW y \in Zone
               PROVE  /\ PartsAreWhole(y)' /\ RowsAreInOrder(y)' /\ NoRowIsSkipped(y)'
                      /\ \A row \in Held(y)' : row[1] \in Started'
    BY DEF PartitionsAreSound, HeldIsStarted
  <2>1. /\ PartsAreWhole(y) /\ RowsAreInOrder(y) /\ NoRowIsSkipped(y)
        /\ \A row \in Held(y) : row[1] \in Started
    BY DEF LakeOK, PartitionsAreSound, HeldIsStarted
  <2>2. CASE y = z
    BY <1>6, <1>8, <2>1, <2>2, PartIsPlaced
  <2>3. CASE y # z
    BY <1>5, <1>8, <2>1, <2>3, PartsStaySound
  <2> QED
    BY <2>2, <2>3
<1>10. lakeRun[r].pc \in {"closing", "writing"} => Read(r)'
  <2>1. lakeRun[r].pc \in {"closing", "writing"} => Read(r)
    BY DEF LakeOK, OngoingIsWritten
  <2> QED
    BY <1>4, <2>1 DEF Read
<1> HIDE DEF buffer, written
<1> QED
  BY <1>1, <1>2, <1>3, <1>7, <1>9, <1>10, LakeOKMoves

\* A writer that closes has written its zone out; the next one starts over.
LEMMA CloseOK ==
  ASSUME LakeTypeOK, LakeOK, NEW r \in LakeRun, CloseWriter(r)
  PROVE  LakeOK'
<1> DEFINE pc == AfterReading(lakeRun[r].pc)
           next == IF lakeRun[r].pc = "bronze" THEN 1 ELSE lakeRun[r].next
<1>1. Moves(r, pc, next, lakeRun[r].buffer, lakeRun[r].cleared, lakeRun[r].written)
  BY CloseMoves
<1>2. /\ lakeRun[r].pc \in {"bronze", "silver", "streaming"} /\ Read(r)
      /\ \A z \in Zone : ~PartDue(r, z)
      /\ UNCHANGED <<part, committed>>
  BY DEF CloseWriter, Zone
<1>3. /\ r \in Ongoing /\ pc \in LakePc \ {"idle"} /\ pc # "failed"
      /\ pc \notin {"adopting", "copying", "hashing"}
  BY <1>2 DEF Ongoing, LakePc, AfterReading
<1>4. lakeRun[r].next - 1 = Len(lakeRun[r].doc)
  <2>1. lakeRun[r].doc \in Seq(BOOLEAN) /\ lakeRun[r].next \in 1 .. (Len(lakeRun[r].doc) + 1)
    BY DEF LakeTypeOK
  <2> QED
    BY <1>2, <2>1 DEF Read
<1>5. /\ lakeRun'[r].doc = lakeRun[r].doc
      /\ lakeRun'[r].pc = pc
      /\ lakeRun'[r].next = next
      /\ lakeRun'[r].buffer = lakeRun[r].buffer
      /\ lakeRun'[r].written = lakeRun[r].written
      /\ lakeRun'[r].cleared = lakeRun[r].cleared
  BY <1>1 DEF Moves
<1>6. ASSUME NEW z \in Zone PROVE ZoneIsWritten(r, z)'
  <2>1. ZoneIsWritten(r, z)
    BY <1>3 DEF LakeOK, OngoingIsWritten
  <2>2. lakeRun[r].buffer[z] # <<>> => z \in Open(r)
    BY <2>1 DEF ZoneIsWritten, BufferFits
  <2>3. Considered(r, z)' = Considered(r, z)
    <3>1. CASE lakeRun[r].pc = "streaming"
      <4>1. lakeRun'[r].pc = "closing" /\ lakeRun'[r].next = lakeRun[r].next
        BY <1>5, <3>1 DEF AfterReading
      <4> QED
        BY <3>1, <4>1 DEF Considered, Zone
    <3>2. CASE lakeRun[r].pc = "bronze"
      <4>1. lakeRun'[r].pc = "silver" /\ lakeRun'[r].next = 1
        BY <1>5, <3>2 DEF AfterReading
      <4>2. CASE z = "bronze"
        BY <1>4, <1>5, <3>2, <4>1, <4>2 DEF Considered, Zone
      <4>3. CASE z = "silver"
        BY <1>4, <1>5, <3>2, <4>1, <4>3 DEF Considered, Zone
      <4> QED
        BY <4>2, <4>3 DEF Zone
    <3>3. CASE lakeRun[r].pc = "silver"
      <4>1. lakeRun'[r].pc = "writing"
        BY <1>5, <3>3 DEF AfterReading
      <4>2. CASE z = "bronze"
        BY <1>4, <1>5, <3>3, <4>1, <4>2 DEF Considered, Zone
      <4>3. CASE z = "silver"
        BY <1>4, <1>5, <3>3, <4>1, <4>3 DEF Considered, Zone
      <4> QED
        BY <4>2, <4>3 DEF Zone
    <3> QED
      BY <1>2, <3>1, <3>2, <3>3
  <2>4. z \in Open(r) /\ lakeRun[r].buffer[z] # <<>> => z \in Open(r)'
    <3> SUFFICES ASSUME z \in Open(r), lakeRun[r].buffer[z] # <<>> PROVE z \in Open(r)'
      OBVIOUS
    <3>1. lakeRun[r].pc = "streaming"
      BY <1>2 DEF PartDue
    <3>2. lakeRun'[r].pc = "closing"
      BY <1>5, <3>1 DEF AfterReading
    <3>3. Open(r)' = Zone
      BY <3>2 DEF Open, Zone
    <3> QED
      BY <3>3
  <2>5. lakeRun'[r].pc # "streaming"
    BY <1>5 DEF AfterReading
  <2>6. part'[z] = part[z]
    BY <1>2
  <2> QED
    BY <1>3, <1>5, <2>1, <2>3, <2>4, <2>5, <2>6, ZoneIsKept DEF Ongoing
<1>7. pc \in {"closing", "writing"} => Read(r)'
  <2>1. pc \in {"closing", "writing"} => next = lakeRun[r].next
    BY <1>2 DEF AfterReading
  <2> QED
    BY <1>2, <1>5, <2>1 DEF Read
<1> HIDE DEF pc, next
<1>8. PartitionsAreSound' /\ HeldIsStarted'
  BY <1>1, <1>2, <1>3, PartitionsAreKept
<1> QED
  BY <1>1, <1>2, <1>3, <1>6, <1>7, <1>8, LakeOKMoves

\* When a run commits, every zone it has rows for holds all of them.
LEMMA CommitRowsOK ==
  ASSUME LakeTypeOK, LakeOK, NEW r \in LakeRun, CommitRows(r)
  PROVE  LakeOK'
<1>1. /\ lakeRun[r].pc \in {"closing", "writing"}
      /\ \A z \in Zone : ~PartDue(r, z)
      /\ committed' = r /\ Go(r, "done") /\ UNCHANGED part
  BY DEF CommitRows
<1>2. Moves(r, "done", lakeRun[r].next, lakeRun[r].buffer, lakeRun[r].cleared, lakeRun[r].written)
  BY <1>1, GoMoves
<1>3. r \in Ongoing /\ "done" \in LakePc \ {"idle"}
  BY <1>1 DEF Ongoing, LakePc
<1>4. /\ DOMAIN lakeRun' = LakeRun
      /\ \A q \in LakeRun : q # r => lakeRun'[q] = lakeRun[q]
      /\ lakeRun'[r].pc = "done" /\ lakeRun'[r].doc = lakeRun[r].doc
  BY <1>2 DEF Moves
<1>5. RunsAreOrdered'
  BY <1>1, <1>3, <1>4, OrderIsKept DEF LakeOK
<1>6. PartitionsAreSound' /\ HeldIsStarted'
  BY <1>1, <1>2, <1>3, PartitionsAreKept
<1>7. Read(r)
  BY <1>1 DEF LakeOK, OngoingIsWritten
<1>8. CommittedIsHeld'
  <2> SUFFICES ASSUME NEW z \in Zone, RowsOf(r, z)' # {} PROVE Held(z)' = RowsOf(r, z)'
    BY <1>1 DEF CommittedIsHeld
  <2>1. ZoneIsWritten(r, z)
    BY <1>3 DEF LakeOK, OngoingIsWritten
  <2>2. lakeRun[r].buffer[z] = <<>>
    <3>1. z \in Open(r) => lakeRun[r].buffer[z] = <<>>
      BY <1>1, <1>7 DEF PartDue
    <3> QED
      BY <2>1, <3>1 DEF ZoneIsWritten, BufferFits
  <2>3. lakeRun[r].doc \in Seq(BOOLEAN) /\ lakeRun[r].next \in 1 .. (Len(lakeRun[r].doc) + 1)
    BY DEF LakeTypeOK
  <2>4. Considered(r, z) = Len(lakeRun[r].doc)
    <3>1. lakeRun[r].next - 1 = Len(lakeRun[r].doc)
      BY <1>7, <2>3 DEF Read
    <3> QED
      BY <1>1, <3>1 DEF Considered, Zone
  <2>5. \A q \in RowsOf(r, z) : q[2] <= Considered(r, z)
    BY <2>4, RowsHavePlaces
  <2>6. Mine(r, z) = RowsOf(r, z)
    <3>1. Buffered(r, z) = {}
      BY <2>2 DEF Buffered
    <3>2. Mine(r, z) = {q \in RowsOf(r, z) : q[2] <= Considered(r, z)}
      BY <2>1, <3>1 DEF ZoneIsWritten, Accounted
    <3> QED
      BY <2>5, <3>2
  <2>7. RowsOf(r, z)' = RowsOf(r, z) /\ Held(z)' = Held(z)
    BY <1>1, <1>4 DEF RowsOf, Held
  <2> QED
    BY <2>6, <2>7 DEF Mine
<1>9. OngoingIsWritten'
  <2>1. Ongoing = {r}
    BY <1>3, OnlyOneIsOngoing DEF LakeOK
  <2>2. \A q \in LakeRun : lakeRun'[q].pc \in {"idle", "done", "failed"}
    BY <1>4, <2>1 DEF Ongoing
  <2> QED
    BY <2>2 DEF OngoingIsWritten, Ongoing
<1> QED
  BY <1>5, <1>6, <1>8, <1>9 DEF LakeOK

-----------------------------------------------------------------------------
(* The invariant of the lake *)

LEMMA LakeInvInit == LakeInit => LakeInv
  BY LakeTypeOKInit, SidecarInvInit, LakeOKInit DEF LakeInv

LEMMA LakeInvNext == LakeInv /\ [LakeNext]_lakeVars => LakeInv'
<1> SUFFICES ASSUME LakeInv, [LakeNext]_lakeVars PROVE LakeInv'
  OBVIOUS
<1>1. LakeTypeOK' /\ SidecarInv'
  BY LakeTypeOKNext, SidecarInvNext DEF LakeInv
<1>2. ASSUME ~Overlap PROVE LakeOK'
  <2>1. LakeTypeOK /\ LakeOK
    BY <1>2 DEF LakeInv
  <2>2. CASE UNCHANGED lakeVars
    <3>1. lakeRun' = lakeRun /\ part' = part /\ committed' = committed
      BY <2>2 DEF lakeVars
    <3>2. Started' = Started /\ Ongoing' = Ongoing
      BY <3>1 DEF Started, Ongoing
    <3>3. ASSUME NEW z \in Zone
          PROVE  /\ Held(z)' = Held(z)
                 /\ PartsAreWhole(z) => PartsAreWhole(z)'
                 /\ RowsAreInOrder(z) => RowsAreInOrder(z)'
                 /\ NoRowIsSkipped(z) => NoRowIsSkipped(z)'
                 /\ \A row \in Held(z)' : row[1] \in Started'
      BY <2>1, <3>1, <3>2, PartsStaySound DEF LakeOK, HeldIsStarted
    <3>4. RunsAreOrdered'
      BY <2>1, <3>1, <3>2 DEF LakeOK, RunsAreOrdered
    <3>5. PartitionsAreSound' /\ HeldIsStarted'
      BY <2>1, <3>3 DEF LakeOK, PartitionsAreSound, HeldIsStarted
    <3>6. CommittedIsHeld'
      <4>1. \A z \in Zone : RowsOf(committed, z)' = RowsOf(committed, z)
        BY <3>1 DEF RowsOf
      <4> QED
        BY <2>1, <3>1, <3>2, <3>3, <4>1 DEF LakeOK, CommittedIsHeld
    <3>7. OngoingIsWritten'
      <4>1. ASSUME NEW q \in Ongoing, NEW z \in Zone PROVE ZoneIsWritten(q, z)'
        <5>1. q \in LakeRun /\ ZoneIsWritten(q, z)
          BY <2>1 DEF Ongoing, LakeOK, OngoingIsWritten
        <5>2. Considered(q, z)' = Considered(q, z) /\ Open(q)' = Open(q)
          BY <3>1 DEF Considered, Open
        <5> QED
          BY <2>1, <3>1, <5>1, <5>2, ZoneIsKept
      <4>2. \A q \in LakeRun : Read(q)' = Read(q)
        BY <3>1 DEF Read
      <4> QED
        BY <2>1, <3>1, <3>2, <4>1, <4>2 DEF LakeOK, OngoingIsWritten
    <3> QED
      BY <3>4, <3>5, <3>6, <3>7 DEF LakeOK
  <2>3. ASSUME NEW r \in LakeRun, NEW k \in {"register", "events"}, NEW doc \in LakeDocs, BeginRun(r, k, doc)
        PROVE  LakeOK'
    BY <1>2, <2>1, <2>3, BeginRunOK
  <2>4. ASSUME NEW r \in LakeRun, StartCopy(r) \/ EndCopy(r) \/ Describe(r) PROVE LakeOK'
    BY <2>1, <2>4, AdoptingOK
  <2>5. ASSUME NEW r \in LakeRun, AddRow(r) PROVE LakeOK'
    BY <2>1, <2>5, AddRowOK
  <2>6. ASSUME NEW r \in LakeRun, NEW z \in Zone, ClearPartition(r, z) PROVE LakeOK'
    BY <2>1, <2>6, ClearOK
  <2>7. ASSUME NEW r \in LakeRun, NEW z \in Zone, PlacePart(r, z) PROVE LakeOK'
    BY <2>1, <2>7, PlaceOK
  <2>8. ASSUME NEW r \in LakeRun, CloseWriter(r) PROVE LakeOK'
    BY <2>1, <2>8, CloseOK
  <2>9. ASSUME NEW r \in LakeRun, CommitRows(r) PROVE LakeOK'
    BY <2>1, <2>9, CommitRowsOK
  <2>10. ASSUME NEW r \in LakeRun, RunFails(r) PROVE LakeOK'
    BY <2>1, <2>10, RunFailsOK
  <2> QED
    BY <2>2, <2>3, <2>4, <2>5, <2>6, <2>7, <2>8, <2>9, <2>10 DEF LakeNext
<1> QED
  BY <1>1, <1>2 DEF LakeInv

\* The invariant says what the lake is for.
LEMMA LakeInvHolds == LakeInv => LakeHoldsTheRun /\ SidecarsDescribe
<1> SUFFICES ASSUME LakeInv PROVE LakeHoldsTheRun /\ SidecarsDescribe
  OBVIOUS
<1>1. SidecarsDescribe
  BY DEF LakeInv, SidecarInv, SidecarsDescribe, Started
<1>2. ASSUME ~Overlap
      PROVE  /\ \A z \in Zone : PartsAreWhole(z) /\ RowsAreInOrder(z) /\ NoRowIsSkipped(z)
             /\ committed # 0 /\ committed = Latest =>
                  \A z \in Zone : RowsOf(committed, z) # {} => Held(z) = RowsOf(committed, z)
  <2>1. LakeOK
    BY <1>2 DEF LakeInv
  <2>2. ASSUME committed # 0, committed = Latest PROVE \A q \in Started : q <= committed
    <3>1. committed \in Started
      BY <2>1, <2>2 DEF LakeOK, RunsAreOrdered
    <3>2. \E r \in Started : \A q \in Started : q <= r
      BY <2>1, <3>1 DEF LakeOK, RunsAreOrdered
    <3> QED
      BY <2>2, <3>2 DEF Latest
  <2> QED
    BY <2>1, <2>2 DEF LakeOK, PartitionsAreSound, CommittedIsHeld
<1> QED
  BY <1>1, <1>2 DEF LakeHoldsTheRun

-----------------------------------------------------------------------------
(* The split of a frame *)

\* The variables' types.
SplitTypeOK ==
  /\ frameRows \in Nat
  /\ unassigned \in Nat
  /\ assigned \in [Fold -> Nat]
  /\ trips \in [Fold -> Nat]

\* No row is lost: what the folds hold and what is left make the frame.
NoRowIsLost ==
  assigned["train"] + assigned["validation"] + assigned["test"] = 100 * (frameRows - unassigned)

\* No fold is more than one trip above its share.
OneTripOver == \A f \in Fold : assigned[f] <= Target(f) + 100 * Longest

SplitInv == SplitTypeOK /\ NoRowIsLost /\ OneTripOver

-----------------------------------------------------------------------------
(* The shares *)

\* The shares of a frame make the frame.
LEMMA Distributes ==
  ASSUME NEW a \in Int, NEW b \in Int, NEW c \in Int, NEW n \in Int, a + b + c = 100
  PROVE  /\ a * n \in Int /\ b * n \in Int /\ c * n \in Int
         /\ a * n + b * n + c * n = 100 * n
<1>1. c = 100 - a - b
  OBVIOUS
<1>2. c * n = 100 * n - a * n - b * n
  BY <1>1
<1> QED
  BY <1>2

LEMMA TargetsMakeTheFrame ==
  ASSUME frameRows \in Nat
  PROVE  /\ \A f \in Fold : Target(f) \in Int
         /\ Target("train") + Target("validation") + Target("test") = 100 * frameRows
<1>1. \A f \in Fold : Ratio[f] \in Int
  BY SplitAssumption
<1>2. /\ Ratio["train"] \in Int /\ Ratio["validation"] \in Int /\ Ratio["test"] \in Int
      /\ Ratio["train"] + Ratio["validation"] + Ratio["test"] = 100
  BY <1>1, SplitAssumption DEF Fold
<1>3. frameRows \in Int
  OBVIOUS
<1>4. /\ Ratio["train"] * frameRows \in Int
      /\ Ratio["validation"] * frameRows \in Int
      /\ Ratio["test"] * frameRows \in Int
      /\ Ratio["train"] * frameRows + Ratio["validation"] * frameRows + Ratio["test"] * frameRows
           = 100 * frameRows
  <2> DEFINE a == Ratio["train"]
             b == Ratio["validation"]
             c == Ratio["test"]
  <2>1. a \in Int /\ b \in Int /\ c \in Int /\ a + b + c = 100
    BY <1>2
  <2> HIDE DEF a, b, c
  <2>2. /\ a * frameRows \in Int /\ b * frameRows \in Int /\ c * frameRows \in Int
        /\ a * frameRows + b * frameRows + c * frameRows = 100 * frameRows
    BY <2>1, <1>3, Distributes, SMTT(30)
  <2> QED
    BY <2>2 DEF a, b, c
<1> QED
  BY <1>4 DEF Fold, Target

\* While rows are left, the fold that is furthest below its share is below it.
LEMMA FurthestIsBelow ==
  ASSUME SplitTypeOK, NoRowIsLost, NEW f \in Fold, FurthestBelow(f)
  PROVE  assigned[f] <= Target(f)
<1>1. /\ \A g \in Fold : Target(g) \in Int /\ assigned[g] \in Int
      /\ Target("train") + Target("validation") + Target("test") = 100 * frameRows
  BY TargetsMakeTheFrame DEF SplitTypeOK
<1>2. \A g \in Fold : Target(f) - assigned[f] >= Target(g) - assigned[g]
  BY <1>1 DEF FurthestBelow, Deficit
<1>3. frameRows \in Int /\ unassigned \in Nat
  BY DEF SplitTypeOK
<1> QED
  <2>1. /\ "train" \in Fold /\ "validation" \in Fold /\ "test" \in Fold
        /\ f = "train" \/ f = "validation" \/ f = "test"
    BY DEF Fold
  <2>2. /\ Target("train") - assigned["train"] <= Target(f) - assigned[f]
        /\ Target("validation") - assigned["validation"] <= Target(f) - assigned[f]
        /\ Target("test") - assigned["test"] <= Target(f) - assigned[f]
    BY <1>2, <1>1, <2>1
  <2> QED
    BY <1>1, <1>3, <2>1, <2>2 DEF NoRowIsLost

-----------------------------------------------------------------------------
(* The invariant *)

LEMMA SplitInvInit == SplitInit => SplitInv
<1> SUFFICES ASSUME SplitInit PROVE SplitInv
  OBVIOUS
<1>1. SplitTypeOK
  BY SplitAssumption DEF SplitInit, SplitTypeOK
<1>2. NoRowIsLost
  BY <1>1 DEF SplitInit, SplitTypeOK, NoRowIsLost, Fold
<1>3. OneTripOver
  <2> SUFFICES ASSUME NEW f \in Fold PROVE assigned[f] <= Target(f) + 100 * Longest
    BY DEF OneTripOver
  <2>1. Ratio[f] \in Nat /\ frameRows \in Nat /\ Longest \in Nat
    BY <1>1, SplitAssumption DEF SplitTypeOK
  <2>2. Ratio[f] * frameRows \in Nat
    BY <2>1
  <2> QED
    BY <2>1, <2>2 DEF SplitInit, Target
<1> QED
  BY <1>1, <1>2, <1>3 DEF SplitInv

LEMMA SplitInvNext == SplitInv /\ [SplitNext]_splitVars => SplitInv'
<1> SUFFICES ASSUME SplitInv, [SplitNext]_splitVars PROVE SplitInv'
  OBVIOUS
<1>1. ASSUME NEW f \in Fold, NEW n \in 1 .. Longest, Assign(f, n) PROVE SplitInv'
  <2>1. /\ n \in Nat /\ n <= Longest /\ Longest \in Nat
        /\ assigned' = [assigned EXCEPT ![f] = @ + 100 * n]
        /\ trips' = [trips EXCEPT ![f] = @ + 1]
        /\ n <= unassigned /\ unassigned' = unassigned - n /\ frameRows' = frameRows
    BY <1>1, SplitAssumption DEF Assign
  <2>2. SplitTypeOK'
    BY <2>1 DEF SplitInv, SplitTypeOK
  <2>3. NoRowIsLost'
    BY <2>1 DEF SplitInv, SplitTypeOK, NoRowIsLost, Fold
  <2>4. OneTripOver'
    <3> SUFFICES ASSUME NEW g \in Fold PROVE assigned'[g] <= Target(g)' + 100 * Longest
      BY DEF OneTripOver
    <3>1. Target(g)' = Target(g) /\ Target(g) \in Int /\ assigned[g] \in Int
      BY <2>1, TargetsMakeTheFrame DEF SplitInv, SplitTypeOK, Target
    <3>2. CASE g = f
      <4>1. assigned[f] <= Target(f)
        BY <1>1, FurthestIsBelow DEF SplitInv, Assign
      <4> QED
        BY <2>1, <3>1, <3>2, <4>1 DEF SplitInv, SplitTypeOK
    <3>3. CASE g # f
      BY <2>1, <3>1, <3>3 DEF SplitInv, SplitTypeOK, OneTripOver
    <3> QED
      BY <3>2, <3>3
  <2> QED
    BY <2>2, <2>3, <2>4 DEF SplitInv
<1>2. CASE UNCHANGED splitVars
  BY <1>2 DEF splitVars, SplitInv, SplitTypeOK, NoRowIsLost, OneTripOver, Target
<1> QED
  BY <1>1, <1>2 DEF SplitNext

\* A split that holds every row leaves no fold more than the two others are over.
LEMMA SplitInvConverges == SplitInv => FoldsConverge
<1> SUFFICES ASSUME SplitInv, NEW f \in Fold
             PROVE  /\ assigned[f] <= Target(f) + 100 * Longest
                    /\ Returned => assigned[f] >= Target(f) - 200 * Longest
  BY DEF FoldsConverge
<1>1. assigned[f] <= Target(f) + 100 * Longest
  BY DEF SplitInv, OneTripOver
<1>2. ASSUME Returned PROVE assigned[f] >= Target(f) - 200 * Longest
  <2>1. /\ \A g \in Fold : Target(g) \in Int /\ assigned[g] \in Int
        /\ Target("train") + Target("validation") + Target("test") = 100 * frameRows
    BY TargetsMakeTheFrame DEF SplitInv, SplitTypeOK
  <2>2. assigned["train"] + assigned["validation"] + assigned["test"] = 100 * frameRows
    BY <1>2 DEF SplitInv, SplitTypeOK, NoRowIsLost, Returned
  <2>3. /\ "train" \in Fold /\ "validation" \in Fold /\ "test" \in Fold
        /\ f = "train" \/ f = "validation" \/ f = "test"
    BY DEF Fold
  <2>4. /\ assigned["train"] <= Target("train") + 100 * Longest
        /\ assigned["validation"] <= Target("validation") + 100 * Longest
        /\ assigned["test"] <= Target("test") + 100 * Longest
    BY <2>3 DEF SplitInv, OneTripOver
  <2>5. Longest \in Int /\ frameRows \in Int
    BY SplitAssumption DEF SplitInv, SplitTypeOK
  <2> QED
    BY <2>1, <2>2, <2>3, <2>4, <2>5
<1> QED
  BY <1>1, <1>2

-----------------------------------------------------------------------------
(* One task of many *)

\* A step of the whole is one of the providers or leaves them alone; the same of the
\* training file, the lake and the split.
LEMMA StepsOfParts ==
  [Next]_vars =>
    /\ [ProviderNext]_providerVars
    /\ [FilesNext]_filesVars
    /\ [LakeNext]_lakeVars
    /\ [SplitNext]_splitVars
<1> SUFFICES ASSUME [Next]_vars
             PROVE  /\ [ProviderNext]_providerVars /\ [FilesNext]_filesVars
                    /\ [LakeNext]_lakeVars /\ [SplitNext]_splitVars
  OBVIOUS
<1> DEFINE kept == /\ UNCHANGED providerVars /\ UNCHANGED filesVars
                   /\ UNCHANGED lakeVars /\ UNCHANGED splitVars
<1>1. CASE UNCHANGED vars
  <2>1. kept
    BY <1>1 DEF vars
  <2> QED
    BY <2>1
<1>2. CASE KeepFleet \/ FollowStream \/ UseDatabase \/ Analysis
  <2>1. kept
    BY <1>2 DEF KeepFleet, FollowStream, UseDatabase, Analysis
  <2> QED
    BY <2>1
<1>3. CASE GenerateWindows \/ GenerateSweep \/ TrainModel \/ Predict \/ Attribute
  <2>1. kept
    BY <1>3 DEF GenerateWindows, GenerateSweep, TrainModel, Predict, Attribute
  <2> QED
    BY <2>1
<1>4. CASE PlanCharging \/ AnalyseCoverage \/ ValidateDocument \/ ReadWeather
  <2>1. kept
    BY <1>4 DEF PlanCharging, AnalyseCoverage, ValidateDocument, ReadWeather
  <2> QED
    BY <2>1
<1>5. CASE AskProviders
  BY <1>5 DEF AskProviders
<1>6. CASE WriteTrainingData
  BY <1>6 DEF WriteTrainingData
<1>7. CASE WriteLake
  BY <1>7 DEF WriteLake
<1>8. CASE SplitFrame
  BY <1>8 DEF SplitFrame
<1> QED
  BY <1>1, <1>2, <1>3, <1>4, <1>5, <1>6, <1>7, <1>8 DEF Next

\* However requests fail, answers are delayed, documents change and callers share the
\* cache, the limiter and the list of stations: every answer is one its source gave, is
\* dated when it gave it, and first requests keep their distance (BaseProvider,
\* _RateLimiter).
THEOREM ProvidersAlwaysHold == Spec => []ProvidersHold
<1>1. Init => ProviderInv
  BY ProviderInvInit DEF Init
<1>2. ProviderInv /\ [Next]_vars => ProviderInv'
  BY StepsOfParts, ProviderInvNext
<1>3. ProviderInv => ProvidersHold
  BY ProviderInvHolds
<1> QED
  BY <1>1, <1>2, <1>3, PTL DEF Spec

\* Whatever commands have written the training file and its sidecar and wherever they
\* died, a training that names the sweep as its source has read the sweep's rows
\* (describe_training_source).
THEOREM SourcesAlwaysVerified == Spec => []SourcesAreVerified
<1>1. Init => FilesInv
  BY FilesInvInit DEF Init
<1>2. FilesInv /\ [Next]_vars => FilesInv'
  BY StepsOfParts, FilesInvNext
<1>3. FilesInv => SourcesAreVerified
  BY FilesInvHolds
<1> QED
  BY <1>1, <1>2, <1>3, PTL DEF Spec

\* For every number of runs, every document and every size of a part: the lake's parts are
\* whole, in order and of one run, and all there when it commits, wherever the runs before
\* it died; and a sidecar describes its file (ParquetPartWriter, DataLake.adopt_raw).
THEOREM LakeAlwaysHoldsTheRun == Spec => [](LakeHoldsTheRun /\ SidecarsDescribe)
<1>1. Init => LakeInv
  BY LakeInvInit DEF Init
<1>2. LakeInv /\ [Next]_vars => LakeInv'
  BY StepsOfParts, LakeInvNext
<1>3. LakeInv => LakeHoldsTheRun /\ SidecarsDescribe
  BY LakeInvHolds
<1> QED
  BY <1>1, <1>2, <1>3, PTL DEF Spec

\* What is said of where data come from is true at every moment.
THEOREM SourcesAlwaysHonest == Spec => []SourcesAreHonest
<1>1. ProvidersHold /\ SourcesAreVerified /\ LakeHoldsTheRun /\ SidecarsDescribe => SourcesAreHonest
  BY DEF SourcesAreHonest
<1> QED
  BY <1>1, ProvidersAlwaysHold, SourcesAlwaysVerified, LakeAlwaysHoldsTheRun, PTL

\* For every frame, all shares that make a hundred and trips of every length: no fold is
\* ever more than one trip over its share, and none of a split that is returned is more
\* than two trips short of it (split_by_trip).
THEOREM FoldsAlwaysConverge == Spec => []FoldsConverge
<1>1. Init => SplitInv
  BY SplitInvInit DEF Init
<1>2. SplitInv /\ [Next]_vars => SplitInv'
  BY StepsOfParts, SplitInvNext
<1>3. SplitInv => FoldsConverge
  BY SplitInvConverges
<1> QED
  BY <1>1, <1>2, <1>3, PTL DEF Spec
=============================================================================
