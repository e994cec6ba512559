------------------------------ MODULE LogStore ------------------------------
(***************************************************************************)
(* The ingest handler, the Loki store behind it and the query route.       *)
(*                                                                         *)
(* A request is a batch of events that the handler routes one by one: to   *)
(* the billing inbox, to Loki, or nowhere.  The store gives Loki a push    *)
(* time of its own, so that the times of one stream increase, and asks it  *)
(* for a bounded number of candidates by push time, which it filters,      *)
(* deduplicates, sorts and cuts itself.  MemoryEventStore does the same to *)
(* the events themselves: IsAnswer is what it returns.                     *)
(*                                                                         *)
(* Failures: a push that cannot be made, one that fails, with or without   *)
(* effect, and a restart of the service at any point, also between a push  *)
(* and its reply.                                                          *)
(***************************************************************************)
EXTENDS Integers, Sequences, FiniteSetsExt, SequencesExt

CONSTANTS
    Catalogue,      \* the events of the producers, by event id
    Historical,     \* ids of events an earlier writer left in Loki
    Unsendable,     \* ids of events that no push request can be made of
    CandidateLimit, \* lokiPostFilterCandidateLimit (5000)
    MaxQueryLimit,  \* largest limit of a query (1000)
    MaxFaults       \* bound on failed pushes and restarts

Ids == DOMAIN Catalogue

EventOf(i) == Catalogue[i]

Labels == {EventOf(i).label : i \in Ids}
Traces == {EventOf(i).trace : i \in Ids}

\* A nanosecond is one; zero is no time at all.
Times == {EventOf(i).time : i \in Ids}

ASSUME LogStoreAssumption ==
    /\ Ids \subseteq Nat
    /\ Times \subseteq Nat \ {0}
    /\ \A i \in Ids : EventOf(i).kind \in {"operational", "billing", "half"}
    /\ Historical \subseteq Ids /\ IsFiniteSet(Historical)
    /\ Unsendable \subseteq Ids
    /\ CandidateLimit \in Nat \ {0}
    /\ MaxQueryLimit \in Nat \ {0}
    /\ MaxFaults \in Nat

VARIABLES
    loki,   \* entries in Loki: push time and event id
    seen,   \* s.seen
    lastTS, \* s.lastTS, 0 where the stream has none
    inbox,  \* ids of the events in the billing inbox
    acked,  \* operational ids answered accepted or duplicate
    faults  \* failed pushes and restarts so far

vars == <<loki, seen, lastTS, inbox, acked, faults>>

LogStoreInit ==
    /\ loki \in {{}, {[push |-> EventOf(i).time, id |-> i] : i \in Historical}}
    /\ seen = {}
    /\ lastTS = [l \in Labels |-> 0]
    /\ inbox = {}
    /\ acked = {}
    /\ faults = 0

-----------------------------------------------------------------------------
(***************************************************************************)
(* Credentials and routing.  Both tokens are configured and differ.        *)
(***************************************************************************)
Tokens == {"log", "billing", "unknown"}

authorizedToken(t) == t \in {"log", "billing"}

billingAuthorized(t) == t = "billing"

\* Stream or source says billing_usage.
Billing(i) == EventOf(i).kind # "operational"

\* Mutant: an event that only half claims to be billing usage is a log line.
RouteHalf(t, i) ==
    CASE EventOf(i).kind = "billing" /\ billingAuthorized(t) -> "inbox"
      [] EventOf(i).kind # "billing" /\ ~billingAuthorized(t) -> "loki"
      [] OTHER -> "rejected"

Route(t, i) ==
    CASE EventOf(i).kind = "billing" /\ billingAuthorized(t) -> "inbox"
      [] ~Billing(i) /\ ~billingAuthorized(t) -> "loki"
      [] OTHER -> "rejected"

\* The loop of the handler takes the events of a request one by one, and the
\* store works on one at a time; so an event with its token is one step, and
\* the order of steps is that of any number of requests.
Routed(t, i, route) == authorizedToken(t) /\ Route(t, i) = route

\* BillingInbox.InsertEvent; the module BillingInbox has it in detail, with
\* the recovery fence that refuses it.
IngestBilling(t, i) ==
    /\ Routed(t, i, "inbox")
    /\ inbox' \in {inbox, inbox \cup {i}}
    /\ UNCHANGED <<loki, seen, lastTS, acked, faults>>

-----------------------------------------------------------------------------
(***************************************************************************)
(* LokiEventStore.InsertEvent, under its mutex from check to reply.        *)
(***************************************************************************)
IngestDuplicate(t, i) ==
    /\ Routed(t, i, "loki")
    /\ i \in seen
    /\ acked' = acked \cup {i}
    /\ UNCHANGED <<loki, seen, lastTS, inbox, faults>>

\* Mutant: an event is pushed at the time of the last push of its stream.
PushTimeClamped(i) ==
    LET last == lastTS[EventOf(i).label] IN
    IF last # 0 THEN last ELSE EventOf(i).time

\* The event's own time, or just after the last push of its stream.
PushTime(i) ==
    LET last == lastTS[EventOf(i).label] IN
    IF last # 0 /\ EventOf(i).time <= last THEN last + 1 ELSE EventOf(i).time

Pushed(i) == loki \cup {[push |-> PushTime(i), id |-> i]}

IngestPush(t, i) ==
    /\ Routed(t, i, "loki")
    /\ i \notin seen
    /\ i \notin Unsendable
    /\ loki' = Pushed(i)
    /\ seen' = seen \cup {i}
    /\ lastTS' = [lastTS EXCEPT ![EventOf(i).label] = PushTime(i)]
    /\ acked' = acked \cup {i}
    /\ UNCHANGED <<inbox, faults>>

\* The push reports an error: the event may be in Loki all the same.  It is
\* forgotten, the push time is not.
IngestPushError(t, i) ==
    /\ Routed(t, i, "loki")
    /\ i \notin seen
    /\ i \notin Unsendable
    /\ faults < MaxFaults
    /\ faults' = faults + 1
    /\ loki' \in {loki, Pushed(i)}
    /\ lastTS' = [lastTS EXCEPT ![EventOf(i).label] = PushTime(i)]
    /\ UNCHANGED <<seen, inbox, acked>>

\* The event is not JSON or the base URL makes no request: rejected, but neither
\* the id nor the push time is forgotten.
IngestUnsent(t, i) ==
    /\ Routed(t, i, "loki")
    /\ i \notin seen
    /\ i \in Unsendable
    /\ seen' = seen \cup {i}
    /\ lastTS' = [lastTS EXCEPT ![EventOf(i).label] = PushTime(i)]
    /\ UNCHANGED <<loki, inbox, acked, faults>>

\* The service stops, perhaps between a push and its reply, and starts again
\* without its duplicate map and push times.
Restart ==
    /\ faults < MaxFaults
    /\ faults' = faults + 1
    /\ loki' \in {loki} \cup
          {Pushed(i) : i \in {j \in Ids \ (seen \cup Unsendable) : Route("log", j) = "loki"}}
    /\ seen' = {}
    /\ lastTS' = [l \in Labels |-> 0]
    /\ UNCHANGED <<inbox, acked>>

LogStoreNext ==
    \/ \E t \in Tokens, i \in Ids :
          \/ IngestBilling(t, i) \/ IngestDuplicate(t, i)
          \/ IngestPush(t, i) \/ IngestPushError(t, i) \/ IngestUnsent(t, i)
    \/ Restart

LogStoreSpec == LogStoreInit /\ [][LogStoreNext]_vars

-----------------------------------------------------------------------------
(***************************************************************************)
(* GET /v1/logs.  Queries read one state; they have no step of their own.  *)
(***************************************************************************)
\* A filter that was not given.
Unset == "unset"

\* What queryFromRequest lets through; 0 is a bound that was not given.
EventQuery ==
    [since : Times \cup {0}, until : Times \cup {0}, limit : 1..MaxQueryLimit,
     order : {"asc", "desc"}, label : Labels \cup {Unset}, trace : Traces \cup {Unset}]

Match(want, got) == want \in {Unset, got}

\* EventQuery.matches, on the event's own time.
Matches(q, i) ==
    /\ q.since # 0 => EventOf(i).time >= q.since
    /\ q.until # 0 => EventOf(i).time <= q.until
    /\ Match(q.label, EventOf(i).label)
    /\ Match(q.trace, EventOf(i).trace)

\* What Loki selects by label and push time.  The code does not rely on whether
\* the end belongs to the window.
Window(q, closed) ==
    {c \in loki : /\ Match(q.label, EventOf(c.id).label)
                  /\ q.since # 0 => c.push >= q.since
                  /\ q.until # 0 => c.push < q.until \/ (closed /\ c.push = q.until)}

\* What it may return of that: as many as the candidate limit, newest first.
Newest(W) ==
    IF Cardinality(W) <= CandidateLimit
    THEN {W}
    ELSE {C \in kSubset(CandidateLimit, W) : \A c \in C, d \in W \ C : c.push >= d.push}

Fetches(q) == UNION {Newest(Window(q, closed)) : closed \in BOOLEAN}

\* Mutant: events of the same time are always in descending order.
PrecedesTieDesc(q, i, j) ==
    IF EventOf(i).time = EventOf(j).time
    THEN i > j
    ELSE IF q.order = "asc" THEN EventOf(i).time < EventOf(j).time
                            ELSE EventOf(i).time > EventOf(j).time

Precedes(q, i, j) ==
    IF EventOf(i).time = EventOf(j).time
    THEN IF q.order = "asc" THEN i < j ELSE i > j
    ELSE IF q.order = "asc" THEN EventOf(i).time < EventOf(j).time
                            ELSE EventOf(i).time > EventOf(j).time

\* Sorted by Precedes, which is a total order, and cut at the limit.
applyQueryOrderAndLimit(q, S) ==
    LET size == IF Cardinality(S) > q.limit THEN q.limit ELSE Cardinality(S)
    IN  [k \in 1..size |->
            CHOOSE i \in S : Cardinality({j \in S : Precedes(q, j, i)}) = k - 1]

\* QueryEvents on the candidates Loki returned: filtered, each id once.
QueryEvents(q, C) ==
    applyQueryOrderAndLimit(q, {i \in {c.id : c \in C} : Matches(q, i)})

\* The handler hides billing usage from what the store returns; what it shows
\* is named by its place in the store's answer, whose order it keeps.
Visible(s) == Restrict(s, {k \in DOMAIN s : ~Billing(s[k])})

-----------------------------------------------------------------------------
Stored == {c.id : c \in loki}

LogStoreTypeOK ==
    /\ \A c \in loki : c.push \in Nat /\ c.id \in Ids
    /\ seen \subseteq Ids
    /\ lastTS \in [Labels -> Nat]
    /\ inbox \subseteq Ids
    /\ acked \subseteq Ids

\* s is the answer to q over the events S: sorted, without repetition, as
\* long as the limit allows, and nothing left out belongs before its end.
IsAnswer(q, s, S) ==
    /\ \A k \in DOMAIN s : s[k] \in S
    /\ \A k, l \in DOMAIN s : k < l =>
          \/ s[k] # s[l] /\ EventOf(s[k]).time = EventOf(s[l]).time
                /\ (s[k] < s[l] <=> q.order = "asc")
          \/ EventOf(s[k]).time < EventOf(s[l]).time /\ q.order = "asc"
          \/ EventOf(s[k]).time > EventOf(s[l]).time /\ q.order = "desc"
    /\ Len(s) = IF Cardinality(S) > q.limit THEN q.limit ELSE Cardinality(S)
    /\ Len(s) > 0 => \A i \in S :
          \/ \E k \in DOMAIN s : s[k] = i
          \/ IF q.order = "asc" THEN EventOf(i).time >= EventOf(s[Len(s)]).time
                                ELSE EventOf(i).time <= EventOf(s[Len(s)]).time

\* Whatever Loki returns, whatever was pushed twice by a retry or after a
\* restart and whatever the candidate limit cut off, the answer lists stored
\* matching events, each once, in the order asked for and within the limit.
AnswerSound ==
    \A q \in EventQuery : \A C \in Fetches(q) :
        IsAnswer(q, QueryEvents(q, C), {i \in Stored : Matches(q, i) /\ \E c \in C : c.id = i})

\* The store answers as MemoryEventStore would, for every event it has
\* acknowledged, when the candidates fit and no event asked for was pushed at
\* or past the upper bound.  A lower bound never loses an event.  (An event that
\* cannot be pushed is acknowledged, as a duplicate, and never there.)
AnswerComplete ==
    \A q \in EventQuery :
        LET Wanted == {i \in Stored : Matches(q, i)} IN
        (/\ Cardinality(Window(q, TRUE)) <= CandidateLimit
         /\ q.until # 0 => \A c \in loki : c.id \in Wanted => c.push < q.until)
        => /\ {i \in acked \ Unsendable : Matches(q, i)} \subseteq Wanted
           /\ \A C \in Fetches(q) : IsAnswer(q, QueryEvents(q, C), Wanted)

\* Billing usage and operational logs never mix: no request brings billing
\* usage into Loki or anything else into the inbox, what an earlier writer
\* left in Loki is never shown.
BillingIsolated ==
    /\ \A i \in Stored : Billing(i) => i \in Historical
    /\ \A i \in inbox : EventOf(i).kind = "billing"
    /\ \A q \in EventQuery : \A C \in Fetches(q) :
          LET s == Visible(QueryEvents(q, C)) IN
          \A k \in DOMAIN s : ~Billing(s[k])
=============================================================================
