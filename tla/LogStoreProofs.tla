--------------------------- MODULE LogStoreProofs ---------------------------
(***************************************************************************)
(* The answers of the query route, for every catalogue of events, every    *)
(* candidate and query limit and any number of faults.  The state needs a  *)
(* small invariant, LogStoreInv; the weight is in applyQueryOrderAndLimit: *)
(* that counting predecessors numbers the events of an answer without gap  *)
(* or repetition.                                                          *)
(***************************************************************************)
EXTENDS LogStore, FiniteSetTheorems, FunctionTheorems, SequenceTheorems, TLAPS

\* Loki holds finitely many entries, none pushed before the time of its event,
\* and all that was acknowledged or remembered, but for what cannot be pushed.
LogStoreInv ==
    /\ LogStoreTypeOK
    /\ IsFiniteSet(loki)
    /\ \A c \in loki : c.push >= EventOf(c.id).time
    /\ seen \ Unsendable \subseteq Stored
    /\ acked \ Unsendable \subseteq Stored
    /\ \A i \in Stored : Billing(i) => i \in Historical
    /\ \A i \in inbox : EventOf(i).kind = "billing"

-----------------------------------------------------------------------------
(***************************************************************************)
(* The state.                                                              *)
(***************************************************************************)

\* Every event has a time and a label.
LEMMA EventTyped ==
    ASSUME NEW i \in Ids
    PROVE  /\ EventOf(i).time \in Nat
           /\ EventOf(i).time # 0
           /\ EventOf(i).label \in Labels
           /\ i \in Nat
  <1>1. EventOf(i).time \in Times
    BY DEF Times
  <1>2. Times \subseteq Nat \ {0} /\ Ids \subseteq Nat
    BY LogStoreAssumption
  <1>. QED  BY <1>1, <1>2 DEF Labels

\* The bounds and the order of a query, and the candidate limit.
LEMMA QueryTyped ==
    ASSUME NEW q \in EventQuery
    PROVE  /\ q.since \in Nat
           /\ q.limit \in Nat
           /\ q.limit > 0
           /\ q.order \in {"asc", "desc"}
           /\ CandidateLimit \in Nat
  <1>1. Times \subseteq Nat \ {0} /\ MaxQueryLimit \in Nat /\ CandidateLimit \in Nat
    BY LogStoreAssumption
  <1>2. Times \cup {0} \subseteq Nat
    BY <1>1
  <1>3. /\ q.since \in Times \cup {0}
        /\ q.limit \in 1..MaxQueryLimit
        /\ q.order \in {"asc", "desc"}
    BY DEF EventQuery
  <1>4. q.limit \in Nat /\ q.limit > 0
    BY <1>1, <1>3
  <1>5. q.since \in Nat
    BY <1>2, <1>3
  <1>. QED  BY <1>1, <1>3, <1>4, <1>5

\* A push is never before the time of its event.
LEMMA PushTyped ==
    ASSUME LogStoreTypeOK, NEW i \in Ids
    PROVE  /\ PushTime(i) \in Nat
           /\ PushTime(i) >= EventOf(i).time
  <1>1. lastTS[EventOf(i).label] \in Nat
    BY EventTyped DEF LogStoreTypeOK
  <1>. QED  BY <1>1, EventTyped DEF PushTime

\* What a push adds to Loki.
LEMMA PushAdds ==
    ASSUME LogStoreInv, NEW i \in Ids, ~Billing(i), loki' = Pushed(i)
    PROVE  /\ \A c \in loki' : c.push \in Nat /\ c.id \in Ids
           /\ IsFiniteSet(loki')
           /\ \A c \in loki' : c.push >= EventOf(c.id).time
           /\ Stored' = Stored \cup {i}
           /\ \A x \in Stored' : Billing(x) => x \in Historical
  <1>1. PICK e : e = [push |-> PushTime(i), id |-> i]
    OBVIOUS
  <1>2. e.push \in Nat /\ e.id = i /\ e.push >= EventOf(i).time
    BY <1>1, PushTyped DEF LogStoreInv
  <1>3. loki' = loki \cup {e}
    BY <1>1 DEF Pushed
  <1>4. IsFiniteSet(loki')
    BY <1>3, FS_AddElement DEF LogStoreInv
  <1>5. Stored' = Stored \cup {i}
    BY <1>2, <1>3 DEF Stored
  <1>. QED  BY <1>2, <1>3, <1>4, <1>5 DEF LogStoreInv, LogStoreTypeOK

\* Only operational events are routed to Loki, only billing usage to the inbox.
LEMMA RouteSeparates ==
    ASSUME NEW t, NEW i
    PROVE  /\ Route(t, i) = "loki" => ~Billing(i)
           /\ Route(t, i) = "inbox" => EventOf(i).kind = "billing"
  BY DEF Route, Billing

\* A new service, with or without what an earlier writer left.
LEMMA LogStoreInitial ==
    ASSUME LogStoreInit
    PROVE  LogStoreInv
  <1>1. seen = {} /\ inbox = {} /\ acked = {} /\ lastTS \in [Labels -> Nat]
    BY DEF LogStoreInit
  <1>2. CASE loki = {}
    BY <1>1, <1>2, FS_EmptySet DEF LogStoreInv, LogStoreTypeOK, Stored
  <1>3. CASE loki = {[push |-> EventOf(i).time, id |-> i] : i \in Historical}
    <2>1. Historical \subseteq Ids /\ IsFiniteSet(Historical)
      BY LogStoreAssumption
    <2>2. IsFiniteSet(loki)
      <3>. DEFINE f == [i \in Historical |-> [push |-> EventOf(i).time, id |-> i]]
      <3>1. f \in [Historical -> loki] /\ \A c \in loki : \E i \in Historical : f[i] = c
        BY <1>3
      <3>2. f \in Surjection(Historical, loki)
        BY <3>1, Fun_IsSurj
      <3>. QED  BY <2>1, <3>2, FS_Surjection
    <2>3. \A c \in loki : /\ c.id \in Historical
                          /\ c.push = EventOf(c.id).time
      BY <1>3
    <2>4. \A c \in loki : c.push \in Nat /\ c.id \in Ids /\ c.push >= EventOf(c.id).time
      BY <2>1, <2>3, EventTyped
    <2>. QED  BY <1>1, <2>2, <2>3, <2>4 DEF LogStoreInv, LogStoreTypeOK, Stored
  <1>. QED  BY <1>2, <1>3 DEF LogStoreInit

\* Requests, failed pushes and restarts keep LogStoreInv.
LEMMA LogStoreStep ==
    ASSUME LogStoreInv, [LogStoreNext]_vars
    PROVE  LogStoreInv'
  <1>1. UNCHANGED loki => Stored' = Stored
    BY DEF Stored
  <1>. USE DEF LogStoreInv, LogStoreTypeOK
  <1>2. ASSUME NEW t \in Tokens, NEW i \in Ids, IngestBilling(t, i)
        PROVE  LogStoreInv'
    BY <1>1, <1>2, RouteSeparates DEF IngestBilling, Routed
  <1>3. ASSUME NEW t \in Tokens, NEW i \in Ids, IngestDuplicate(t, i)
        PROVE  LogStoreInv'
    BY <1>1, <1>3 DEF IngestDuplicate
  <1>4. ASSUME NEW i \in Ids
        PROVE  [lastTS EXCEPT ![EventOf(i).label] = PushTime(i)] \in [Labels -> Nat]
    BY PushTyped, EventTyped
  <1>5. ASSUME NEW t \in Tokens, NEW i \in Ids, IngestPush(t, i)
        PROVE  LogStoreInv'
    BY <1>4, <1>5, PushAdds, RouteSeparates DEF IngestPush, Routed
  <1>6. ASSUME NEW t \in Tokens, NEW i \in Ids, IngestPushError(t, i)
        PROVE  LogStoreInv'
    <2>1. CASE UNCHANGED loki
      BY <1>1, <1>4, <1>6, <2>1 DEF IngestPushError
    <2>2. CASE loki' = Pushed(i)
      BY <1>4, <1>6, <2>2, PushAdds, RouteSeparates DEF IngestPushError, Routed
    <2>. QED  BY <1>6, <2>1, <2>2 DEF IngestPushError
  <1>9. ASSUME NEW t \in Tokens, NEW i \in Ids, IngestUnsent(t, i)
        PROVE  LogStoreInv'
    BY <1>1, <1>4, <1>9 DEF IngestUnsent
  <1>7. CASE Restart
    <2>1. seen' = {} /\ lastTS' \in [Labels -> Nat] /\ UNCHANGED <<inbox, acked>>
      BY <1>7 DEF Restart
    <2>2. CASE UNCHANGED loki
      BY <1>1, <2>1, <2>2
    <2>3. ASSUME NEW i \in Ids, Route("log", i) = "loki", loki' = Pushed(i)
          PROVE  LogStoreInv'
      BY <2>1, <2>3, PushAdds, RouteSeparates
    <2>. QED  BY <1>7, <2>2, <2>3 DEF Restart
  <1>8. CASE UNCHANGED vars
    BY <1>1, <1>8 DEF vars
  <1>. QED  BY <1>2, <1>3, <1>5, <1>6, <1>9, <1>7, <1>8 DEF LogStoreNext
-----------------------------------------------------------------------------
(***************************************************************************)
(* The order of an answer.                                                 *)
(***************************************************************************)

\* How many events of S come before i.
Rank(q, S, i) == Cardinality({j \in S : Precedes(q, j, i)})

\* By time and then by id, either way: a strict order of any two events.
LEMMA PrecedesOrders ==
    ASSUME NEW q
    PROVE  /\ \A i \in Ids : ~Precedes(q, i, i)
           /\ \A i, j \in Ids : i # j => Precedes(q, i, j) \/ Precedes(q, j, i)
           /\ \A i, j, k \in Ids :
                 Precedes(q, i, j) /\ Precedes(q, j, k) => Precedes(q, i, k)
  <1>1. \A i \in Ids : EventOf(i).time \in Nat /\ i \in Nat
    BY EventTyped
  <1>. QED  BY <1>1 DEF Precedes

\* Ranks are below the number of events.
LEMMA RankBounded ==
    ASSUME NEW q, NEW S \in SUBSET Ids, IsFiniteSet(S), NEW i \in S
    PROVE  Rank(q, S, i) \in 0..(Cardinality(S) - 1)
  <1>. DEFINE B == {j \in S : Precedes(q, j, i)}
  <1>1. B \in SUBSET S /\ i \notin B
    BY PrecedesOrders
  <1>2. /\ Cardinality(S) \in Nat
        /\ IsFiniteSet(B)
        /\ Cardinality(B) <= Cardinality(S)
        /\ Cardinality(S) = Cardinality(B) => S = B
    BY <1>1, FS_Subset, FS_CardinalityType
  <1>3. Cardinality(B) \in Nat
    BY <1>2, FS_CardinalityType
  <1>4. Cardinality(S) # Cardinality(B)
    BY <1>1, <1>2
  <1>5. Rank(q, S, i) = Cardinality(B)
    BY DEF Rank
  <1>. HIDE DEF B
  <1>. QED  BY <1>2, <1>3, <1>4, <1>5

\* An event that comes before another has the lower rank.
LEMMA RankIncreases ==
    ASSUME NEW q, NEW S \in SUBSET Ids, IsFiniteSet(S), NEW i \in S, NEW j \in S,
           Precedes(q, i, j)
    PROVE  Rank(q, S, i) < Rank(q, S, j)
  <1>. DEFINE A == {k \in S : Precedes(q, k, i)}
              B == {k \in S : Precedes(q, k, j)}
  <1>1. A \in SUBSET B /\ i \in B /\ i \notin A
    BY PrecedesOrders
  <1>2. B \in SUBSET S
    OBVIOUS
  <1>3. IsFiniteSet(B)
    BY <1>2, FS_Subset
  <1>4. /\ IsFiniteSet(A)
        /\ Cardinality(A) <= Cardinality(B)
        /\ Cardinality(B) = Cardinality(A) => B = A
    BY <1>1, <1>3, FS_Subset
  <1>5. Cardinality(A) \in Nat /\ Cardinality(B) \in Nat
    BY <1>3, <1>4, FS_CardinalityType
  <1>6. Cardinality(B) # Cardinality(A)
    BY <1>1, <1>4
  <1>7. Rank(q, S, i) = Cardinality(A) /\ Rank(q, S, j) = Cardinality(B)
    BY DEF Rank
  <1>. HIDE DEF A, B
  <1>. QED  BY <1>4, <1>5, <1>6, <1>7

\* The rank decides the order.
LEMMA RankDecides ==
    ASSUME NEW q, NEW S \in SUBSET Ids, IsFiniteSet(S), NEW i \in S, NEW j \in S
    PROVE  /\ Rank(q, S, i) = Rank(q, S, j) => i = j
           /\ Rank(q, S, i) < Rank(q, S, j) => Precedes(q, i, j)
  <1>1. Cardinality(S) \in Nat
    BY FS_CardinalityType
  <1>2. Rank(q, S, i) \in Int /\ Rank(q, S, j) \in Int
    BY <1>1, RankBounded
  <1>3. i # j => Precedes(q, i, j) \/ Precedes(q, j, i)
    BY PrecedesOrders
  <1>4. /\ Precedes(q, i, j) => Rank(q, S, i) < Rank(q, S, j)
        /\ Precedes(q, j, i) => Rank(q, S, j) < Rank(q, S, i)
    BY RankIncreases
  <1>. QED  BY <1>2, <1>3, <1>4

\* No rank is left out: as many events as ranks, and none shares its rank.
LEMMA RankTaken ==
    ASSUME NEW q, NEW S \in SUBSET Ids, IsFiniteSet(S),
           NEW r \in 0..(Cardinality(S) - 1)
    PROVE  \E i \in S : Rank(q, S, i) = r
  <1>. DEFINE T == 0..(Cardinality(S) - 1)
              f == [i \in S |-> Rank(q, S, i)]
  <1>1. Cardinality(S) \in Nat
    BY FS_CardinalityType
  <1>2. f \in [S -> T]
    BY RankBounded
  <1>3. \A a, b \in S : f[a] = f[b] => a = b
    BY RankDecides
  <1>4. f \in Injection(S, T)
    BY <1>2, <1>3, Fun_IsInj
  <1>5. IsFiniteSet(T) /\ Cardinality(T) = Cardinality(S)
    <2>1. 0 \in Int /\ Cardinality(S) - 1 \in Int
      BY <1>1
    <2>2. IsFiniteSet(T) /\ Cardinality(T) = IF 0 > Cardinality(S) - 1 THEN 0
                                             ELSE Cardinality(S) - 1 - 0 + 1
      BY <2>1, FS_Interval
    <2>. QED  BY <1>1, <2>2
  <1>6. f \in Surjection(S, T)
    <2>. HIDE DEF f, T
    <2>. QED  BY <1>4, <1>5, FS_Injection
  <1>7. \A t \in T : \E i \in S : f[i] = t
    <2>. HIDE DEF f, T
    <2>. QED  BY <1>6, Fun_SurjectionProperties
  <1>. QED  BY <1>7

\* Sorting by counting predecessors and cutting at the limit answers the query.
LEMMA OrderAndLimitAnswers ==
    ASSUME NEW q \in EventQuery, NEW S \in SUBSET Ids, IsFiniteSet(S)
    PROVE  IsAnswer(q, applyQueryOrderAndLimit(q, S), S)
  <1>. DEFINE size == IF Cardinality(S) > q.limit THEN q.limit ELSE Cardinality(S)
              s == applyQueryOrderAndLimit(q, S)
  <1>1. /\ Cardinality(S) \in Nat
        /\ q.limit \in Nat
        /\ q.limit > 0
        /\ q.order \in {"asc", "desc"}
    <2>1. Cardinality(S) \in Nat
      BY FS_CardinalityType
    <2>. QED  BY <2>1, QueryTyped
  <1>2. size \in Nat /\ size <= Cardinality(S)
    BY <1>1
  <1>3. s = [k \in 1..size |-> CHOOSE i \in S : Rank(q, S, i) = k - 1]
    BY DEF applyQueryOrderAndLimit, Rank
  <1>4. ASSUME NEW k \in 1..size
        PROVE  s[k] \in S /\ Rank(q, S, s[k]) = k - 1
    <2>1. k - 1 \in 0..(Cardinality(S) - 1)
      BY <1>1, <1>2
    <2>2. \E i \in S : Rank(q, S, i) = k - 1
      BY <2>1, RankTaken
    <2>3. s[k] = CHOOSE i \in S : Rank(q, S, i) = k - 1
      BY <1>3
    <2>. HIDE DEF s
    <2>. QED  BY <2>2, <2>3
  <1>5. DOMAIN s = 1..size
    BY <1>3
  <1>. SUFFICES IsAnswer(q, s, S)
    OBVIOUS
  <1>. HIDE DEF s
  <1>6. Len(s) = size
    <2>. HIDE DEF size
    <2>1. s \in [1..size -> S]
      BY <1>3, <1>4
    <2>2. Len(s) \in Nat /\ DOMAIN s = 1..Len(s)
      BY <1>2, <2>1, SeqDef
    <2>. QED  BY <1>2, <1>5, <2>2
  <1>7. ASSUME NEW k \in 1..size, NEW l \in 1..size, k < l
        PROVE  Precedes(q, s[k], s[l])
    <2>1. k \in Int /\ l \in Int
      BY <1>2
    <2>2. Rank(q, S, s[k]) < Rank(q, S, s[l])
      BY <1>4, <1>7, <2>1
    <2>. QED  BY <1>4, <2>2, RankDecides
  <1>8. \A k \in 1..size : /\ s[k] \in Ids
                           /\ s[k] \in Nat
                           /\ EventOf(s[k]).time \in Nat
    BY <1>4, EventTyped
  <1>9. ASSUME NEW i \in S, size > 0, \A k \in 1..size : s[k] # i
        PROVE  Precedes(q, s[size], i)
    <2>1. size \in 1..size
      BY <1>2, <1>9
    <2>2. Rank(q, S, i) \in 0..(Cardinality(S) - 1)
      BY RankBounded
    <2>3. ASSUME Rank(q, S, i) < size
          PROVE  FALSE
      <3>1. PICK k \in 1..size : k - 1 = Rank(q, S, i)
        <4>1. Rank(q, S, i) + 1 \in 1..size
          BY <1>1, <1>2, <2>2, <2>3
        <4>. QED  BY <1>1, <2>2, <4>1
      <3>2. s[k] = i
        BY <1>4, <3>1, RankDecides
      <3>. QED  BY <1>9, <3>2
    <2>4. Rank(q, S, s[size]) = size - 1
      BY <1>4, <2>1
    <2>5. Rank(q, S, s[size]) < Rank(q, S, i)
      <3>. HIDE DEF size
      <3>. QED  BY <1>1, <1>2, <2>2, <2>3, <2>4
    <2>. QED  BY <1>4, <2>1, <2>5, RankDecides
  <1>10. \A k \in DOMAIN s : s[k] \in S
    BY <1>4, <1>5
  <1>11. \A k, l \in DOMAIN s : k < l =>
            \/ s[k] # s[l] /\ EventOf(s[k]).time = EventOf(s[l]).time
                  /\ (s[k] < s[l] <=> q.order = "asc")
            \/ EventOf(s[k]).time < EventOf(s[l]).time /\ q.order = "asc"
            \/ EventOf(s[k]).time > EventOf(s[l]).time /\ q.order = "desc"
    <2>. HIDE DEF size
    <2>1. SUFFICES ASSUME NEW k \in 1..size, NEW l \in 1..size, k < l
                   PROVE  \/ s[k] # s[l] /\ EventOf(s[k]).time = EventOf(s[l]).time
                                /\ (s[k] < s[l] <=> q.order = "asc")
                          \/ EventOf(s[k]).time < EventOf(s[l]).time /\ q.order = "asc"
                          \/ EventOf(s[k]).time > EventOf(s[l]).time /\ q.order = "desc"
      BY <1>5
    <2>. QED  BY <1>1, <1>7, <1>8, <2>1 DEF Precedes
  <1>12. Len(s) > 0 => \A i \in S :
            \/ \E k \in DOMAIN s : s[k] = i
            \/ IF q.order = "asc" THEN EventOf(i).time >= EventOf(s[Len(s)]).time
                                  ELSE EventOf(i).time <= EventOf(s[Len(s)]).time
    <2>. HIDE DEF size
    <2>1. SUFFICES ASSUME size > 0, NEW i \in S, \A k \in 1..size : s[k] # i
                   PROVE  IF q.order = "asc" THEN EventOf(i).time >= EventOf(s[size]).time
                                             ELSE EventOf(i).time <= EventOf(s[size]).time
      BY <1>5, <1>6
    <2>2. size \in 1..size
      BY <1>2, <2>1
    <2>3. EventOf(i).time \in Nat /\ EventOf(s[size]).time \in Nat
      BY <1>8, <2>2, EventTyped
    <2>. QED  BY <1>9, <2>1, <2>3 DEF Precedes
  <1>. QED  BY <1>6, <1>10, <1>11, <1>12 DEF IsAnswer
-----------------------------------------------------------------------------
(***************************************************************************)
(* The candidates, and the answers.                                        *)
(***************************************************************************)

\* Loki returns some of the entries of a window.
LEMMA FetchedAreStored ==
    ASSUME LogStoreInv, NEW q, NEW C \in Fetches(q)
    PROVE  /\ C \subseteq loki
           /\ {c.id : c \in C} \subseteq Stored
           /\ IsFiniteSet({c.id : c \in C})
  <1>1. PICK closed \in BOOLEAN : C \in Newest(Window(q, closed))
    BY DEF Fetches
  <1>2. C \subseteq Window(q, closed)
    BY <1>1 DEF Newest, kSubset
  <1>3. C \in SUBSET loki
    BY <1>2 DEF Window
  <1>4. IsFiniteSet(C)
    BY <1>3, FS_Subset DEF LogStoreInv
  <1>5. {c.id : c \in C} \subseteq Stored
    BY <1>3 DEF Stored
  <1>6. IsFiniteSet({c.id : c \in C})
    <2>. DEFINE I == {c.id : c \in C}
                f == [c \in C |-> c.id]
    <2>1. f \in [C -> I] /\ \A i \in I : \E c \in C : f[c] = i
      OBVIOUS
    <2>2. f \in Surjection(C, I)
      BY <2>1, Fun_IsSurj
    <2>. QED  BY <1>4, <2>2, FS_Surjection
  <1>. QED  BY <1>3, <1>5, <1>6

\* What is in Loki is an event.
LEMMA StoredAreEvents ==
    ASSUME LogStoreInv
    PROVE  Stored \subseteq Ids
  BY DEF Stored, LogStoreInv, LogStoreTypeOK

\* The answer, over the matching events among the candidates.
LEMMA CandidatesAnswer ==
    ASSUME LogStoreInv, NEW q \in EventQuery, NEW C \in Fetches(q)
    PROVE  IsAnswer(q, QueryEvents(q, C), {i \in {c.id : c \in C} : Matches(q, i)})
  <1>. DEFINE S == {i \in {c.id : c \in C} : Matches(q, i)}
  <1>1. S \in SUBSET {c.id : c \in C}
    OBVIOUS
  <1>2. IsFiniteSet(S)
    BY <1>1, FetchedAreStored, FS_Subset
  <1>3. S \in SUBSET Ids
    BY <1>1, FetchedAreStored, StoredAreEvents
  <1>4. QueryEvents(q, C) = applyQueryOrderAndLimit(q, S)
    BY DEF QueryEvents
  <1>. HIDE DEF S
  <1>5. IsAnswer(q, applyQueryOrderAndLimit(q, S), S)
    BY <1>2, <1>3, OrderAndLimitAnswers
  <1>. QED  BY <1>4, <1>5 DEF S

\* Where all candidates fit and no event asked for was pushed at or past the
\* upper bound, every event asked for is among the candidates.  The lower bound
\* loses none because a push is never before the time of its event.
LEMMA WantedAreFetched ==
    ASSUME LogStoreInv, NEW q \in EventQuery, NEW C \in Fetches(q),
           Cardinality(Window(q, TRUE)) <= CandidateLimit,
           q.until # 0 => \A c \in loki :
               c.id \in {i \in Stored : Matches(q, i)} => c.push < q.until
    PROVE  {i \in {c.id : c \in C} : Matches(q, i)} = {i \in Stored : Matches(q, i)}
  <1>1. PICK closed \in BOOLEAN : C \in Newest(Window(q, closed))
    BY DEF Fetches
  <1>2. IsFiniteSet(Window(q, TRUE))
    <2>1. Window(q, TRUE) \in SUBSET loki
      BY DEF Window
    <2>. QED  BY <2>1, FS_Subset DEF LogStoreInv
  <1>3. Window(q, closed) \in SUBSET Window(q, TRUE)
    BY DEF Window
  <1>4. /\ IsFiniteSet(Window(q, closed))
        /\ Cardinality(Window(q, closed)) <= Cardinality(Window(q, TRUE))
    BY <1>2, <1>3, FS_Subset
  <1>5. Cardinality(Window(q, closed)) <= CandidateLimit
    <2>1. Cardinality(Window(q, closed)) \in Nat /\ Cardinality(Window(q, TRUE)) \in Nat
      BY <1>2, <1>4, FS_CardinalityType
    <2>2. CandidateLimit \in Nat
      BY QueryTyped
    <2>3. \A a, b, c \in Nat : a <= b /\ b <= c => a <= c
      OBVIOUS
    <2>. QED  BY <1>4, <2>1, <2>2, <2>3, Zenon
  <1>6. C = Window(q, closed)
    BY <1>1, <1>5 DEF Newest
  <1>7. ASSUME NEW i \in Stored, Matches(q, i)
        PROVE  \E c \in C : c.id = i
    <2>1. PICK c \in loki : c.id = i
      BY DEF Stored
    <2>2. /\ c.push \in Nat
          /\ i \in Ids
          /\ c.push >= EventOf(i).time
      BY <2>1 DEF LogStoreInv, LogStoreTypeOK
    <2>3. EventOf(i).time \in Nat
      BY <2>2, EventTyped
    <2>4. q.since \in Nat
      BY QueryTyped
    <2>5. q.since # 0 => c.push >= q.since
      BY <1>7, <2>2, <2>3, <2>4 DEF Matches
    <2>6. q.until # 0 => c.push < q.until
      BY <1>7, <2>1
    <2>7. Match(q.label, EventOf(c.id).label)
      BY <1>7, <2>1 DEF Matches
    <2>8. c \in Window(q, closed)
      BY <2>5, <2>6, <2>7 DEF Window
    <2>. QED  BY <1>6, <2>1, <2>8
  <1>. QED  BY <1>7, FetchedAreStored

-----------------------------------------------------------------------------
(***************************************************************************)
(* The theorems.                                                           *)
(***************************************************************************)

\* Pushes, retries and restarts keep the entries in Loki, the duplicate map, the
\* acknowledgements and the inbox as LogStoreInv says.
THEOREM LogStoreInductive == LogStoreSpec => []LogStoreInv
  <1>1. LogStoreInit => LogStoreInv
    BY LogStoreInitial
  <1>2. LogStoreInv /\ [LogStoreNext]_vars => LogStoreInv'
    BY LogStoreStep
  <1>. QED  BY <1>1, <1>2, PTL DEF LogStoreSpec

\* The variables keep their types, the push times of the streams among them.
THEOREM LogStoreTypeCorrect == LogStoreSpec => []LogStoreTypeOK
  <1>1. LogStoreInv => LogStoreTypeOK
    BY DEF LogStoreInv
  <1>. QED  BY <1>1, LogStoreInductive, PTL

\* Whichever candidates Loki returns, QueryEvents lists matching stored events,
\* each once, in the order asked for and up to the limit.
THEOREM AnswersAreSound == LogStoreSpec => []AnswerSound
  <1>1. LogStoreInv => AnswerSound
    <2>. SUFFICES ASSUME LogStoreInv, NEW q \in EventQuery, NEW C \in Fetches(q)
                  PROVE  IsAnswer(q, QueryEvents(q, C),
                            {i \in Stored : Matches(q, i) /\ \E c \in C : c.id = i})
      BY DEF AnswerSound
    <2>1. {i \in Stored : Matches(q, i) /\ \E c \in C : c.id = i}
             = {i \in {c.id : c \in C} : Matches(q, i)}
      BY FetchedAreStored
    <2>. QED  BY <2>1, CandidatesAnswer
  <1>. QED  BY <1>1, LogStoreInductive, PTL

\* Within the candidate limit and short of the upper bound, QueryEvents answers
\* as MemoryEventStore would, and an acknowledged event that can be pushed at
\* all is never missed.
THEOREM AnswersAreComplete == LogStoreSpec => []AnswerComplete
  <1>1. LogStoreInv => AnswerComplete
    <2>. SUFFICES ASSUME LogStoreInv, NEW q \in EventQuery,
                         Cardinality(Window(q, TRUE)) <= CandidateLimit,
                         q.until # 0 => \A c \in loki :
                             c.id \in {i \in Stored : Matches(q, i)} => c.push < q.until
                  PROVE  /\ {i \in acked \ Unsendable : Matches(q, i)}
                                \subseteq {i \in Stored : Matches(q, i)}
                         /\ \A C \in Fetches(q) :
                               IsAnswer(q, QueryEvents(q, C), {i \in Stored : Matches(q, i)})
      BY DEF AnswerComplete
    <2>1. {i \in acked \ Unsendable : Matches(q, i)} \subseteq {i \in Stored : Matches(q, i)}
      BY DEF LogStoreInv
    <2>2. ASSUME NEW C \in Fetches(q)
          PROVE  IsAnswer(q, QueryEvents(q, C), {i \in Stored : Matches(q, i)})
      <3>1. {i \in {c.id : c \in C} : Matches(q, i)} = {i \in Stored : Matches(q, i)}
        BY WantedAreFetched
      <3>. QED  BY <3>1, CandidatesAnswer
    <2>. QED  BY <2>1, <2>2
  <1>. QED  BY <1>1, LogStoreInductive, PTL

\* No request brings billing usage into Loki or a log line into the inbox, and
\* the query route shows none that an earlier writer left.
THEOREM BillingIsIsolated == LogStoreSpec => []BillingIsolated
  <1>1. LogStoreInv => BillingIsolated
    <2>1. \A s : \A k \in DOMAIN Visible(s) : ~Billing(Visible(s)[k])
      BY DEF Visible, Restrict
    <2>. QED  BY <2>1 DEF BillingIsolated, LogStoreInv
  <1>. QED  BY <1>1, LogStoreInductive, PTL
=============================================================================
