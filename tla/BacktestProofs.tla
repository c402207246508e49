--------------------------- MODULE BacktestProofs ---------------------------
(***************************************************************************)
(* What a backtest keeps for every universe, calendar, corpus and list of  *)
(* strategies: the digest is causal, in registration order, and of exactly *)
(* the run; and what a strategy is shown is of the past.                   *)
(***************************************************************************)
EXTENDS Backtest, FiniteSetTheorems, WellFoundedInduction, TLAPS

N == Len(Strategies)

LEMMA Concatenated ==
    ASSUME NEW S, NEW a \in Seq(S), NEW b \in Seq(S)
    PROVE  /\ DOMAIN (a \o b) = 1 .. Len(a) + Len(b)
           /\ \A i \in 1 .. Len(a) : (a \o b)[i] = a[i]
           /\ \A i \in 1 .. Len(b) : (a \o b)[i + Len(a)] = b[i]
OBVIOUS

(* Who is subscribed, by position. *)
LEMMA WhoHears ==
  /\ N \in Nat /\ DOMAIN Strategies = 1 .. N
  /\ DOMAIN Subscriptions = 1 .. N + 3
  /\ Subscriptions[1] = Subscription("digest", {"bar", "intent"})
  /\ Subscriptions[2] = Subscription("collect", {"intent"})
  /\ Subscriptions[3] = Subscription("observe", {"bar"})
  /\ \A i \in 1 .. N : Subscriptions[i + 3] = Subscription(Strategies[i], {"bar"})
<1> DEFINE three == <<Subscription("digest", {"bar", "intent"}), Subscription("collect", {"intent"}),
                      Subscription("observe", {"bar"})>>
           Subs == Range(three) \cup Range(OfStrategies)
<1>1. N \in Nat /\ DOMAIN Strategies = 1 .. N
  BY HandlersAreTheirOwn DEF N
<1>2. OfStrategies \in Seq(Range(OfStrategies)) /\ Len(OfStrategies) = N
  BY <1>1 DEF OfStrategies, Range
<1>3. three \in Seq(Range(three)) /\ Len(three) = 3
  BY DEF Range
<1>4. three \in Seq(Subs) /\ OfStrategies \in Seq(Subs)
  BY <1>2, <1>3
<1>5. Subscriptions = three \o OfStrategies
  BY DEF Subscriptions
<1>6. \A i \in 1 .. N : OfStrategies[i] = Subscription(Strategies[i], {"bar"})
  BY <1>1 DEF OfStrategies
<1>7. three[1] = Subscription("digest", {"bar", "intent"}) /\ three[2] = Subscription("collect", {"intent"})
      /\ three[3] = Subscription("observe", {"bar"})
  OBVIOUS
<1> HIDE DEF three, Subs
<1>8. /\ DOMAIN Subscriptions = 1 .. 3 + N
      /\ \A i \in 1 .. 3 : Subscriptions[i] = three[i]
      /\ \A i \in 1 .. N : Subscriptions[i + 3] = OfStrategies[i]
  <2>1. /\ DOMAIN (three \o OfStrategies) = 1 .. Len(three) + Len(OfStrategies)
        /\ \A i \in 1 .. Len(three) : (three \o OfStrategies)[i] = three[i]
        /\ \A i \in 1 .. Len(OfStrategies) :
              (three \o OfStrategies)[i + Len(three)] = OfStrategies[i]
    <3> HIDE DEF OfStrategies
    <3> QED
      BY <1>4, Concatenated
  <2> QED
    BY <1>2, <1>3, <1>5, <2>1, Zenon
<1>9. 3 + N = N + 3 /\ 1 \in 1 .. 3 /\ 2 \in 1 .. 3 /\ 3 \in 1 .. 3
  BY <1>1
<1>10. Subscriptions[1] = three[1] /\ Subscriptions[2] = three[2] /\ Subscriptions[3] = three[3]
  BY <1>8, <1>9
<1> HIDE DEF N
<1> QED
  BY <1>1, <1>6, <1>7, <1>8, <1>9, <1>10

(* Each handler is found at its own place. *)
LEMMA NamesArePlaces ==
  /\ \A i \in 1 .. N : Place(Strategies[i]) = i
  /\ \A s \in Range(Strategies) : Place(s) \in 1 .. N /\ Strategies[Place(s)] = s
  /\ \A s \in Range(Strategies) : \A i \in 1 .. N + 3 :
       Subscriptions[i].name = s => i = Place(s) + 3
  /\ \A i \in 1 .. N + 3 :
       /\ Subscriptions[i].name = "digest" => i = 1
       /\ Subscriptions[i].name = "collect" => i = 2
       /\ Subscriptions[i].name = "observe" => i = 3
<1>1. \A i, j \in 1 .. N + 3 : Subscriptions[i].name = Subscriptions[j].name => i = j
  BY HandlersAreTheirOwn, WhoHears
<1>0. N \in Nat
  BY WhoHears
<1> HIDE DEF N
<1>2. \A i \in 1 .. N : Subscriptions[i + 3].name = Strategies[i]
  <2> SUFFICES ASSUME NEW i \in 1 .. N PROVE Subscriptions[i + 3].name = Strategies[i]
    OBVIOUS
  <2>1. Subscriptions[i + 3] = Subscription(Strategies[i], {"bar"})
    BY WhoHears
  <2> QED
    BY <2>1 DEF Subscription
<1>3. \A i, j \in 1 .. N : Strategies[i] = Strategies[j] => i = j
  <2> SUFFICES ASSUME NEW i \in 1 .. N, NEW j \in 1 .. N, Strategies[i] = Strategies[j] PROVE i = j
    OBVIOUS
  <2>1. i + 3 \in 1 .. N + 3 /\ j + 3 \in 1 .. N + 3
    BY <1>0
  <2>2. i + 3 = j + 3
    BY <1>1, <1>2, <2>1
  <2> QED
    BY <1>0, <2>2
<1>4. \A i \in 1 .. N : Place(Strategies[i]) = i
  BY <1>3, WhoHears DEF Place
<1>5. \A s \in Range(Strategies) : \E i \in 1 .. N : s = Strategies[i]
  BY WhoHears DEF Range
<1>6. \A s \in Range(Strategies) : Place(s) \in 1 .. N /\ Strategies[Place(s)] = s
  BY <1>4, <1>5
<1>7. \A s \in Range(Strategies) : \A i \in 1 .. N + 3 : Subscriptions[i].name = s => i = Place(s) + 3
  <2> SUFFICES ASSUME NEW s \in Range(Strategies), NEW i \in 1 .. N + 3, Subscriptions[i].name = s
               PROVE  i = Place(s) + 3
    OBVIOUS
  <2>1. Place(s) + 3 \in 1 .. N + 3 /\ Subscriptions[Place(s) + 3].name = s
    BY <1>0, <1>2, <1>6
  <2> QED
    BY <1>1, <2>1
<1>8. Subscriptions[1].name = "digest" /\ Subscriptions[2].name = "collect" /\ Subscriptions[3].name = "observe"
  BY WhoHears DEF Subscription
<1>9. 1 \in 1 .. N + 3 /\ 2 \in 1 .. N + 3 /\ 3 \in 1 .. N + 3
  BY <1>0
<1>10. \A i \in 1 .. N + 3 :
          /\ Subscriptions[i].name = "digest" => i = 1
          /\ Subscriptions[i].name = "collect" => i = 2
          /\ Subscriptions[i].name = "observe" => i = 3
  BY <1>1, <1>8, <1>9
<1> QED
  BY <1>4, <1>6, <1>7, <1>10

(* A bar goes to the digest, the context and the strategies, an intent to  *)
(* the digest and the collector.                                           *)
LEMMA HandlersOfEach ==
    ASSUME NEW event
    PROVE  /\ IsBar(event) => Handlers(event) = {1} \cup 3 .. N + 3
           /\ IsIntent(event) => Handlers(event) = {1, 2}
<1>0. N \in Nat
  BY WhoHears
<1> HIDE DEF N
<1>1. \A i \in 1 .. N + 3 : i \in {1, 2, 3} \/ (i - 3 \in 1 .. N /\ i = (i - 3) + 3)
  BY <1>0
<1>2. \A i \in 1 .. N + 3 : IF i = 1 THEN Subscriptions[i].kinds = {"bar", "intent"}
                            ELSE IF i = 2 THEN Subscriptions[i].kinds = {"intent"}
                            ELSE Subscriptions[i].kinds = {"bar"}
  <2>1. /\ Subscriptions[1].kinds = {"bar", "intent"} /\ Subscriptions[2].kinds = {"intent"}
        /\ Subscriptions[3].kinds = {"bar"}
        /\ \A i \in 1 .. N : Subscriptions[i + 3].kinds = {"bar"}
    <3>1. /\ Subscription("digest", {"bar", "intent"}).kinds = {"bar", "intent"}
          /\ Subscription("collect", {"intent"}).kinds = {"intent"}
          /\ Subscription("observe", {"bar"}).kinds = {"bar"}
          /\ \A i \in 1 .. N : Subscription(Strategies[i], {"bar"}).kinds = {"bar"}
      BY DEF Subscription
    <3> QED
      BY <3>1, WhoHears
  <2> QED
    BY <1>1, <2>1
<1>3. Handlers(event) = {i \in 1 .. N + 3 : event.kind \in Subscriptions[i].kinds}
  BY WhoHears DEF Handlers
<1>4. ASSUME IsBar(event) PROVE Handlers(event) = {1} \cup 3 .. N + 3
  <2>1. \A i \in 1 .. N + 3 : i \in Handlers(event) <=> i # 2
    BY <1>2, <1>3, <1>4 DEF IsBar
  <2>2. Handlers(event) \subseteq 1 .. N + 3
    BY <1>3
  <2> QED
    BY <1>0, <2>1, <2>2
<1>5. ASSUME IsIntent(event) PROVE Handlers(event) = {1, 2}
  <2>1. \A i \in 1 .. N + 3 : i \in Handlers(event) <=> i \in {1, 2}
    BY <1>2, <1>3, <1>5 DEF IsIntent
  <2>2. Handlers(event) \subseteq 1 .. N + 3
    BY <1>3
  <2> QED
    BY <1>0, <2>1, <2>2
<1> QED
  BY <1>4, <1>5
-----------------------------------------------------------------------------
(* What a log lists, it lists after an entry more; and the entry, when its *)
(* place is one that counts, becomes the last of the list.                 *)
Logs(log) == log \in Seq(Range(log))

LEMMA LogGrows ==
    ASSUME NEW log, Logs(log), NEW entry
    PROVE  /\ Logs(Append(log, entry))
           /\ Len(log) \in Nat /\ DOMAIN log = 1 .. Len(log)
           /\ Len(Append(log, entry)) = Len(log) + 1
           /\ DOMAIN Append(log, entry) = 1 .. Len(log) + 1
           /\ \A i \in 1 .. Len(log) : Append(log, entry)[i] = log[i]
           /\ Append(log, entry)[Len(log) + 1] = entry
<1> DEFINE S == Range(log) \cup {entry}
           more == Append(log, entry)
<1>1. log \in Seq(S) /\ entry \in S
  BY DEF Logs
<1> HIDE DEF S
<1>2. /\ Len(log) \in Nat /\ DOMAIN log = 1 .. Len(log)
      /\ more \in Seq(S) /\ Len(more) = Len(log) + 1
      /\ DOMAIN more = 1 .. Len(log) + 1
      /\ \A i \in 1 .. Len(log) : more[i] = log[i]
      /\ more[Len(log) + 1] = entry
  BY <1>1
<1> HIDE DEF more
<1>3. \A i \in 1 .. Len(more) : more[i] \in Range(more)
  BY <1>2 DEF Range
<1>4. more \in Seq(Range(more))
  BY <1>2, <1>3
<1> QED
  BY <1>2, <1>4 DEF Logs, more

Upto(places, i) == {j \in places : j <= i}

LEMMA ListsGrow ==
    ASSUME NEW log, Logs(log), NEW places \in SUBSET (1 .. Len(log)), NEW list, Logs(list),
           Lists(log, places, list), NEW entry
    PROVE  /\ Lists(Append(log, entry), places, list)
           /\ Lists(Append(log, entry), places \cup {Len(log) + 1}, Append(list, entry))
<1> DEFINE n == Len(log)
           more == Append(log, entry)
           longer == Append(list, entry)
           new == places \cup {n + 1}
<1>1. n \in Nat /\ \A i \in 1 .. n : more[i] = log[i]
  BY LogGrows
<1>2. more[n + 1] = entry
  BY LogGrows
<1>3. /\ Len(list) \in Nat /\ Len(longer) = Len(list) + 1
      /\ \A i \in 1 .. Len(list) : longer[i] = list[i]
      /\ longer[Len(list) + 1] = entry
  BY LogGrows
<1>4. IsFiniteSet(places) /\ Cardinality(places) = Len(list)
  <2>1. IsFiniteSet(1 .. n)
    BY <1>1, FS_Interval
  <2> QED
    BY <2>1, FS_Subset DEF Lists
<1>5. Cardinality(new) = Len(list) + 1
  <2>1. n + 1 \notin places
    BY <1>1
  <2> QED
    BY <1>4, <2>1, FS_AddElement
<1>6. \A i \in places : Upto(new, i) = Upto(places, i)
  BY <1>1 DEF Upto
<1>7. \A i \in places : Cardinality(Upto(places, i)) \in 1 .. Len(list)
  <2> SUFFICES ASSUME NEW i \in places PROVE Cardinality(Upto(places, i)) \in 1 .. Len(list)
    OBVIOUS
  <2>1. Upto(places, i) \in SUBSET places /\ i \in Upto(places, i)
    BY <1>1 DEF Upto
  <2>2. IsFiniteSet(Upto(places, i)) /\ Cardinality(Upto(places, i)) <= Cardinality(places)
    BY <1>4, <2>1, FS_Subset
  <2>3. Cardinality(Upto(places, i)) \in Nat /\ Cardinality(Upto(places, i)) # 0
    BY <2>1, <2>2, FS_CardinalityType, FS_EmptySet
  <2> QED
    BY <1>3, <1>4, <2>2, <2>3
<1>8. Upto(new, n + 1) = new
  <2>1. \A j \in new : j <= n + 1
    BY <1>1
  <2> QED
    BY <2>1 DEF Upto
<1>9. \A i \in places : more[i] = list[Cardinality(Upto(places, i))]
  <2>1. \A i \in places : log[i] = list[Cardinality(Upto(places, i))]
    BY DEF Lists, Upto
  <2> QED
    BY <1>1, <2>1
<1> HIDE DEF n, more, longer, new
<1>10. \A i \in new : more[i] = longer[Cardinality(Upto(new, i))]
  <2>1. \A i \in places : more[i] = longer[Cardinality(Upto(new, i))]
    BY <1>3, <1>6, <1>7, <1>9
  <2>2. more[n + 1] = longer[Cardinality(Upto(new, n + 1))]
    BY <1>2, <1>3, <1>5, <1>8
  <2> QED
    BY <2>1, <2>2 DEF new
<1>11. Lists(more, places, list)
  BY <1>4, <1>9 DEF Lists, Upto
<1>12. Lists(more, new, longer)
  BY <1>3, <1>5, <1>10 DEF Lists, Upto
<1> QED
  BY <1>11, <1>12 DEF more, new, longer, n
-----------------------------------------------------------------------------
(* The inductive invariant. *)

Call(event, todo) == [event |-> event, todo |-> todo]

(* The bar that is driven and the handlers it still has to reach; above it *)
(* the intent that is published meanwhile, and its handlers.               *)
Driven == calls[1].event
Left == calls[1].todo
Made == calls[2].event
Hears == calls[2].todo

OnABar ==
  /\ warm < Len(seen) /\ Driven = seen[Len(seen)]
  /\ Left \subseteq {1} \cup 3 .. N + 3
  /\ \A i \in Left : \A j \in {1} \cup 3 .. N + 3 : i <= j => j \in Left
  /\ 1 \in Left => outbox = <<>>

(* An intent on the bar, of a strategy that was called with it. *)
OfTheBar(intent) ==
  /\ IsIntent(intent) /\ intent.strategy \in Range(Strategies) /\ intent.nth \in Nat
  /\ intent.symbol = Driven.symbol /\ intent.ts = Driven.ts
  /\ Place(intent.strategy) + 3 \notin Left

CallsNest ==
  \/ calls = <<>> /\ outbox = <<>>
  \/ calls = <<Call(Driven, Left)>> /\ OnABar
  \/ /\ calls = <<Call(Driven, Left), Call(Made, Hears)>>
     /\ OnABar /\ 1 \notin Left
     /\ OfTheBar(Made) /\ Hears \in {{1, 2}, {2}, {}}
     /\ \A k \in DOMAIN outbox : Before(Made, outbox[k])

OutboxIsInOrder ==
  \A k \in DOMAIN outbox :
    OfTheBar(outbox[k]) /\ \A l \in DOMAIN outbox : k < l => Before(outbox[k], outbox[l])

(* Once the bar is digested, what follows it in the digest was made on it, *)
(* and before whatever is still to be published.                           *)
BarIsTheCause ==
  calls # <<>> /\ 1 \notin Left =>
    \E c \in DOMAIN digest :
      /\ digest[c] = Driven
      /\ \A j \in DOMAIN digest : c < j =>
           /\ OfTheBar(digest[j])
           /\ \A k \in DOMAIN outbox : Before(digest[j], outbox[k])
           /\ Len(calls) = 2 /\ 1 \in Hears => Before(digest[j], Made)

AllAreLogs ==
  /\ Logs(seen) /\ Logs(digest) /\ Logs(intents) /\ Logs(outbox)
  /\ warm \in Nat /\ warm <= Len(seen)
  /\ \A i \in DOMAIN seen : IsBar(seen[i])

(* Of the bars driven all but one that is on its way are digested; of the  *)
(* intents digested all but one that is on its way are collected.          *)
Digested == SubSeq(seen, warm + 1, IF calls # <<>> /\ 1 \in Left THEN Len(seen) - 1 ELSE Len(seen))
Collected == IF Len(calls) = 2 /\ Hears = {2} THEN Append(intents, Made) ELSE intents

DigestCovers ==
  /\ Lists(digest, BarsIn(digest), Digested)
  /\ Lists(digest, IntentsIn(digest), Collected)

IInv ==
  /\ AllAreLogs /\ CallsNest /\ OutboxIsInOrder
  /\ BarIsTheCause /\ DigestCovers /\ IntentsFollowTheirBar

(* A span of a list, and the list one entry later. *)
LEMMA SpansOfLogs ==
    ASSUME NEW log, Logs(log), NEW m \in Nat, m <= Len(log), NEW entry
    PROVE  /\ Logs(SubSeq(log, m + 1, Len(log)))
           /\ SubSeq(Append(log, entry), m + 1, Len(log)) = SubSeq(log, m + 1, Len(log))
           /\ SubSeq(Append(log, entry), m + 1, Len(log) + 1)
                = Append(SubSeq(log, m + 1, Len(log)), entry)
           /\ m = Len(log) => /\ SubSeq(log, m + 1, Len(log)) = <<>>
                              /\ SubSeq(Append(log, entry), m + 2, Len(log) + 1) = <<>>
<1> DEFINE S == Range(log) \cup {entry}
           more == Append(log, entry)
           n == Len(log)
           span == SubSeq(log, m + 1, n)
<1>1. log \in Seq(S) /\ entry \in S
  BY DEF Logs
<1> HIDE DEF S
<1>2. /\ n \in Nat /\ more \in Seq(S) /\ Len(more) = n + 1
      /\ \A i \in 1 .. n : more[i] = log[i]
      /\ more[n + 1] = entry
  BY <1>1
<1>0. m <= n /\ n - m \in Nat /\ (n - m) + 1 = n + 1 - m
  BY <1>2
<1>3. span \in Seq(S) /\ Len(span) = n - m /\ \A i \in 1 .. n - m : span[i] = log[m + i]
  BY <1>1, <1>2
<1>4. Logs(span)
  <2> HIDE DEF span
  <2>1. \A i \in 1 .. Len(span) : span[i] \in Range(span)
    BY <1>3 DEF Range
  <2> QED
    BY <1>3, <2>1 DEF Logs
<1>5. SubSeq(more, m + 1, n) = span
  <2> DEFINE a == SubSeq(more, m + 1, n)
  <2>1. a \in Seq(S) /\ Len(a) = n - m /\ \A i \in 1 .. n - m : a[i] = more[m + i]
    <3> HIDE DEF more
    <3> QED
      BY <1>2
  <2>2. \A i \in 1 .. n - m : a[i] = span[i]
    <3> HIDE DEF a, span, more, n
    <3> QED
      BY <1>2, <1>3, <2>1
  <2> HIDE DEF a, span, n, more
  <2> QED
    BY <1>2, <1>3, <2>1, <2>2 DEF a
<1>6. SubSeq(more, m + 1, n + 1) = Append(span, entry)
  <2> DEFINE a == SubSeq(more, m + 1, n + 1)
             b == Append(span, entry)
  <2>1. a \in Seq(S) /\ Len(a) = n + 1 - m /\ \A i \in 1 .. n + 1 - m : a[i] = more[m + i]
    <3> HIDE DEF more
    <3> QED
      BY <1>2
  <2>2. b \in Seq(S) /\ Len(b) = n + 1 - m /\ b[n + 1 - m] = entry
        /\ \A i \in 1 .. n - m : b[i] = span[i]
    <3> HIDE DEF span, n
    <3>1. b \in Seq(S) /\ Len(b) = Len(span) + 1 /\ b[Len(span) + 1] = entry
          /\ \A i \in 1 .. Len(span) : b[i] = span[i]
      BY <1>1, <1>3
    <3> QED
      BY <1>0, <1>3, <3>1
  <2> HIDE DEF a, b, span, n, more
  <2>3. \A i \in 1 .. n + 1 - m : a[i] = b[i]
    <3> SUFFICES ASSUME NEW i \in 1 .. n + 1 - m PROVE a[i] = b[i]
      OBVIOUS
    <3>1. CASE i = n + 1 - m
      <4>1. m + i = n + 1
        BY <1>2, <3>1
      <4> QED
        BY <1>2, <2>1, <2>2, <3>1, <4>1
    <3>2. CASE i # n + 1 - m
      <4>1. i \in 1 .. n - m /\ m + i \in 1 .. n
        BY <1>2, <3>2
      <4> QED
        BY <1>2, <1>3, <2>1, <2>2, <4>1
    <3> QED
      BY <3>1, <3>2
  <2>4. a = b
    BY <1>0, <1>2, <2>1, <2>2, <2>3
  <2> QED
    BY <2>4 DEF a, b, span, n, more
<1>7. m = n => span = <<>> /\ SubSeq(more, m + 2, n + 1) = <<>>
  <2> HIDE DEF more
  <2> QED
    BY <1>2, <1>3
<1> QED
  BY <1>4, <1>5, <1>6, <1>7

LEMMA LastOfASpan ==
    ASSUME NEW log, Logs(log), NEW m \in Nat, m < Len(log)
    PROVE  /\ Logs(SubSeq(log, m + 1, Len(log) - 1))
           /\ SubSeq(log, m + 1, Len(log)) = Append(SubSeq(log, m + 1, Len(log) - 1), log[Len(log)])
<1> DEFINE S == Range(log)
           n == Len(log)
           front == SubSeq(log, 1, n - 1)
           last == log[n]
<1>1. log \in Seq(S)
  BY DEF Logs
<1> HIDE DEF S
<1>2. n \in Nat /\ n - 1 \in Nat /\ m <= n - 1 /\ (n - 1) + 1 = n
  BY <1>1
<1>3. front \in Seq(S) /\ Len(front) = n - 1 /\ \A i \in 1 .. n - 1 : front[i] = log[i]
  BY <1>1, <1>2
<1>4. Logs(front)
  <2> HIDE DEF front
  <2>1. \A i \in 1 .. Len(front) : front[i] \in Range(front)
    BY <1>3 DEF Range
  <2> QED
    BY <1>3, <2>1 DEF Logs
<1>5. log = Append(front, last)
  <2> DEFINE b == Append(front, last)
  <2>1. last \in S
    BY <1>1, <1>2
  <2> HIDE DEF front, last
  <2>2. b \in Seq(S) /\ Len(b) = n /\ b[n] = last /\ \A i \in 1 .. n - 1 : b[i] = front[i]
    <3> HIDE DEF n
    <3>1. b \in Seq(S) /\ Len(b) = Len(front) + 1 /\ b[Len(front) + 1] = last
          /\ \A i \in 1 .. Len(front) : b[i] = front[i]
      BY <1>3, <2>1
    <3> QED
      BY <1>2, <1>3, <3>1
  <2>3. \A i \in 1 .. n : b[i] = log[i]
    <3> HIDE DEF b, n
    <3>1. b[n] = log[n]
      BY <2>2 DEF last
    <3>2. \A i \in 1 .. n : i = n \/ i \in 1 .. n - 1
      BY <1>2
    <3> QED
      BY <1>3, <2>2, <3>1, <3>2
  <2> HIDE DEF b
  <2> QED
    BY <1>1, <2>2, <2>3 DEF b
<1> HIDE DEF front, n, last
<1>6. /\ Logs(SubSeq(front, m + 1, Len(front)))
      /\ SubSeq(Append(front, last), m + 1, Len(front)) = SubSeq(front, m + 1, Len(front))
      /\ SubSeq(Append(front, last), m + 1, Len(front) + 1)
            = Append(SubSeq(front, m + 1, Len(front)), last)
  BY <1>2, <1>3, <1>4, SpansOfLogs
<1>7. /\ Logs(SubSeq(front, m + 1, n - 1))
      /\ SubSeq(log, m + 1, n - 1) = SubSeq(front, m + 1, n - 1)
      /\ SubSeq(log, m + 1, n) = Append(SubSeq(front, m + 1, n - 1), last)
  BY <1>2, <1>3, <1>5, <1>6, Zenon
<1> QED
  BY <1>7, Zenon DEF n, last

(* An intent that follows its bar still does when the digest has grown. *)
LEMMA EntriesStay ==
    ASSUME IntentsFollowTheirBar, Len(digest) \in Nat, DOMAIN digest = 1 .. Len(digest),
           \A i \in 1 .. Len(digest) : digest'[i] = digest[i],
           \A i \in IntentsIn(digest') :
             \/ i \in IntentsIn(digest)
             \/ \E cause \in 1 .. i - 1 :
                  /\ IsBar(digest'[cause])
                  /\ digest'[cause].symbol = digest'[i].symbol
                  /\ digest'[cause].ts = digest'[i].ts
                  /\ \A j \in cause + 1 .. i - 1 : IsIntent(digest'[j]) /\ Before(digest'[j], digest'[i])
    PROVE  IntentsFollowTheirBar'
<1> SUFFICES ASSUME NEW i \in IntentsIn(digest), i \in 1 .. Len(digest)
             PROVE  \E cause \in 1 .. i - 1 :
                      /\ IsBar(digest'[cause])
                      /\ digest'[cause].symbol = digest'[i].symbol
                      /\ digest'[cause].ts = digest'[i].ts
                      /\ \A j \in cause + 1 .. i - 1 : IsIntent(digest'[j]) /\ Before(digest'[j], digest'[i])
  <2>1. \A i \in IntentsIn(digest) : i \in 1 .. Len(digest)
    BY DEF IntentsIn
  <2> QED
    BY <2>1 DEF IntentsFollowTheirBar, IntentsIn
<1>1. PICK cause \in 1 .. i - 1 :
         /\ IsBar(digest[cause])
         /\ digest[cause].symbol = digest[i].symbol
         /\ digest[cause].ts = digest[i].ts
         /\ \A j \in cause + 1 .. i - 1 : IsIntent(digest[j]) /\ Before(digest[j], digest[i])
  BY DEF IntentsFollowTheirBar
<1>2. \A j \in 1 .. i : digest'[j] = digest[j]
  OBVIOUS
<1>3. cause \in 1 .. i /\ i \in 1 .. i /\ \A j \in cause + 1 .. i - 1 : j \in 1 .. i
  OBVIOUS
<1> QED
  BY <1>1, <1>2, <1>3

(* What the calls look like when one more handler has been called. *)
LEMMA OneMoreHandler ==
    ASSUME IInv, NEW name, Handling(name)
    PROVE  \/ /\ calls = <<Call(Driven, Left)>> /\ OnABar /\ outbox = <<>>
              /\ \E i \in Left : /\ Subscriptions[i].name = name /\ \A j \in Left : i <= j
                                 /\ calls' = <<Call(Driven, Left \ {i})>>
           \/ /\ calls = <<Call(Driven, Left), Call(Made, Hears)>> /\ OnABar /\ 1 \notin Left
              /\ \E i \in {1, 2} : /\ Subscriptions[i].name = name
                                   /\ Hears = {i, 2}
                                   /\ calls' = <<Call(Driven, Left), Call(Made, Hears \ {i})>>
<1>1. CASE calls = <<Call(Driven, Left)>> /\ OnABar
  <2>1. Len(calls) = 1 /\ Top = Call(Driven, Left)
    BY <1>1 DEF Top, Last
  <2>2. IsBar(Driven) /\ ~IsIntent(Driven)
    BY <1>1 DEF OnABar, IInv, AllAreLogs, Logs, IsBar, IsIntent
  <2>3. outbox = <<>>
    BY <2>1, <2>2 DEF Handling, Call
  <2>4. PICK i \in Left : /\ Subscriptions[i].name = name /\ \A j \in Left : i <= j
                          /\ calls' = [calls EXCEPT ![1].todo = Left \ {i}]
    BY <1>1, <2>1 DEF Handling, Call
  <2>5. calls' = <<Call(Driven, Left \ {i})>>
    BY <1>1, <2>4 DEF Call
  <2> QED
    BY <1>1, <2>3, <2>4, <2>5
<1>2. CASE calls = <<Call(Driven, Left), Call(Made, Hears)>> /\ OnABar /\ 1 \notin Left
           /\ Hears \in {{1, 2}, {2}, {}}
  <2>1. Len(calls) = 2 /\ Top = Call(Made, Hears)
    BY <1>2 DEF Top, Last
  <2>2. PICK i \in Hears : /\ Subscriptions[i].name = name /\ \A j \in Hears : i <= j
                           /\ calls' = [calls EXCEPT ![2].todo = Hears \ {i}]
    BY <1>2, <2>1 DEF Handling, Call
  <2>3. i \in {1, 2} /\ Hears = {i, 2}
    BY <1>2, <2>2
  <2>4. calls' = <<Call(Driven, Left), Call(Made, Hears \ {i})>>
    BY <1>2, <2>2 DEF Call
  <2> QED
    BY <1>2, <2>2, <2>3, <2>4
<1> QED
  BY <1>1, <1>2 DEF IInv, CallsNest, Handling

(* A bar reaches its next handler, which is not the digest; what is then   *)
(* to be published is of that handler's strategy.                          *)
LEMMA BarMovesOn ==
    ASSUME IInv, calls = <<Call(Driven, Left)>>, OnABar,
           NEW i \in Left, i # 1, \A j \in Left : i <= j,
           calls' = <<Call(Driven, Left \ {i})>>,
           UNCHANGED <<seen, warm, digest, intents>>,
           Logs(outbox'),
           \A k \in DOMAIN outbox' :
             /\ IsIntent(outbox'[k]) /\ outbox'[k].strategy \in Range(Strategies)
             /\ outbox'[k].nth \in Nat
             /\ outbox'[k].symbol = Driven.symbol /\ outbox'[k].ts = Driven.ts
             /\ Place(outbox'[k].strategy) + 3 = i
             /\ \A l \in DOMAIN outbox' : k < l => Before(outbox'[k], outbox'[l])
    PROVE  IInv'
<1>0. N \in Nat /\ Left \subseteq {1} \cup 3 .. N + 3
  BY WhoHears DEF OnABar
<1> HIDE DEF N
<1>1. Driven' = Driven /\ Left' = Left \ {i} /\ 1 \notin Left /\ calls' # <<>> /\ Len(calls') = 1
      /\ Len(calls) = 1 /\ calls # <<>>
  BY <1>0 DEF Driven, Left, Call
<1>2. AllAreLogs'
  BY DEF IInv, AllAreLogs, Logs
<1>3. OnABar'
  <2>1. \A x \in Left : \A y \in {1} \cup 3 .. N + 3 : x <= y => y \in Left
    BY DEF OnABar
  <2>2. \A x \in Left \ {i} : \A y \in {1} \cup 3 .. N + 3 : x <= y => y \in Left \ {i}
    BY <1>0, <2>1
  <2> QED
    BY <1>1, <2>2 DEF OnABar
<1>4. CallsNest'
  BY <1>1, <1>3 DEF CallsNest
<1>5. \A k \in DOMAIN outbox' : OfTheBar(outbox[k])'
  BY <1>1 DEF OfTheBar
<1>6. OutboxIsInOrder'
  BY <1>5 DEF OutboxIsInOrder
<1>7. BarIsTheCause'
  <2>1. PICK c \in DOMAIN digest :
          /\ digest[c] = Driven
          /\ \A j \in DOMAIN digest : c < j => OfTheBar(digest[j])
    BY <1>1 DEF IInv, BarIsTheCause
  <2>2. ASSUME NEW j \in DOMAIN digest, c < j, NEW k \in DOMAIN outbox'
        PROVE  Before(digest[j], outbox'[k])
    <3>1. digest[j].strategy \in Range(Strategies) /\ Place(digest[j].strategy) + 3 \notin Left
      BY <2>1, <2>2 DEF OfTheBar
    <3>2. Place(digest[j].strategy) \in 1 .. N
      BY <3>1, NamesArePlaces
    <3>3. Place(outbox'[k].strategy) \in 1 .. N /\ Place(outbox'[k].strategy) + 3 = i
      BY NamesArePlaces
    <3>4. i <= Place(digest[j].strategy) + 3 => Place(digest[j].strategy) + 3 \in Left
      BY <1>0, <3>2 DEF OnABar
    <3>5. Place(digest[j].strategy) < Place(outbox'[k].strategy)
      BY <1>0, <3>1, <3>2, <3>3, <3>4
    <3> QED
      BY <3>5 DEF Before
  <2>3. \A j \in DOMAIN digest : c < j => OfTheBar(digest[j])'
    BY <1>1, <2>1 DEF OfTheBar
  <2> QED
    BY <1>1, <2>1, <2>2, <2>3 DEF BarIsTheCause
<1>8. DigestCovers'
  <2>1. Digested' = Digested /\ Collected' = Collected
    <3>1. seen' = seen /\ warm' = warm /\ intents' = intents /\ 1 \notin Left'
      BY <1>1
    <3>2. Digested = SubSeq(seen, warm + 1, Len(seen))
      BY <1>1 DEF Digested
    <3>3. Digested' = SubSeq(seen, warm + 1, Len(seen))
      BY <1>1, <3>1 DEF Digested
    <3>4. Collected = intents /\ Collected' = intents
      BY <1>1, <3>1 DEF Collected
    <3> QED
      BY <3>2, <3>3, <3>4
  <2>2. BarsIn(digest)' = BarsIn(digest) /\ IntentsIn(digest)' = IntentsIn(digest)
    BY DEF BarsIn, IntentsIn
  <2> QED
    BY <2>1, <2>2 DEF IInv, DigestCovers, Lists
<1>9. IntentsFollowTheirBar'
  BY DEF IInv, IntentsFollowTheirBar, IntentsIn
<1> QED
  BY <1>2, <1>4, <1>6, <1>7, <1>8, <1>9 DEF IInv

(* The bar itself is digested before any of its other handlers. *)
LEMMA BarIsDigested ==
    ASSUME IInv, calls = <<Call(Driven, Left)>>, OnABar, outbox = <<>>, 1 \in Left,
           calls' = <<Call(Driven, Left \ {1})>>,
           digest' = Append(digest, Driven),
           UNCHANGED <<seen, warm, intents, outbox>>
    PROVE  IInv'
<1>0. N \in Nat /\ Left \subseteq {1} \cup 3 .. N + 3
  BY WhoHears DEF OnABar
<1> HIDE DEF N
<1>1. Driven' = Driven /\ Left' = Left \ {1} /\ 1 \notin Left' /\ calls' # <<>>
      /\ Len(calls') = 1 /\ Len(calls) = 1 /\ calls # <<>>
  BY DEF Driven, Left, Call
<1>2. /\ Logs(digest') /\ Len(digest) \in Nat
      /\ DOMAIN digest = 1 .. Len(digest) /\ DOMAIN digest' = 1 .. Len(digest) + 1
      /\ \A i \in 1 .. Len(digest) : digest'[i] = digest[i]
      /\ digest'[Len(digest) + 1] = Driven
  BY LogGrows DEF IInv, AllAreLogs
<1>3. IsBar(Driven) /\ ~IsIntent(Driven)
  BY DEF OnABar, IInv, AllAreLogs, Logs, IsBar, IsIntent
<1>4. AllAreLogs'
  BY <1>2 DEF IInv, AllAreLogs, Logs
<1>5. OnABar'
  <2>1. \A x \in Left : \A y \in {1} \cup 3 .. N + 3 : x <= y => y \in Left
    BY DEF OnABar
  <2>2. \A x \in Left \ {1} : \A y \in {1} \cup 3 .. N + 3 : x <= y => y \in Left \ {1}
    BY <1>0, <2>1
  <2> QED
    BY <1>1, <2>2 DEF OnABar
<1>6. CallsNest'
  BY <1>1, <1>5 DEF CallsNest
<1>7. OutboxIsInOrder'
  BY DEF OutboxIsInOrder
<1>8. BarIsTheCause'
  BY <1>1, <1>2 DEF BarIsTheCause
<1>9. DigestCovers'
  <2>1. BarsIn(digest)' = BarsIn(digest) \cup {Len(digest) + 1} /\ IntentsIn(digest)' = IntentsIn(digest)
    BY <1>2, <1>3 DEF BarsIn, IntentsIn
  <2>2. BarsIn(digest) \in SUBSET (1 .. Len(digest)) /\ IntentsIn(digest) \in SUBSET (1 .. Len(digest))
    BY <1>2 DEF BarsIn, IntentsIn
  <2>3. Digested = SubSeq(seen, warm + 1, Len(seen) - 1) /\ Digested' = SubSeq(seen, warm + 1, Len(seen))
    <3>1. seen' = seen /\ warm' = warm
      OBVIOUS
    <3>2. Digested = SubSeq(seen, warm + 1, Len(seen) - 1)
      BY <1>1 DEF Digested
    <3>3. Digested' = SubSeq(seen, warm + 1, Len(seen))
      BY <1>1, <3>1 DEF Digested
    <3> QED
      BY <3>2, <3>3
  <2>4. Logs(Digested) /\ Digested' = Append(Digested, Driven)
    BY <2>3, LastOfASpan DEF OnABar, IInv, AllAreLogs
  <2>5. Collected' = Collected /\ Logs(Collected)
    <3>1. Collected = intents /\ Collected' = intents
      BY <1>1 DEF Collected
    <3> QED
      BY <3>1 DEF IInv, AllAreLogs
  <2>6. Lists(digest, BarsIn(digest), Digested) /\ Lists(digest, IntentsIn(digest), Collected)
        /\ Logs(digest)
    BY DEF IInv, DigestCovers, AllAreLogs
  <2>7. Lists(digest', BarsIn(digest) \cup {Len(digest) + 1}, Append(Digested, Driven))
    BY <2>2, <2>4, <2>6, ListsGrow
  <2>8. Lists(digest', IntentsIn(digest), Collected)
    BY <2>2, <2>5, <2>6, ListsGrow
  <2> QED
    BY <2>1, <2>4, <2>5, <2>7, <2>8 DEF DigestCovers, Lists
<1>10. IntentsFollowTheirBar'
  <2>1. \A i \in IntentsIn(digest') : i \in IntentsIn(digest) /\ i \in 1 .. Len(digest)
    BY <1>2, <1>3 DEF IntentsIn
  <2> QED
    BY <1>2, <2>1, EntriesStay DEF IInv
<1> QED
  BY <1>4, <1>6, <1>7, <1>8, <1>9, <1>10 DEF IInv

(* An intent is digested right behind its bar and what came before it. *)
LEMMA IntentIsDigested ==
    ASSUME IInv, calls = <<Call(Driven, Left), Call(Made, Hears)>>, OnABar, 1 \notin Left,
           Hears = {1, 2}, calls' = <<Call(Driven, Left), Call(Made, {2})>>,
           digest' = Append(digest, Made),
           UNCHANGED <<seen, warm, intents, outbox>>
    PROVE  IInv'
<1>1. /\ Driven' = Driven /\ Left' = Left /\ Made' = Made /\ Hears' = {2}
      /\ calls' # <<>> /\ calls # <<>> /\ Len(calls') = 2 /\ Len(calls) = 2
  BY DEF Driven, Left, Made, Hears, Call
<1>2. /\ Logs(digest') /\ Len(digest) \in Nat
      /\ DOMAIN digest = 1 .. Len(digest) /\ DOMAIN digest' = 1 .. Len(digest) + 1
      /\ \A i \in 1 .. Len(digest) : digest'[i] = digest[i]
      /\ digest'[Len(digest) + 1] = Made
  BY LogGrows DEF IInv, AllAreLogs
<1>3. OfTheBar(Made) /\ \A k \in DOMAIN outbox : Before(Made, outbox[k])
  BY <1>1 DEF IInv, CallsNest
<1>4. IsIntent(Made) /\ ~IsBar(Made)
  BY <1>3 DEF OfTheBar, IsIntent, IsBar
<1>5. AllAreLogs'
  BY <1>2 DEF IInv, AllAreLogs, Logs
<1>7. CallsNest'
  BY <1>1, <1>3 DEF CallsNest, OnABar, OfTheBar
<1>8. OutboxIsInOrder'
  <2>1. OutboxIsInOrder
    BY DEF IInv
  <2> QED
    BY <1>1, <2>1 DEF OutboxIsInOrder, OfTheBar
<1>9. PICK c \in DOMAIN digest :
        /\ digest[c] = Driven
        /\ \A j \in DOMAIN digest : c < j =>
             /\ OfTheBar(digest[j])
             /\ \A k \in DOMAIN outbox : Before(digest[j], outbox[k])
             /\ Before(digest[j], Made)
  BY <1>1 DEF IInv, BarIsTheCause
<1>10. BarIsTheCause'
  <2>1. \A j \in DOMAIN digest' : c < j =>
           /\ OfTheBar(digest'[j])
           /\ \A k \in DOMAIN outbox : Before(digest'[j], outbox[k])
    BY <1>2, <1>3, <1>9
  <2>2. \A j \in DOMAIN digest' : c < j => OfTheBar(digest[j])'
    BY <1>1, <2>1 DEF OfTheBar
  <2>3. c \in DOMAIN digest' /\ digest'[c] = Driven
    BY <1>2, <1>9
  <2> QED
    BY <1>1, <2>1, <2>2, <2>3 DEF BarIsTheCause
<1>11. DigestCovers'
  <2>1. IntentsIn(digest)' = IntentsIn(digest) \cup {Len(digest) + 1} /\ BarsIn(digest)' = BarsIn(digest)
    BY <1>2, <1>4 DEF BarsIn, IntentsIn
  <2>2. BarsIn(digest) \in SUBSET (1 .. Len(digest)) /\ IntentsIn(digest) \in SUBSET (1 .. Len(digest))
    BY <1>2 DEF BarsIn, IntentsIn
  <2>3. Digested' = Digested /\ Logs(Digested)
    <3>1. seen' = seen /\ warm' = warm
      OBVIOUS
    <3>2. Digested = SubSeq(seen, warm + 1, Len(seen))
      BY <1>1 DEF Digested
    <3>3. Digested' = SubSeq(seen, warm + 1, Len(seen))
      BY <1>1, <3>1 DEF Digested
    <3> QED
      BY <3>2, <3>3, SpansOfLogs DEF IInv, AllAreLogs
  <2>4. Collected = intents /\ Collected' = Append(intents, Made)
    <3>a. Hears # {2}
      OBVIOUS
    <3>1. Collected = intents
      BY <3>a DEF Collected
    <3>2. Collected' = Append(intents, Made)
      <4>1. intents' = intents
        OBVIOUS
      <4>2. Collected' = Append(intents', Made')
        BY <1>1 DEF Collected
      <4> QED
        BY <1>1, <4>1, <4>2
    <3> QED
      BY <3>1, <3>2
  <2>5. Lists(digest, BarsIn(digest), Digested) /\ Lists(digest, IntentsIn(digest), Collected)
        /\ Logs(digest) /\ Logs(intents)
    BY DEF IInv, DigestCovers, AllAreLogs
  <2>6. Lists(digest', BarsIn(digest), Digested)
    BY <2>2, <2>3, <2>5, ListsGrow
  <2>7. Lists(digest', IntentsIn(digest) \cup {Len(digest) + 1}, Append(intents, Made))
    BY <2>2, <2>4, <2>5, ListsGrow
  <2> QED
    BY <2>1, <2>3, <2>4, <2>6, <2>7 DEF DigestCovers, Lists
<1>12. IntentsFollowTheirBar'
  <2> DEFINE i == Len(digest) + 1
  <2>1. c \in 1 .. i - 1 /\ IsBar(digest'[c]) /\ digest'[c] = Driven
    <3>1. IsBar(Driven)
      BY DEF OnABar, IInv, AllAreLogs, Logs
    <3> QED
      BY <1>2, <1>9, <3>1
  <2>2. \A j \in c + 1 .. i - 1 : IsIntent(digest'[j]) /\ Before(digest'[j], digest'[i])
    <3>1. \A j \in c + 1 .. i - 1 : j \in DOMAIN digest /\ c < j
      BY <1>2, <1>9
    <3> QED
      BY <1>2, <1>9, <3>1 DEF OfTheBar
  <2>3. digest'[c].symbol = digest'[i].symbol /\ digest'[c].ts = digest'[i].ts
    BY <1>2, <1>3, <2>1 DEF OfTheBar
  <2>4. \A k \in IntentsIn(digest') : k \in IntentsIn(digest) \/ k = i
    BY <1>2 DEF IntentsIn
  <2> HIDE DEF i
  <2> QED
    BY <1>2, <2>1, <2>2, <2>3, <2>4, EntriesStay DEF IInv
<1> QED
  BY <1>5, <1>7, <1>8, <1>10, <1>11, <1>12 DEF IInv

(* Nothing but the calls changes what the invariant says of the digest. *)
LEMMA DigestStays ==
    ASSUME IInv, UNCHANGED digest, Digested' = Digested, Collected' = Collected
    PROVE  DigestCovers' /\ IntentsFollowTheirBar'
<1>1. BarsIn(digest)' = BarsIn(digest) /\ IntentsIn(digest)' = IntentsIn(digest)
  BY DEF BarsIn, IntentsIn
<1>2. DigestCovers'
  BY <1>1 DEF IInv, DigestCovers, Lists
<1>3. IntentsFollowTheirBar'
  BY DEF IInv, IntentsFollowTheirBar, IntentsIn
<1> QED
  BY <1>2, <1>3

LEMMA IntentIsCollected ==
    ASSUME IInv, calls = <<Call(Driven, Left), Call(Made, Hears)>>, OnABar, 1 \notin Left,
           Hears = {2}, calls' = <<Call(Driven, Left), Call(Made, {})>>,
           intents' = Append(intents, Made),
           UNCHANGED <<seen, warm, digest, outbox>>
    PROVE  IInv'
<1>1. /\ Driven' = Driven /\ Left' = Left /\ Made' = Made /\ Hears' = {}
      /\ calls' # <<>> /\ calls # <<>> /\ Len(calls') = 2 /\ Len(calls) = 2
  BY DEF Driven, Left, Made, Hears, Call
<1>2. Logs(intents') /\ seen' = seen /\ warm' = warm
  BY LogGrows DEF IInv, AllAreLogs
<1>3. OfTheBar(Made) /\ \A k \in DOMAIN outbox : Before(Made, outbox[k])
  BY <1>1 DEF IInv, CallsNest
<1>4. AllAreLogs'
  BY <1>2 DEF IInv, AllAreLogs, Logs
<1>5. CallsNest'
  BY <1>1, <1>3 DEF CallsNest, OnABar, OfTheBar
<1>6. OutboxIsInOrder'
  <2>1. OutboxIsInOrder
    BY DEF IInv
  <2> QED
    BY <1>1, <2>1 DEF OutboxIsInOrder, OfTheBar
<1>7. BarIsTheCause'
  <2>1. BarIsTheCause
    BY DEF IInv
  <2> QED
    BY <1>1, <2>1 DEF BarIsTheCause, OfTheBar
<1>8. Digested' = Digested /\ Collected' = Collected
  <2>1. Digested = SubSeq(seen, warm + 1, Len(seen))
    BY <1>1 DEF Digested
  <2>2. Digested' = SubSeq(seen, warm + 1, Len(seen))
    BY <1>1, <1>2 DEF Digested
  <2>3. Collected = Append(intents, Made) /\ Collected' = Append(intents, Made)
    BY <1>1 DEF Collected
  <2> QED
    BY <2>1, <2>2, <2>3
<1> QED
  BY <1>4, <1>5, <1>6, <1>7, <1>8, DigestStays DEF IInv
-----------------------------------------------------------------------------
(* Every step. *)

LEMMA WarmUpKeeps == ASSUME IInv, NEW bar \in Bars, WarmUp(bar) PROVE IInv'
<1>1. /\ calls = <<>> /\ outbox = <<>> /\ warm = Len(seen) /\ warm \in Nat
      /\ seen' = Append(seen, bar) /\ warm' = warm + 1
      /\ UNCHANGED <<calls, outbox, digest, intents>>
  BY DEF WarmUp, Idle, IInv, CallsNest, AllAreLogs
<1>2. /\ Logs(seen') /\ Len(seen') = Len(seen) + 1 /\ DOMAIN seen = 1 .. Len(seen)
      /\ DOMAIN seen' = 1 .. Len(seen) + 1 /\ seen'[Len(seen) + 1] = bar
      /\ \A i \in 1 .. Len(seen) : seen'[i] = seen[i]
  BY <1>1, LogGrows DEF IInv, AllAreLogs
<1>3. AllAreLogs'
  <2>1. \A i \in DOMAIN seen' : IsBar(seen'[i])
    BY <1>1, <1>2 DEF IInv, AllAreLogs, IsBar, Bars
  <2> QED
    BY <1>1, <1>2, <2>1 DEF IInv, AllAreLogs, Logs
<1>4. CallsNest' /\ OutboxIsInOrder' /\ BarIsTheCause'
  BY <1>1 DEF CallsNest, OutboxIsInOrder, BarIsTheCause
<1>5. Digested' = Digested /\ Collected' = Collected
  <2>1. Digested = SubSeq(seen, warm + 1, Len(seen)) /\ Digested' = SubSeq(seen', warm' + 1, Len(seen'))
    BY <1>1 DEF Digested
  <2>2. warm' + 1 = warm + 2 /\ Len(seen') = Len(seen) + 1
    BY <1>1, <1>2
  <2>3. SubSeq(seen, warm + 1, Len(seen)) = <<>> /\ SubSeq(seen', warm + 2, Len(seen) + 1) = <<>>
    BY <1>1, SpansOfLogs DEF IInv, AllAreLogs
  <2>4. Collected' = Collected
    BY <1>1 DEF Collected
  <2> QED
    BY <2>1, <2>2, <2>3, <2>4
<1> QED
  BY <1>1, <1>3, <1>4, <1>5, DigestStays DEF IInv

LEMMA DriveKeeps == ASSUME IInv, NEW bar \in Bars, Drive(bar) PROVE IInv'
<1>1. /\ calls = <<>> /\ outbox = <<>> /\ warm \in Nat /\ warm <= Len(seen)
      /\ seen' = Append(seen, bar) /\ calls' = Publish(bar)
      /\ UNCHANGED <<outbox, digest, intents, warm>>
  BY DEF Drive, Idle, IInv, CallsNest, AllAreLogs
<1>2. /\ Logs(seen') /\ Len(seen) \in Nat /\ Len(seen') = Len(seen) + 1 /\ DOMAIN seen = 1 .. Len(seen)
      /\ DOMAIN seen' = 1 .. Len(seen) + 1 /\ seen'[Len(seen) + 1] = bar
      /\ \A i \in 1 .. Len(seen) : seen'[i] = seen[i]
  BY <1>1, LogGrows DEF IInv, AllAreLogs
<1>3. IsBar(bar)
  BY DEF IsBar, Bars
<1>4. calls' = <<Call(bar, {1} \cup 3 .. N + 3)>>
  <2>1. Handlers(bar) = {1} \cup 3 .. N + 3
    BY <1>3, HandlersOfEach
  <2>2. Publish(bar) = Append(<<>>, Call(bar, {1} \cup 3 .. N + 3))
    BY <1>1, <2>1, Zenon DEF Publish, Call
  <2>3. \A e : Append(<<>>, e) = <<e>>
    OBVIOUS
  <2> QED
    BY <1>1, <2>2, <2>3, Zenon
<1>5. Driven' = bar /\ Left' = {1} \cup 3 .. N + 3 /\ calls' # <<>> /\ Len(calls') = 1
  BY <1>4 DEF Driven, Left, Call
<1>6. AllAreLogs'
  <2>1. \A i \in DOMAIN seen' : IsBar(seen'[i])
    BY <1>2, <1>3 DEF IInv, AllAreLogs
  <2> QED
    BY <1>1, <1>2, <2>1 DEF IInv, AllAreLogs, Logs
<1>7. CallsNest'
  <2>1. OnABar'
    BY <1>1, <1>2, <1>5 DEF OnABar
  <2> QED
    BY <1>4, <1>5, <2>1 DEF CallsNest
<1>8. OutboxIsInOrder' /\ BarIsTheCause'
  BY <1>1, <1>5 DEF OutboxIsInOrder, BarIsTheCause
<1>9. Digested' = Digested /\ Collected' = Collected
  <2>1. Digested = SubSeq(seen, warm + 1, Len(seen))
    BY <1>1 DEF Digested
  <2>2. Digested' = SubSeq(seen', warm + 1, Len(seen') - 1)
    BY <1>1, <1>5 DEF Digested
  <2>3. Len(seen') - 1 = Len(seen)
    BY <1>2
  <2>4. SubSeq(seen', warm + 1, Len(seen)) = SubSeq(seen, warm + 1, Len(seen))
    BY <1>1, SpansOfLogs DEF IInv, AllAreLogs
  <2>5. Collected' = Collected
    BY <1>1, <1>5 DEF Collected
  <2> QED
    BY <2>1, <2>2, <2>3, <2>4, <2>5
<1> QED
  BY <1>1, <1>6, <1>7, <1>8, <1>9, DigestStays DEF IInv

LEMMA DigestKeeps == ASSUME IInv, Digest PROVE IInv'
<1>1. \A i \in 1 .. N + 3 : Subscriptions[i].name = "digest" => i = 1
  BY NamesArePlaces
<1>2. N \in Nat
  BY WhoHears
<1>3. /\ digest' = Append(digest, Top.event) /\ Handling("digest")
      /\ UNCHANGED <<seen, warm, intents, outbox>>
  BY DEF Digest
<1> HIDE DEF N
<1>4. CASE /\ calls = <<Call(Driven, Left)>> /\ OnABar /\ outbox = <<>>
           /\ \E i \in Left : /\ Subscriptions[i].name = "digest" /\ \A j \in Left : i <= j
                              /\ calls' = <<Call(Driven, Left \ {i})>>
  <2>1. PICK i \in Left : Subscriptions[i].name = "digest" /\ calls' = <<Call(Driven, Left \ {i})>>
    BY <1>4
  <2>2. i = 1
    BY <1>1, <1>2, <1>4, <2>1 DEF OnABar
  <2>3. Top.event = Driven
    BY <1>4 DEF Top, Last, Call
  <2> QED
    BY <1>3, <1>4, <2>1, <2>2, <2>3, BarIsDigested
<1>5. CASE /\ calls = <<Call(Driven, Left), Call(Made, Hears)>> /\ OnABar /\ 1 \notin Left
           /\ \E i \in {1, 2} : /\ Subscriptions[i].name = "digest"
                                /\ Hears = {i, 2}
                                /\ calls' = <<Call(Driven, Left), Call(Made, Hears \ {i})>>
  <2>1. PICK i \in {1, 2} : Subscriptions[i].name = "digest" /\ Hears = {i, 2}
                            /\ calls' = <<Call(Driven, Left), Call(Made, Hears \ {i})>>
    BY <1>5
  <2>2. i = 1
    BY <1>1, <1>2, <2>1
  <2>3. Hears = {1, 2} /\ Hears \ {i} = {2}
    BY <2>1, <2>2
  <2>4. Top.event = Made
    BY <1>5 DEF Top, Last, Call
  <2> QED
    BY <1>3, <1>5, <2>1, <2>3, <2>4, IntentIsDigested
<1> QED
  BY <1>3, <1>4, <1>5, OneMoreHandler

LEMMA CollectKeeps == ASSUME IInv, Collect PROVE IInv'
<1>1. \A i \in 1 .. N + 3 : Subscriptions[i].name = "collect" => i = 2
  BY NamesArePlaces
<1>2. N \in Nat
  BY WhoHears
<1>3. /\ intents' = Append(intents, Top.event) /\ Handling("collect")
      /\ UNCHANGED <<seen, warm, digest, outbox>>
  BY DEF Collect
<1> HIDE DEF N
<1>4. ~(/\ calls = <<Call(Driven, Left)>> /\ OnABar
        /\ \E i \in Left : Subscriptions[i].name = "collect")
  BY <1>1, <1>2 DEF OnABar
<1>5. CASE /\ calls = <<Call(Driven, Left), Call(Made, Hears)>> /\ OnABar /\ 1 \notin Left
           /\ \E i \in {1, 2} : /\ Subscriptions[i].name = "collect"
                                /\ Hears = {i, 2}
                                /\ calls' = <<Call(Driven, Left), Call(Made, Hears \ {i})>>
  <2>1. PICK i \in {1, 2} : Subscriptions[i].name = "collect" /\ Hears = {i, 2}
                            /\ calls' = <<Call(Driven, Left), Call(Made, Hears \ {i})>>
    BY <1>5
  <2>2. i = 2
    BY <1>1, <1>2, <2>1
  <2>3. Hears = {2} /\ Hears \ {i} = {}
    BY <2>1, <2>2
  <2>4. Top.event = Made
    BY <1>5 DEF Top, Last, Call
  <2> QED
    BY <1>3, <1>5, <2>1, <2>3, <2>4, IntentIsCollected
<1> QED
  BY <1>3, <1>4, <1>5, OneMoreHandler

(* A handler that only bars reach, and not the digest. *)
LEMMA BarOnly ==
    ASSUME IInv, NEW name, Handling(name),
           \A i \in 1 .. N + 3 : Subscriptions[i].name = name => i >= 3
    PROVE  /\ calls = <<Call(Driven, Left)>> /\ OnABar /\ outbox = <<>>
           /\ \E i \in Left : /\ Subscriptions[i].name = name /\ i # 1 /\ \A j \in Left : i <= j
                              /\ calls' = <<Call(Driven, Left \ {i})>>
<1>1. N \in Nat
  BY WhoHears
<1> HIDE DEF N
<1>2. ~(\E i \in {1, 2} : Subscriptions[i].name = name)
  BY <1>1
<1>3. ASSUME OnABar, NEW i \in Left, Subscriptions[i].name = name PROVE i # 1
  BY <1>1, <1>3
<1>4. /\ calls = <<Call(Driven, Left)>> /\ OnABar /\ outbox = <<>>
      /\ \E i \in Left : /\ Subscriptions[i].name = name /\ \A j \in Left : i <= j
                         /\ calls' = <<Call(Driven, Left \ {i})>>
  BY <1>2, OneMoreHandler
<1> QED
  BY <1>3, <1>4

LEMMA ObserveKeeps == ASSUME IInv, ObserveBar PROVE IInv'
<1>1. Handling("observe") /\ UNCHANGED <<seen, warm, outbox, digest, intents>>
  BY DEF ObserveBar
<1>2. \A i \in 1 .. N + 3 : Subscriptions[i].name = "observe" => i >= 3
  BY NamesArePlaces
<1>3. PICK i \in Left : /\ i # 1 /\ \A j \in Left : i <= j /\ calls' = <<Call(Driven, Left \ {i})>>
  BY <1>1, <1>2, BarOnly
<1>4. calls = <<Call(Driven, Left)>> /\ OnABar /\ outbox = <<>>
  BY <1>1, <1>2, BarOnly
<1> QED
  BY <1>1, <1>3, <1>4, BarMovesOn DEF IInv, AllAreLogs, Logs

LEMMA HandlerKeeps == ASSUME IInv, NEW s \in Range(Strategies), Handler(s) PROVE IInv'
<1>1. Handling(s) /\ UNCHANGED <<seen, warm, digest, intents>>
  BY DEF Handler, Ineligible, OnBar, Raise
<1>2. /\ \A i \in 1 .. N + 3 : Subscriptions[i].name = s => i = Place(s) + 3
      /\ Place(s) \in 1 .. N /\ N \in Nat
  BY NamesArePlaces, WhoHears
<1> HIDE DEF N
<1>3. \A i \in 1 .. N + 3 : Subscriptions[i].name = s => i >= 3
  BY <1>2
<1>4. PICK i \in Left : /\ Subscriptions[i].name = s /\ i # 1 /\ \A j \in Left : i <= j
                        /\ calls' = <<Call(Driven, Left \ {i})>>
  BY <1>1, <1>3, BarOnly
<1>5. calls = <<Call(Driven, Left)>> /\ OnABar /\ outbox = <<>>
  BY <1>1, <1>3, BarOnly
<1>6. Place(s) + 3 = i
  BY <1>2, <1>4, <1>5 DEF OnABar
<1>7. CASE UNCHANGED outbox
  BY <1>1, <1>4, <1>5, <1>7, BarMovesOn DEF IInv, AllAreLogs, Logs
<1>8. CASE OnBar(s)
  <2> DEFINE view == View(Driven, s \in WantSection)
  <2>1. Top.event = Driven
    BY <1>5 DEF Top, Last, Call
  <2>2. view.symbol = Driven.symbol /\ view.as_of = Driven.ts
    BY DEF View
  <2>3. PICK n \in 0 .. Extras - ExtrasUsed : outbox' = [k \in 1 .. n |-> Intent(s, view, k)]
    BY <1>8, <2>1 DEF OnBar
  <2> HIDE DEF view
  <2>4. n \in Nat
    OBVIOUS
  <2>5. /\ \A k \in 1 .. n : outbox'[k] = Intent(s, view, k) /\ outbox'[k] \in Range(outbox')
        /\ DOMAIN outbox' = 1 .. n
    BY <2>3 DEF Range
  <2>6. Logs(outbox')
    BY <2>3, <2>4, <2>5 DEF Logs
  <2>7. \A k \in DOMAIN outbox' :
          /\ IsIntent(outbox'[k]) /\ outbox'[k].strategy = s /\ outbox'[k].nth = k /\ k \in Nat
          /\ outbox'[k].symbol = Driven.symbol /\ outbox'[k].ts = Driven.ts
    BY <2>2, <2>5 DEF Intent, IsIntent
  <2>8. \A k, l \in DOMAIN outbox' : k < l => Before(outbox'[k], outbox'[l])
    BY <2>7 DEF Before
  <2> QED
    BY <1>1, <1>4, <1>5, <1>6, <2>6, <2>7, <2>8, BarMovesOn
<1> QED
  BY <1>7, <1>8 DEF Handler, Ineligible, Raise
LEMMA TwoAreStacked ==
    ASSUME NEW d, NEW e
    PROVE  /\ Append(<<d>>, e) = <<d, e>>
           /\ Front(<<d, e>>) = <<d>> /\ Last(<<d, e>>) = e /\ Len(<<d, e>>) = 2
<1> DEFINE S == {d, e}
<1>1. d \in S /\ e \in S
  OBVIOUS
<1> HIDE DEF S
<1>2. <<d>> \in Seq(S) /\ <<d, e>> \in Seq(S) /\ Len(<<d>>) = 1 /\ Len(<<d, e>>) = 2
      /\ <<d>>[1] = d /\ <<d, e>>[1] = d /\ <<d, e>>[2] = e
  BY <1>1
<1>3. Append(<<d>>, e) = <<d, e>>
  <2> DEFINE a == Append(<<d>>, e)
  <2>1. a \in Seq(S) /\ Len(a) = 2 /\ a[1] = d /\ a[2] = e
    BY <1>1, <1>2
  <2> HIDE DEF a
  <2>2. a = <<d, e>>
    BY <1>2, <2>1
  <2> QED
    BY <2>2 DEF a
<1>4. Front(<<d, e>>) = <<d>>
  <2> DEFINE f == SubSeq(<<d, e>>, 1, 1)
  <2>1. f \in Seq(S) /\ Len(f) = 1 /\ f[1] = d
    BY <1>2
  <2> HIDE DEF f
  <2>2. f = <<d>>
    BY <1>2, <2>1
  <2>3. Front(<<d, e>>) = SubSeq(<<d, e>>, 1, Len(<<d, e>>) - 1) /\ Len(<<d, e>>) - 1 = 1
    BY <1>2 DEF Front
  <2> QED
    BY <2>2, <2>3, Zenon DEF f
<1> QED
  BY <1>2, <1>3, <1>4 DEF Last
(* The rest of a list, after its head. *)
LEMMA RestOfALog ==
    ASSUME NEW log, Logs(log), log # <<>>
    PROVE  /\ Logs(Tail(log)) /\ Head(log) = log[1] /\ 1 \in DOMAIN log
           /\ \A k \in DOMAIN Tail(log) : k + 1 \in DOMAIN log /\ Tail(log)[k] = log[k + 1]
           /\ \A k \in DOMAIN Tail(log) : k \in Nat \ {0}
<1> DEFINE S == Range(log)
           rest == Tail(log)
<1>1. log \in Seq(S)
  BY DEF Logs
<1> HIDE DEF S
<1>2. /\ rest \in Seq(S) /\ Len(log) \in Nat \ {0} /\ Len(rest) = Len(log) - 1
      /\ DOMAIN log = 1 .. Len(log) /\ DOMAIN rest = 1 .. Len(rest)
      /\ \A k \in 1 .. Len(rest) : rest[k] = log[k + 1]
      /\ Head(log) = log[1]
  BY <1>1
<1> HIDE DEF rest
<1>3. Logs(rest)
  <2>1. \A k \in 1 .. Len(rest) : rest[k] \in Range(rest)
    BY <1>2 DEF Range
  <2> QED
    BY <1>2, <2>1 DEF Logs
<1>4. 1 \in DOMAIN log /\ \A k \in DOMAIN rest : k + 1 \in DOMAIN log /\ k \in Nat \ {0}
  BY <1>2
<1> QED
  BY <1>2, <1>3, <1>4 DEF rest

(* The next of a handler's intents goes out, to the digest first. *)
LEMMA PublishKeeps == ASSUME IInv, PublishNext PROVE IInv'
<1>1. /\ outbox # <<>> /\ IsBar(Top.event) /\ outbox' = Tail(outbox) /\ calls' = Publish(outbox[1])
      /\ UNCHANGED <<seen, warm, digest, intents>>
  <2>1. Head(outbox) = outbox[1]
    BY RestOfALog DEF PublishNext, IInv, AllAreLogs
  <2> QED
    BY <2>1 DEF PublishNext, PublishOnTheBus
<1>2. ~(/\ calls = <<Call(Driven, Left), Call(Made, Hears)>> /\ OfTheBar(Made))
  <2> SUFFICES ASSUME calls = <<Call(Driven, Left), Call(Made, Hears)>>, OfTheBar(Made) PROVE FALSE
    OBVIOUS
  <2>1. Top.event = Made
    BY DEF Top, Last, Call
  <2> QED
    BY <1>1, <2>1 DEF OfTheBar, IsBar, IsIntent
<1>3. calls = <<Call(Driven, Left)>> /\ OnABar /\ 1 \notin Left
  BY <1>1, <1>2 DEF IInv, CallsNest, OnABar
<1> DEFINE next == outbox[1]
<1>4. /\ Logs(Tail(outbox)) /\ 1 \in DOMAIN outbox
      /\ \A k \in DOMAIN Tail(outbox) : k + 1 \in DOMAIN outbox /\ Tail(outbox)[k] = outbox[k + 1]
      /\ \A k \in DOMAIN Tail(outbox) : k \in Nat \ {0}
  BY <1>1, RestOfALog DEF IInv, AllAreLogs
<1>5. OfTheBar(next) /\ \A k \in DOMAIN Tail(outbox) : OfTheBar(Tail(outbox)[k]) /\ Before(next, Tail(outbox)[k])
  <2>1. OfTheBar(next) /\ \A l \in DOMAIN outbox : OfTheBar(outbox[l]) /\ (1 < l => Before(next, outbox[l]))
    BY <1>4 DEF IInv, OutboxIsInOrder
  <2>2. \A k \in DOMAIN Tail(outbox) : 1 < k + 1
    BY <1>4
  <2> QED
    BY <1>4, <2>1, <2>2
<1>6. calls' = <<Call(Driven, Left), Call(next, {1, 2})>>
  <2>1. Handlers(next) = {1, 2}
    BY <1>5, HandlersOfEach DEF OfTheBar
  <2>2. Publish(next) = Append(calls, Call(next, {1, 2}))
    BY <2>1, Zenon DEF Publish, Call
  <2>3. Append(<<Call(Driven, Left)>>, Call(next, {1, 2})) = <<Call(Driven, Left), Call(next, {1, 2})>>
    BY TwoAreStacked
  <2> HIDE DEF next
  <2> QED
    BY <1>1, <1>3, <2>2, <2>3, Zenon DEF next
<1> HIDE DEF next
<1>7. /\ Driven' = Driven /\ Left' = Left /\ Made' = next /\ Hears' = {1, 2}
      /\ calls' # <<>> /\ Len(calls') = 2 /\ Len(calls) = 1 /\ calls # <<>>
  BY <1>3, <1>6 DEF Driven, Left, Made, Hears, Call
<1>8. AllAreLogs'
  BY <1>1, <1>4 DEF IInv, AllAreLogs, Logs
<1>9. OnABar' /\ 1 \notin Left'
  <2>1. warm < Len(seen) /\ Driven = seen[Len(seen)] /\ Left \subseteq {1} \cup 3 .. N + 3
        /\ \A i \in Left : \A j \in {1} \cup 3 .. N + 3 : i <= j => j \in Left
    BY <1>3 DEF OnABar
  <2> QED
    BY <1>1, <1>3, <1>7, <2>1 DEF OnABar
<1>10. \A e : OfTheBar(e) => /\ IsIntent(e) /\ e.strategy \in Range(Strategies) /\ e.nth \in Nat
                             /\ e.symbol = Driven'.symbol /\ e.ts = Driven'.ts
                             /\ Place(e.strategy) + 3 \notin Left'
  BY <1>7 DEF OfTheBar
<1>11. OfTheBar(Made)' /\ \A k \in DOMAIN outbox' : OfTheBar(outbox[k])' /\ Before(next, outbox'[k])
  BY <1>1, <1>5, <1>7, <1>10 DEF OfTheBar
<1>12. CallsNest'
  BY <1>6, <1>7, <1>9, <1>11 DEF CallsNest
<1>13. OutboxIsInOrder'
  <2>1. \A k, l \in DOMAIN outbox' : k < l => Before(outbox'[k], outbox'[l])
    <3>1. \A k, l \in DOMAIN outbox : k < l => Before(outbox[k], outbox[l])
      BY DEF IInv, OutboxIsInOrder
    <3>2. \A k, l \in DOMAIN Tail(outbox) : k < l => k + 1 < l + 1
      BY <1>4
    <3> QED
      BY <1>1, <1>4, <3>1, <3>2
  <2> QED
    BY <1>11, <2>1 DEF OutboxIsInOrder
<1>14. BarIsTheCause'
  <2>1. PICK c \in DOMAIN digest :
          /\ digest[c] = Driven
          /\ \A j \in DOMAIN digest : c < j =>
               OfTheBar(digest[j]) /\ \A k \in DOMAIN outbox : Before(digest[j], outbox[k])
    BY <1>3, <1>7 DEF IInv, BarIsTheCause
  <2>2. \A j \in DOMAIN digest : c < j => OfTheBar(digest[j])'
    BY <1>1, <1>10, <2>1 DEF OfTheBar
  <2>3. \A j \in DOMAIN digest : c < j =>
          Before(digest[j], next) /\ \A k \in DOMAIN outbox' : Before(digest[j], outbox'[k])
    BY <1>1, <1>4, <2>1 DEF next
  <2> QED
    BY <1>1, <1>7, <2>1, <2>2, <2>3 DEF BarIsTheCause
<1>15. Digested' = Digested /\ Collected' = Collected
  <2>1. Digested = SubSeq(seen, warm + 1, Len(seen)) /\ Digested' = SubSeq(seen, warm + 1, Len(seen))
    BY <1>1, <1>3, <1>7 DEF Digested
  <2>2. Collected = intents /\ Collected' = intents
    BY <1>1, <1>7 DEF Collected
  <2> QED
    BY <2>1, <2>2
<1> QED
  BY <1>1, <1>8, <1>12, <1>13, <1>14, <1>15, DigestStays DEF IInv

(* An event that has reached all its handlers is done with. *)
LEMMA ReturnKeeps == ASSUME IInv, Return PROVE IInv'
<1>1. /\ Top.todo = {} /\ (IsIntent(Top.event) \/ outbox = <<>>) /\ calls' = Front(calls) /\ calls # <<>>
      /\ UNCHANGED <<seen, warm, outbox, digest, intents>>
  BY DEF Return
<1>2. AllAreLogs'
  BY <1>1 DEF IInv, AllAreLogs, Logs
<1>3. CASE calls = <<Call(Driven, Left)>> /\ OnABar
  <2>1. Top = Call(Driven, Left) /\ calls' = <<>> /\ Len(calls) = 1
    BY <1>1, <1>3 DEF Top, Last, Front
  <2>2. IsBar(Driven) /\ ~IsIntent(Driven)
    BY <1>3 DEF OnABar, IInv, AllAreLogs, Logs, IsBar, IsIntent
  <2>3. outbox = <<>> /\ Left = {} /\ Len(calls') = 0
    BY <1>1, <2>1, <2>2 DEF Call
  <2>4. CallsNest' /\ OutboxIsInOrder' /\ BarIsTheCause'
    BY <1>1, <2>1, <2>3 DEF CallsNest, OutboxIsInOrder, BarIsTheCause
  <2>5. Digested' = Digested /\ Collected' = Collected
    <3>1. Digested = SubSeq(seen, warm + 1, Len(seen)) /\ Digested' = SubSeq(seen, warm + 1, Len(seen))
      BY <1>1, <2>1, <2>3 DEF Digested
    <3>2. Collected = intents /\ Collected' = intents
      BY <1>1, <2>1, <2>3 DEF Collected
    <3> QED
      BY <3>1, <3>2
  <2> QED
    BY <1>1, <1>2, <2>4, <2>5, DigestStays DEF IInv
<1>4. CASE calls = <<Call(Driven, Left), Call(Made, Hears)>> /\ OnABar /\ 1 \notin Left
  <2>1. Top = Call(Made, Hears) /\ calls' = <<Call(Driven, Left)>> /\ Len(calls) = 2
    <3>1. /\ Front(<<Call(Driven, Left), Call(Made, Hears)>>) = <<Call(Driven, Left)>>
          /\ Last(<<Call(Driven, Left), Call(Made, Hears)>>) = Call(Made, Hears)
          /\ Len(<<Call(Driven, Left), Call(Made, Hears)>>) = 2
      BY TwoAreStacked
    <3> QED
      BY <1>1, <1>4, <3>1, Zenon DEF Top
  <2>2. /\ Hears = {} /\ Driven' = Driven /\ Left' = Left
        /\ calls' # <<>> /\ Len(calls') = 1
    BY <1>1, <2>1 DEF Driven, Left, Call
  <2>3. OnABar'
    <3>1. warm < Len(seen) /\ Driven = seen[Len(seen)] /\ Left \subseteq {1} \cup 3 .. N + 3
          /\ \A i \in Left : \A j \in {1} \cup 3 .. N + 3 : i <= j => j \in Left
      BY <1>4 DEF OnABar
    <3> QED
      BY <1>1, <1>4, <2>2, <3>1 DEF OnABar
  <2>4. CallsNest'
    BY <2>1, <2>2, <2>3 DEF CallsNest
  <2>5. OutboxIsInOrder'
    <3>1. OutboxIsInOrder
      BY DEF IInv
    <3> QED
      BY <1>1, <2>2, <3>1 DEF OutboxIsInOrder, OfTheBar
  <2>6. BarIsTheCause'
    <3>1. BarIsTheCause
      BY DEF IInv
    <3> QED
      BY <1>1, <1>4, <2>1, <2>2, <3>1 DEF BarIsTheCause, OfTheBar
  <2>7. Digested' = Digested /\ Collected' = Collected
    <3>1. Digested = SubSeq(seen, warm + 1, Len(seen)) /\ Digested' = SubSeq(seen, warm + 1, Len(seen))
      BY <1>1, <1>4, <2>2 DEF Digested
    <3>2. Collected = intents /\ Collected' = intents
      BY <1>1, <2>1, <2>2 DEF Collected
    <3> QED
      BY <3>1, <3>2
  <2> QED
    BY <1>1, <1>2, <2>4, <2>5, <2>6, <2>7, DigestStays DEF IInv
<1> QED
  BY <1>1, <1>3, <1>4 DEF IInv, CallsNest
-----------------------------------------------------------------------------
LEMMA InitIInv == Init => IInv
<1> SUFFICES ASSUME Init PROVE IInv
  OBVIOUS
<1>1. /\ seen = <<>> /\ warm = 0 /\ calls = <<>> /\ outbox = <<>> /\ digest = <<>> /\ intents = <<>>
  BY DEF Init
<1>2. Logs(<<>>)
  BY DEF Logs
<1>3. AllAreLogs
  BY <1>1, <1>2 DEF AllAreLogs
<1>4. CallsNest /\ OutboxIsInOrder /\ BarIsTheCause
  BY <1>1 DEF CallsNest, OutboxIsInOrder, BarIsTheCause
<1>5. BarsIn(digest) = {} /\ IntentsIn(digest) = {}
  BY <1>1 DEF BarsIn, IntentsIn
<1>6. Digested = <<>> /\ Collected = <<>>
  <2>1. Digested = SubSeq(<<>>, 1, 0)
    BY <1>1 DEF Digested
  <2>2. SubSeq(<<>>, 1, 0) = <<>>
    <3>1. 0 <= Len(<<>>) /\ Len(<<>>) = 0
      OBVIOUS
    <3>2. 0 = Len(<<>>) => SubSeq(<<>>, 0 + 1, Len(<<>>)) = <<>>
      BY <1>2, <3>1, SpansOfLogs
    <3> QED
      BY <3>1, <3>2
  <2>3. Len(calls) = 0
    BY <1>1
  <2> QED
    BY <1>1, <2>1, <2>2, <2>3 DEF Collected
<1>7. DigestCovers
  <2>1. Cardinality({}) = 0
    BY FS_EmptySet
  <2> QED
    BY <1>5, <1>6, <2>1 DEF DigestCovers, Lists
<1>8. IntentsFollowTheirBar
  BY <1>5 DEF IntentsFollowTheirBar
<1> QED
  BY <1>3, <1>4, <1>7, <1>8 DEF IInv

(* The invariant looks at no other variable than these. *)
LEMMA OthersDoNotMatter ==
    ASSUME IInv, UNCHANGED <<seen, warm, calls, outbox, digest, intents>>
    PROVE  IInv'
<1>1. /\ Driven' = Driven /\ Left' = Left /\ Made' = Made /\ Hears' = Hears
  BY DEF Driven, Left, Made, Hears
<1>2. AllAreLogs'
  BY DEF IInv, AllAreLogs, Logs
<1>3. CallsNest'
  <2>1. CallsNest
    BY DEF IInv
  <2> QED
    BY <1>1, <2>1 DEF CallsNest, OnABar, OfTheBar
<1>4. OutboxIsInOrder'
  <2>1. OutboxIsInOrder
    BY DEF IInv
  <2> QED
    BY <1>1, <2>1 DEF OutboxIsInOrder, OfTheBar
<1>5. BarIsTheCause'
  <2>1. BarIsTheCause
    BY DEF IInv
  <2> QED
    BY <1>1, <2>1 DEF BarIsTheCause, OfTheBar
<1>6. Digested' = Digested /\ Collected' = Collected
  BY DEF Digested, Collected, Left, Made, Hears
<1> QED
  BY <1>2, <1>3, <1>4, <1>5, <1>6, DigestStays DEF IInv

LEMMA NextIInv == ASSUME IInv, [Next]_vars PROVE IInv'
<1>1. CASE UNCHANGED vars
  BY <1>1, OthersDoNotMatter DEF vars
<1>2. ASSUME NEW bar \in Bars, WarmUp(bar) PROVE IInv'
  BY <1>2, WarmUpKeeps
<1>3. ASSUME NEW bar \in Bars, Drive(bar) PROVE IInv'
  BY <1>3, DriveKeeps
<1>4. CASE Digest
  BY <1>4, DigestKeeps
<1>5. CASE Collect
  BY <1>5, CollectKeeps
<1>6. CASE ObserveBar
  BY <1>6, ObserveKeeps
<1>7. CASE PublishNext
  BY <1>7, PublishKeeps
<1>8. CASE Return
  BY <1>8, ReturnKeeps
<1>9. CASE Finish
  BY <1>9, OthersDoNotMatter DEF Finish
<1>10. ASSUME NEW strategy \in Range(Strategies), Handler(strategy) PROVE IInv'
  BY <1>10, HandlerKeeps
<1> QED
  BY <1>1, <1>2, <1>3, <1>4, <1>5, <1>6, <1>7, <1>8, <1>9, <1>10 DEF Next

LEMMA IInvIsTheOrder == IInv => DigestIsTheRunInOrder
<1> SUFFICES ASSUME IInv PROVE DigestIsTheRunInOrder
  OBVIOUS
<1>1. ASSUME calls = <<>> /\ outbox = <<>>
      PROVE  Digested = SubSeq(seen, warm + 1, Len(seen)) /\ Collected = intents
  <2>1. Digested = SubSeq(seen, warm + 1, Len(seen))
    BY <1>1 DEF Digested
  <2>2. Len(calls) = 0
    BY <1>1
  <2> QED
    BY <2>1, <2>2 DEF Collected
<1>2. DigestIsTheRun
  BY <1>1 DEF IInv, DigestCovers, DigestIsTheRun
<1> QED
  BY <1>2 DEF IInv, DigestIsTheRunInOrder

(* However many strategies there are, whatever they return on a bar, and   *)
(* however the handlers nest: every intent enters the digest behind the    *)
(* bar it was made on, before the next bar, in registration order; and     *)
(* between bars the digest is of exactly the bars that were driven and the *)
(* intents that were collected (lab/engine.py, bus.py).                    *)
THEOREM DigestIsAlwaysInOrder == Spec => []DigestIsTheRunInOrder
<1>1. Spec => []IInv
  BY InitIInv, NextIInv, PTL DEF Spec
<1> QED
  BY <1>1, IInvIsTheOrder, PTL
-----------------------------------------------------------------------------
(* A window: a list of the newest of some moments, oldest first.            *)
Above(moments, one) == {t \in moments : t > one}
Largest(S, x) == x \in S /\ \A y \in S : y <= x

LEMMA LargestIsOne ==
  ASSUME NEW S \in SUBSET Int, NEW x, Largest(S, x)
  PROVE  Max(S) = x
<1>1. \A y : y \in S /\ (\A z \in S : y >= z) => y = x
  BY DEF Largest
<1>2. x \in S /\ \A z \in S : x >= z
  BY DEF Largest
<1> QED
  BY <1>1, <1>2 DEF Max

LEMMA OlderHaveMoreAbove ==
  ASSUME NEW T \in SUBSET Int, IsFiniteSet(T), NEW a \in T, NEW b \in T, a < b
  PROVE  Cardinality(Above(T, b)) \in Nat /\ Cardinality(Above(T, b)) < Cardinality(Above(T, a))
<1> DEFINE A == Above(T, a)
           B == Above(T, b)
<1>1. IsFiniteSet(A) /\ IsFiniteSet(B)
  BY FS_Subset DEF Above
<1>2. B \in SUBSET A
  <2>1. ASSUME NEW t \in B PROVE t \in A
    <3>1. t \in T /\ t > b /\ t \in Int /\ a \in Int /\ b \in Int
      BY DEF Above
    <3>2. t > a
      BY <3>1
    <3> QED
      BY <3>1, <3>2 DEF Above
  <2> QED
    BY <2>1
<1>3. B # A
  BY DEF Above
<1>4. Cardinality(A) \in Nat /\ Cardinality(B) \in Nat
  BY <1>1, FS_CardinalityType
<1> HIDE DEF A, B
<1>5. Cardinality(B) <= Cardinality(A) /\ (Cardinality(B) = Cardinality(A) => B = A)
  BY <1>1, <1>2, FS_Subset
<1>6. Cardinality(B) < Cardinality(A)
  BY <1>3, <1>4, <1>5
<1> QED
  BY <1>4, <1>6 DEF A, B

(* As many are above one of them as come after it in the list.              *)
Counted(list, moments, count) ==
  \A i \in 1 .. count : Cardinality(Above(moments, list[i])) = count - i
TailOf(h, T) == h \in Seq(T) /\ Len(h) <= Cardinality(T) /\ Counted(h, T, Len(h))

LEMMA TailGrows ==
  ASSUME NEW T \in SUBSET Int, IsFiniteSet(T), NEW h, TailOf(h, T), NEW x \in Int, \A t \in T : t < x,
         NEW U, U = T \cup {x}
  PROVE  /\ IsFiniteSet(U) /\ Cardinality(U) = Cardinality(T) + 1
         /\ TailOf(Append(h, x), U) /\ Len(Append(h, x)) = Len(h) + 1
<1> DEFINE n == Len(h)
           g == Append(h, x)
<1>1. x \notin T
  OBVIOUS
<1>2. IsFiniteSet(U) /\ Cardinality(U) = Cardinality(T) + 1 /\ Cardinality(T) \in Nat
  BY <1>1, FS_AddElement, FS_CardinalityType
<1>3. h \in Seq(T) /\ n <= Cardinality(T) /\ \A i \in 1 .. n : Cardinality(Above(T, h[i])) = n - i
  BY DEF TailOf, Counted
<1>4. n \in Nat /\ \A i \in 1 .. n : h[i] \in T
  BY <1>3
<1>5. g \in Seq(U) /\ Len(g) = n + 1 /\ g[n + 1] = x /\ \A i \in 1 .. n : g[i] = h[i]
  <2>1. h \in Seq(U) /\ x \in U
    BY <1>3
  <2> QED
    BY <1>4, <2>1
<1> HIDE DEF g, n
<1>6. ASSUME NEW i \in 1 .. n PROVE Cardinality(Above(U, h[i])) = n - i + 1
  <2> DEFINE A == Above(T, h[i])
  <2>1. h[i] \in T /\ Cardinality(A) = n - i
    BY <1>3, <1>4
  <2>2. Above(U, h[i]) = A \cup {x} /\ x \notin A
    BY <1>1, <2>1 DEF Above
  <2>3. IsFiniteSet(A)
    BY FS_Subset DEF Above
  <2> HIDE DEF A
  <2> QED
    BY <2>1, <2>2, <2>3, FS_AddElement
<1>7. Cardinality(Above(U, x)) = 0
  <2>1. Above(U, x) = {}
    <3>1. ASSUME NEW t \in U PROVE ~(t > x)
      <4>1. CASE t = x
        BY <4>1
      <4>2. CASE t \in T
        <5>1. t < x /\ t \in Int
          BY <4>2
        <5> QED
          BY <5>1
      <4> QED
        BY <4>1, <4>2
    <3> QED
      BY <3>1 DEF Above
  <2> QED
    BY <2>1, FS_EmptySet
<1> DEFINE k == n + 1
<1>k. k \in Nat /\ k = n + 1
  BY <1>4
<1> HIDE DEF k
<1>8. ASSUME NEW i \in 1 .. k PROVE Cardinality(Above(U, g[i])) = k - i
  <2>1. CASE i = k
    <3>1. k - i = 0 /\ g[i] = x
      BY <1>4, <1>5, <1>k, <2>1
    <3> QED
      BY <1>7, <3>1
  <2>2. CASE i \in 1 .. n
    <3>1. k - i = n - i + 1 /\ g[i] = h[i]
      BY <1>4, <1>5, <1>k, <2>2
    <3> QED
      BY <1>6, <2>2, <3>1
  <2> QED
    BY <1>4, <1>k, <2>1, <2>2
<1>9. TailOf(g, U)
  <2>1. Counted(g, U, k)
    BY <1>k, <1>8 DEF Counted
  <2>2. k <= Cardinality(U) /\ Len(g) = k /\ g \in Seq(U)
    BY <1>2, <1>3, <1>4, <1>5, <1>k
  <2> QED
    BY <2>1, <2>2 DEF TailOf
<1> QED
  BY <1>2, <1>5, <1>9 DEF g, n

LEMMA LastOfIsTheEnd ==
  ASSUME NEW S, NEW h \in Seq(S), NEW n \in 0 .. Len(h)
  PROVE  /\ LastOf(h, n) \in Seq(S) /\ Len(LastOf(h, n)) = n
         /\ \A i \in 1 .. n : LastOf(h, n)[i] = h[Len(h) - n + i]
BY DEF LastOf

LEMMA TailIsCut ==
  ASSUME NEW T \in SUBSET Int, IsFiniteSet(T), NEW h, TailOf(h, T), NEW n \in 0 .. Len(h)
  PROVE  TailOf(LastOf(h, n), T) /\ Len(LastOf(h, n)) = n
<1> DEFINE g == LastOf(h, n)
           m == Len(h)
<1>1. h \in Seq(T) /\ m <= Cardinality(T) /\ \A i \in 1 .. m : Cardinality(Above(T, h[i])) = m - i
  BY DEF TailOf, Counted
<1>2. g \in Seq(T) /\ Len(g) = n /\ \A i \in 1 .. n : g[i] = h[m - n + i]
  BY <1>1, LastOfIsTheEnd
<1>3. m \in Nat /\ n \in Nat /\ n <= m /\ Cardinality(T) \in Nat
  BY <1>1, FS_CardinalityType
<1> HIDE DEF g, m
<1>4. ASSUME NEW i \in 1 .. n PROVE Cardinality(Above(T, g[i])) = n - i
  <2>1. m - n + i \in 1 .. m /\ m - (m - n + i) = n - i
    BY <1>3
  <2> QED
    BY <1>1, <1>2, <2>1
<1>5. TailOf(g, T)
  <2>1. Counted(g, T, n)
    BY <1>3, <1>4 DEF Counted
  <2> QED
    BY <1>1, <1>2, <1>3, <2>1 DEF TailOf
<1> QED
  BY <1>2, <1>5 DEF g

LEMMA TailIsTheNewest ==
  ASSUME NEW T \in SUBSET Int, IsFiniteSet(T), NEW g, TailOf(g, T)
  PROVE  /\ Range(g) = Newest(T, Len(g))
         /\ \A i \in 2 .. Len(g) : g[i - 1] < g[i]
<1> DEFINE n == Len(g)
<1>1. g \in Seq(T) /\ n <= Cardinality(T) /\ \A i \in 1 .. n : Cardinality(Above(T, g[i])) = n - i
  BY DEF TailOf, Counted
<1>2. n \in Nat /\ DOMAIN g = 1 .. n /\ \A i \in 1 .. n : g[i] \in T
  BY <1>1
<1> HIDE DEF n
<1>3. \A a, b \in T : Cardinality(Above(T, a)) = Cardinality(Above(T, b)) => a = b
  <2> SUFFICES ASSUME NEW a \in T, NEW b \in T, Cardinality(Above(T, a)) = Cardinality(Above(T, b))
               PROVE  a = b
    OBVIOUS
  <2>1. Cardinality(Above(T, a)) \in Nat /\ Cardinality(Above(T, b)) \in Nat
    <3>1. IsFiniteSet(Above(T, a)) /\ IsFiniteSet(Above(T, b))
      BY FS_Subset DEF Above
    <3> QED
      BY <3>1, FS_CardinalityType
  <2>2. ~(a < b)
    BY <2>1, OlderHaveMoreAbove
  <2>3. ~(b < a)
    BY <2>1, OlderHaveMoreAbove
  <2> QED
    BY <2>2, <2>3
<1>4. ASSUME NEW d \in T, NEW c, c = Cardinality(Above(T, d)), c < n
      PROVE  \E i \in DOMAIN g : g[i] = d
  <2>1. c \in Nat
    <3>1. IsFiniteSet(Above(T, d))
      BY FS_Subset DEF Above
    <3> QED
      BY <1>4, <3>1, FS_CardinalityType
  <2>2. n - c \in 1 .. n /\ n - (n - c) = c
    BY <1>2, <1>4, <2>1
  <2>3. g[n - c] = d
    BY <1>1, <1>2, <1>3, <1>4, <2>2
  <2> QED
    BY <1>2, <2>2, <2>3
<1>5. ASSUME NEW i \in 1 .. n PROVE g[i] \in T /\ Cardinality(Above(T, g[i])) < n
  BY <1>1, <1>2
<1>6. Range(g) = Newest(T, n)
  <2>1. \A d \in Newest(T, n) : d \in Range(g)
    BY <1>4 DEF Newest, Above, Range
  <2>2. \A d \in Range(g) : d \in Newest(T, n)
    BY <1>2, <1>5 DEF Newest, Above, Range
  <2> QED
    BY <2>1, <2>2
<1>7. ASSUME NEW i \in 2 .. n PROVE g[i - 1] < g[i]
  <2>1. i - 1 \in 1 .. n /\ i \in 1 .. n
    BY <1>2
  <2>2. Cardinality(Above(T, g[i - 1])) = n - (i - 1) /\ Cardinality(Above(T, g[i])) = n - i
    BY <1>1, <2>1
  <2> DEFINE a == g[i - 1]
             b == g[i]
  <2>3. a \in T /\ b \in T
    BY <1>2, <2>1
  <2>4. Cardinality(Above(T, a)) > Cardinality(Above(T, b))
    BY <1>2, <2>2
  <2> HIDE DEF a, b
  <2>5. a # b
    BY <2>2, <1>2 DEF a, b
  <2>6. ~(b < a)
    <3>1. ASSUME b < a PROVE FALSE
      <4>1. Cardinality(Above(T, a)) \in Nat /\ Cardinality(Above(T, a)) < Cardinality(Above(T, b))
        BY <2>3, <3>1, OlderHaveMoreAbove
      <4>2. Cardinality(Above(T, b)) \in Nat
        <5>1. IsFiniteSet(Above(T, b))
          BY FS_Subset DEF Above
        <5> QED
          BY <5>1, FS_CardinalityType
      <4> QED
        BY <2>4, <4>1, <4>2
    <3> QED
      BY <3>1
  <2>7. a < b
    BY <2>3, <2>5, <2>6
  <2> QED
    BY <2>7 DEF a, b
<1> QED
  BY <1>6, <1>7 DEF n
-----------------------------------------------------------------------------
(* What the context keeps of the bars it has been told, K.                  *)
TimesIn(K, s) == {b.ts : b \in {b \in K : b.symbol = s}}
PrintsIn(K, s) == {ts \in TimesIn(K, s) : Holding(ts) # {}}
PrintsBy(K, s, upto) == {ts \in PrintsIn(K, s) : ts <= upto}
PrintsOn(K, s, d) == {ts \in TimesIn(K, s) : Holding(ts) = {d}}
TicksOf(K) == {b.ts : b \in {b \in K : PrintsBy(K, b.symbol, b.ts) # {}}}

PrintAt(ts) == {t \in {ts} : Holding(t) # {}}
PrintOn(ts, d) == {t \in {ts} : Holding(t) = {d}}

(* bar comes behind the bars of K, and W is K with it.                      *)
Follows(K, bar, W) ==
  /\ K \in SUBSET Bars /\ bar \in Bars /\ W = K \cup {bar}
  /\ \A b \in K : b.ts <= bar.ts /\ (b.symbol = bar.symbol => b.ts < bar.ts)

LEMMA SessionsAreTimed ==
  ASSUME NEW d \in Days
  PROVE  Sessions[d].open \in Nat /\ Sessions[d].close \in Nat
<1> DEFINE R == [open : Nat, close : Nat]
<1>1. Sessions \in Seq(R)
  BY ContextAssumption
<1>2. \A r \in R : r.open \in Nat /\ r.close \in Nat
  OBVIOUS
<1> HIDE DEF R
<1>3. DOMAIN Sessions = 1 .. Len(Sessions)
  BY <1>1
<1>4. Sessions[d] \in R
  BY <1>1, <1>3 DEF Days
<1> QED
  BY <1>2, <1>4

LEMMA SessionsComeInOrder ==
  ASSUME NEW t \in Nat, NEW u \in Nat, t <= u, NEW c \in Holding(t), NEW d \in Holding(u)
  PROVE  c \in Nat /\ d \in Nat /\ c <= d /\ (t = u => c = d)
<1>1. c \in DOMAIN Sessions /\ d \in DOMAIN Sessions /\ c \in Nat /\ d \in Nat
  BY ContextAssumption DEF Holding, Days
<1>2. /\ Sessions[c].open \in Nat /\ Sessions[c].close \in Nat
      /\ Sessions[d].open \in Nat /\ Sessions[d].close \in Nat
  BY <1>1, SessionsAreTimed DEF Days
<1>3. Sessions[c].open < t /\ t <= Sessions[c].close /\ Sessions[d].open < u /\ u <= Sessions[d].close
  BY DEF Holding
<1>4. ~(d < c)
  <2>1. ASSUME d < c PROVE FALSE
    <3>1. Sessions[d].close <= Sessions[c].open
      BY <1>1, <2>1, ContextAssumption
    <3> QED
      BY <1>2, <1>3, <3>1
  <2> QED
    BY <2>1
<1>5. t = u => ~(c < d)
  <2>1. ASSUME t = u, c < d PROVE FALSE
    <3>1. Sessions[c].close <= Sessions[d].open
      BY <1>1, <2>1, ContextAssumption
    <3> QED
      BY <1>2, <1>3, <2>1, <3>1
  <2> QED
    BY <2>1
<1> QED
  BY <1>1, <1>4, <1>5

LEMMA OneSessionAtATime ==
  ASSUME NEW t \in Nat, NEW d \in Holding(t)
  PROVE  /\ Holding(t) = {d} /\ d \in Days /\ d \in Nat
         /\ Sessions[d].open \in Nat /\ Sessions[d].close \in Nat
         /\ Sessions[d].open < t /\ t <= Sessions[d].close
<1>1. ASSUME NEW c \in Holding(t) PROVE c = d
  BY SessionsComeInOrder
<1>2. d \in Days /\ d \in Nat /\ Sessions[d].open < t /\ t <= Sessions[d].close
  BY ContextAssumption DEF Holding, Days
<1>3. Sessions[d].open \in Nat /\ Sessions[d].close \in Nat
  BY <1>2, SessionsAreTimed
<1> QED
  BY <1>1, <1>2, <1>3

LEMMA BarsAreDated ==
  ASSUME NEW b \in Bars
  PROVE  b.ts \in Nat /\ b.ts >= 1 /\ b.ts < End /\ b.symbol \in Universe /\ b.kind = "bar"
BY SpanAssumption DEF Bars

LEMMA TimesAreDated ==
  ASSUME NEW K \in SUBSET Bars, NEW s
  PROVE  TimesIn(K, s) \in SUBSET Nat /\ IsFiniteSet(TimesIn(K, s)) /\ \A t \in TimesIn(K, s) : t >= 1
<1>1. ASSUME NEW t \in TimesIn(K, s) PROVE t \in 1 .. End - 1 /\ t \in Nat /\ t >= 1
  BY SpanAssumption DEF TimesIn, Bars
<1>2. IsFiniteSet(1 .. End - 1)
  BY FS_Interval, SpanAssumption
<1>3. TimesIn(K, s) \in SUBSET (1 .. End - 1)
  BY <1>1
<1>4. IsFiniteSet(TimesIn(K, s))
  BY <1>2, <1>3, FS_Subset
<1> QED
  BY <1>1, <1>4

LEMMA TimesGrow ==
  ASSUME NEW K, NEW bar, NEW W, Follows(K, bar, W)
  PROVE  /\ TimesIn(W, bar.symbol) = TimesIn(K, bar.symbol) \cup {bar.ts}
         /\ \A r : r # bar.symbol => TimesIn(W, r) = TimesIn(K, r)
         /\ \A r : \A t \in TimesIn(K, r) :
              t \in Nat /\ t >= 1 /\ t <= bar.ts /\ (r = bar.symbol => t < bar.ts)
         /\ bar.ts \in Nat /\ bar.ts >= 1 /\ bar.symbol \in Universe
<1>1. K \in SUBSET Bars /\ bar \in Bars /\ W = K \cup {bar}
  BY DEF Follows
<1>2. bar.ts \in Nat /\ bar.ts >= 1 /\ bar.symbol \in Universe
  BY <1>1, BarsAreDated
<1>3. TimesIn(W, bar.symbol) = TimesIn(K, bar.symbol) \cup {bar.ts}
  BY <1>1 DEF TimesIn
<1>4. \A r : r # bar.symbol => TimesIn(W, r) = TimesIn(K, r)
  BY <1>1 DEF TimesIn
<1>5. ASSUME NEW r, NEW t \in TimesIn(K, r)
      PROVE  t \in Nat /\ t >= 1 /\ t <= bar.ts /\ (r = bar.symbol => t < bar.ts)
  <2>1. PICK b \in K : b.symbol = r /\ b.ts = t
    BY DEF TimesIn
  <2>2. b.ts \in Nat /\ b.ts >= 1
    BY <1>1, BarsAreDated
  <2> QED
    BY <2>1, <2>2 DEF Follows
<1> QED
  BY <1>2, <1>3, <1>4, <1>5

LEMMA PrintsGrow ==
  ASSUME NEW K, NEW bar, NEW W, Follows(K, bar, W)
  PROVE  /\ PrintsIn(W, bar.symbol) =
              PrintsIn(K, bar.symbol) \cup PrintAt(bar.ts)
         /\ \A d : PrintsOn(W, bar.symbol, d) =
              PrintsOn(K, bar.symbol, d) \cup PrintOn(bar.ts, d)
         /\ \A r : r # bar.symbol =>
              PrintsIn(W, r) = PrintsIn(K, r) /\ \A d : PrintsOn(W, r, d) = PrintsOn(K, r, d)
         /\ \A r : \A upto \in Nat : upto < bar.ts => PrintsBy(W, r, upto) = PrintsBy(K, r, upto)
<1>1. TimesIn(W, bar.symbol) = TimesIn(K, bar.symbol) \cup {bar.ts}
  BY TimesGrow
<1>2. \A r : r # bar.symbol => TimesIn(W, r) = TimesIn(K, r)
  BY TimesGrow
<1>3. PrintsIn(W, bar.symbol) = PrintsIn(K, bar.symbol) \cup PrintAt(bar.ts)
  BY <1>1 DEF PrintsIn, PrintAt
<1>4. ASSUME NEW d
      PROVE  PrintsOn(W, bar.symbol, d) = PrintsOn(K, bar.symbol, d) \cup PrintOn(bar.ts, d)
  BY <1>1 DEF PrintsOn, PrintOn
<1>5. ASSUME NEW r, r # bar.symbol
      PROVE  PrintsIn(W, r) = PrintsIn(K, r) /\ \A d : PrintsOn(W, r, d) = PrintsOn(K, r, d)
  BY <1>2, <1>5 DEF PrintsIn, PrintsOn
<1>6. ASSUME NEW r, NEW upto \in Nat, upto < bar.ts PROVE PrintsBy(W, r, upto) = PrintsBy(K, r, upto)
  <2>1. CASE r # bar.symbol
    BY <1>5, <2>1 DEF PrintsBy
  <2>2. CASE r = bar.symbol
    <3>1. ~(bar.ts <= upto)
      BY <1>6, TimesGrow
    <3> QED
      BY <1>3, <2>2, <3>1 DEF PrintsBy, PrintAt
  <2> QED
    BY <2>1, <2>2
<1> QED
  BY <1>3, <1>4, <1>5, <1>6

LEMMA TicksGrow ==
  ASSUME NEW K, NEW bar, NEW W, Follows(K, bar, W)
  PROVE  /\ TicksOf(W) = TicksOf(K) \cup {t \in {bar.ts} : PrintsIn(W, bar.symbol) # {}}
         /\ \A t \in TicksOf(W) : t \in Nat /\ t >= 1 /\ t <= bar.ts
         /\ \A r : \A t \in PrintsIn(K, r) : t \in TicksOf(K)
<1>1. K \in SUBSET Bars /\ bar \in Bars /\ W = K \cup {bar}
  BY DEF Follows
<1>2. bar.ts \in Nat /\ \A t \in TimesIn(W, bar.symbol) : t <= bar.ts
  BY TimesGrow
<1>3. PrintsBy(W, bar.symbol, bar.ts) = PrintsIn(W, bar.symbol)
  BY <1>2 DEF PrintsBy, PrintsIn
<1>4. ASSUME NEW b \in K PROVE PrintsBy(W, b.symbol, b.ts) = PrintsBy(K, b.symbol, b.ts)
  <2>1. CASE b.symbol = bar.symbol
    <3>1. b.ts < bar.ts /\ b.ts \in Nat
      BY <1>1, <2>1, BarsAreDated DEF Follows
    <3> QED
      BY <3>1, PrintsGrow
  <2>2. CASE b.symbol # bar.symbol
    BY <2>2, PrintsGrow DEF PrintsBy
  <2> QED
    BY <2>1, <2>2
<1>5. ASSUME NEW t \in TicksOf(W) PROVE t \in TicksOf(K) \cup {u \in {bar.ts} : PrintsIn(W, bar.symbol) # {}}
  <2>1. PICK b \in W : t = b.ts /\ PrintsBy(W, b.symbol, b.ts) # {}
    BY DEF TicksOf
  <2> QED
    BY <1>1, <1>3, <1>4, <2>1 DEF TicksOf
<1>6. ASSUME NEW t \in TicksOf(K) \cup {u \in {bar.ts} : PrintsIn(W, bar.symbol) # {}} PROVE t \in TicksOf(W)
  <2>1. CASE t \in TicksOf(K)
    <3>1. PICK b \in K : t = b.ts /\ PrintsBy(K, b.symbol, b.ts) # {}
      BY <2>1 DEF TicksOf
    <3> QED
      BY <1>1, <1>4, <3>1 DEF TicksOf
  <2>2. CASE t = bar.ts /\ PrintsIn(W, bar.symbol) # {}
    BY <1>1, <1>3, <2>2 DEF TicksOf
  <2> QED
    BY <1>6, <2>1, <2>2
<1>7. ASSUME NEW t \in TicksOf(W) PROVE t \in Nat /\ t >= 1 /\ t <= bar.ts
  <2>1. PICK b \in W : t = b.ts
    BY DEF TicksOf
  <2>2. b.ts \in Nat /\ b.ts >= 1
    BY <1>1, <2>1, BarsAreDated
  <2>3. b.ts <= bar.ts
    BY <1>1, <1>2, <2>1 DEF Follows
  <2> QED
    BY <2>1, <2>2, <2>3
<1>8. ASSUME NEW r, NEW t \in PrintsIn(K, r) PROVE t \in TicksOf(K)
  <2>1. PICK b \in K : b.symbol = r /\ b.ts = t
    BY DEF PrintsIn, TimesIn
  <2>2. t \in Nat
    BY <1>1, <2>1, BarsAreDated
  <2>3. t \in PrintsBy(K, b.symbol, b.ts)
    BY <2>1, <2>2 DEF PrintsBy
  <2> QED
    BY <2>1, <2>3 DEF TicksOf
<1>9. TicksOf(W) = TicksOf(K) \cup {t \in {bar.ts} : PrintsIn(W, bar.symbol) # {}}
  BY <1>5, <1>6
<1> QED
  BY <1>7, <1>8, <1>9
-----------------------------------------------------------------------------
(* A finite set of naturals has a greatest member: what is left of the set  *)
(* above it is minimal among finite sets.                                  *)
LEMMA GreatestMember ==
  ASSUME NEW S \in SUBSET Nat, IsFiniteSet(S), S # {}
  PROVE  Max(S) \in S /\ \A x \in S : Max(S) >= x
<1> DEFINE Cuts == {Above(S, d) : d \in S}
<1>1. Cuts \in SUBSET FiniteSubsetsOf(Nat) /\ Cuts # {}
  <2>1. \A d \in S : IsFiniteSet(Above(S, d)) /\ Above(S, d) \in SUBSET Nat
    BY FS_Subset DEF Above
  <2> QED
    BY <2>1 DEF FiniteSubsetsOf
<1>2. PICK A \in Cuts : \A E \in Cuts : ~(<<E, A>> \in StrictSubsetOrdering(Nat))
  BY <1>1, WFMin, FS_StrictSubsetOrderingWellFounded
<1>3. PICK greatest \in S : A = Above(S, greatest)
  OBVIOUS
<1>4. \A x \in S : greatest >= x
  <2> SUFFICES ASSUME NEW x \in S, x > greatest PROVE FALSE
    OBVIOUS
  <2> DEFINE E == Above(S, x)
  <2>1. E \in Cuts
    OBVIOUS
  <2>2. E \subseteq A
    <3>1. \A y \in S : y > x => y > greatest
      OBVIOUS
    <3> QED
      BY <1>3, <3>1 DEF Above
  <2>3. x \in A /\ x \notin E
    BY <1>3 DEF Above
  <2>4. <<E, A>> \in StrictSubsetOrdering(Nat)
    <3>1. E \in SUBSET Nat /\ A \in SUBSET Nat
      BY <1>3 DEF Above
    <3> HIDE DEF E
    <3> QED
      BY <2>2, <2>3, <3>1 DEF StrictSubsetOrdering
  <2> QED
    BY <1>2, <2>1, <2>4
<1>5. greatest \in S /\ \A x \in S : greatest >= x
  BY <1>4
<1> HIDE DEF Cuts
<1> QED
  BY <1>5, Zenon DEF Max

LEMMA LookbackIsEnough == Lookback \in Nat /\ \A n \in Lookbacks : n \in Nat /\ n <= Lookback
<1>1. CASE Lookbacks = {}
  BY <1>1 DEF Lookback
<1>2. CASE Lookbacks # {}
  <2>1. Max(Lookbacks) \in Lookbacks /\ \A n \in Lookbacks : Max(Lookbacks) >= n
    BY <1>2, GreatestMember, ContextAssumption
  <2>2. Lookback = Max(Lookbacks)
    BY <1>2 DEF Lookback
  <2> QED
    BY <2>1, <2>2, ContextAssumption
<1> QED
  BY <1>1, <1>2

(* A history of all the moments, or of as many of the newest as are needed. *)
EnoughOf(h, T) ==
  TailOf(h, T) /\ (Lookback = 0 => h = <<>>) /\ (Len(h) = Cardinality(T) \/ Len(h) >= Lookback)
Behind(T, x) == \A t \in T : t < x

LEMMA HistoryRemembers ==
  ASSUME NEW T \in SUBSET Nat, IsFiniteSet(T), NEW h, EnoughOf(h, T), NEW x \in Nat, Behind(T, x)
  PROVE  EnoughOf(Remember(h, x), T \cup {x})
<1> DEFINE U == T \cup {x}
           g == Append(h, x)
<1>1. /\ IsFiniteSet(U) /\ Cardinality(U) = Cardinality(T) + 1
      /\ TailOf(g, U) /\ Len(g) = Len(h) + 1
  <2>1. T \in SUBSET Int /\ x \in Int /\ TailOf(h, T) /\ \A t \in T : t < x
    BY DEF EnoughOf, Behind
  <2> QED
    BY <2>1, TailGrows
<1>2. Len(h) \in Nat /\ h \in Seq(T) /\ Len(h) <= Cardinality(T) /\ Cardinality(T) \in Nat
  BY FS_CardinalityType DEF EnoughOf, TailOf
<1>3. Len(h) = Cardinality(T) \/ Len(h) >= Lookback
  BY DEF EnoughOf
<1>4. Lookback \in Nat /\ U \in SUBSET Int
  BY LookbackIsEnough
<1> HIDE DEF U, g
<1>5. CASE Lookback = 0
  <2>1. Remember(h, x) = h
    BY <1>5 DEF Remember
  <2>2. TailOf(h, U)
    <3>1. h = <<>>
      BY <1>5 DEF EnoughOf
    <3>2. Len(h) = 0 /\ h \in Seq(U) /\ Counted(h, U, Len(h))
      BY <3>1 DEF Counted
    <3> QED
      BY <1>1, <1>2, <3>2 DEF TailOf
  <2>3. h = <<>> /\ Len(h) >= Lookback
    BY <1>2, <1>5 DEF EnoughOf
  <2> QED
    BY <2>1, <2>2, <2>3 DEF EnoughOf, U
<1>6. CASE Lookback # 0 /\ Len(g) > 2 * Lookback
  <2>1. Lookback \in 0 .. Len(g)
    BY <1>1, <1>2, <1>4, <1>6
  <2>2. TailOf(LastOf(g, Lookback), U) /\ Len(LastOf(g, Lookback)) = Lookback
    BY <1>1, <1>4, <2>1, TailIsCut
  <2>3. Remember(h, x) = LastOf(g, Lookback)
    BY <1>6 DEF Remember, Trimmed, g
  <2> QED
    BY <1>4, <1>6, <2>2, <2>3 DEF EnoughOf, U
<1>7. CASE Lookback # 0 /\ ~(Len(g) > 2 * Lookback)
  <2>1. Remember(h, x) = g
    BY <1>7 DEF Remember, Trimmed, g
  <2>2. Len(g) = Cardinality(U) \/ Len(g) >= Lookback
    BY <1>1, <1>2, <1>3, <1>4
  <2> QED
    BY <1>1, <1>7, <2>1, <2>2 DEF EnoughOf, U
<1> QED
  BY <1>5, <1>6, <1>7
-----------------------------------------------------------------------------
(* What the context keeps, by the bars K it has been told of: of each        *)
(* symbol its newest bars and its last print; of the section the last tick, *)
(* a row for whoever has printed, and the tick before; of a finished day its *)
(* last print.                                                             *)
EverySymbol ==
  /\ DOMAIN history = Universe /\ DOMAIN levels = Universe /\ DOMAIN day = Universe
  /\ DOMAIN profile = Universe /\ DOMAIN returns = Universe

HistoryIsTheTail(K) == \A s \in Universe : EnoughOf(history[s], TimesIn(K, s))

LevelsAreOfThePrint(K) ==
  \A s \in Universe :
    IF PrintsIn(K, s) = {} THEN levels[s] = NoLevels
    ELSE Largest(PrintsIn(K, s), levels[s].print) /\ levels[s].day \in Holding(levels[s].print)

TickIsTheLast(K) == IF TicksOf(K) = {} THEN tick = 0 ELSE Largest(TicksOf(K), tick)

PendingIsOfTheLevels(K) ==
  /\ DOMAIN pending = {s \in Universe : PrintsIn(K, s) # {}}
  /\ \A s \in DOMAIN pending :
       /\ pending[s].day = levels[s].day /\ pending[s].print = levels[s].print
       /\ day[s] = levels[s].day
       /\ \E m \in DOMAIN profile[s] :
            Largest(DOMAIN profile[s], m) /\ profile[s][m] = levels[s].print
  /\ \A s \in Universe \ DOMAIN pending : day[s] = 0 /\ profile[s] = Empty /\ returns[s] = Empty

ClosedIsOneTickBehind(K) ==
  IF \A t \in TicksOf(K) : t = tick THEN closed = NoSection
  ELSE /\ Largest(TicksOf(K) \ {tick}, closed.as_of)
       /\ DOMAIN closed.rows = {s \in Universe : PrintsBy(K, s, closed.as_of) # {}}
       /\ \A s \in DOMAIN closed.rows : Largest(PrintsBy(K, s, closed.as_of), closed.rows[s].print)

ProfileIsOfTheDay(K) ==
  \A s \in DOMAIN pending : \A m \in DOMAIN profile[s] :
    LET open == Sessions[day[s]].open
    IN /\ m \in Int /\ open + m \in TimesIn(K, s)
       /\ m <= Sessions[day[s]].close - open =>
            profile[s][m] = open + m /\ open + m \in PrintsOn(K, s, day[s])

ReturnsAreOfWholeDays(K) ==
  \A s \in Universe : \A d \in DOMAIN returns[s] :
    d \in Days /\ d < day[s] /\ Largest(PrintsOn(K, s, d), returns[s][d])

BetasPair(K) ==
  \A s \in DOMAIN pending : \A pair \in pending[s].beta :
    LET market == BenchmarkAt(s, pending[s].day)
    IN /\ pair.day \in Days /\ pair.day < pending[s].day
       /\ market \in DOMAIN pending /\ pair.day < day[market]
       /\ Largest(PrintsOn(K, s, pair.day), pair.own)
       /\ Largest(PrintsOn(K, market, pair.day), pair.market)

TrailingSpans(K) ==
  \A s \in DOMAIN pending :
    LET row == pending[s]
    IN row.ts = row.print /\ row.since # {} =>
         row.since = {row.print - Trailing} /\ row.print - Trailing \in PrintsOn(K, s, row.day)

SectionIsKept(K) ==
  IF WantSection = {} THEN tick = 0 /\ pending = Empty /\ closed = NoSection
  ELSE /\ TickIsTheLast(K) /\ PendingIsOfTheLevels(K) /\ ClosedIsOneTickBehind(K)
       /\ ProfileIsOfTheDay(K) /\ ReturnsAreOfWholeDays(K) /\ BetasPair(K) /\ TrailingSpans(K)

ContextKnows(K) ==
  EverySymbol /\ HistoryIsTheTail(K) /\ LevelsAreOfThePrint(K) /\ SectionIsKept(K)
-----------------------------------------------------------------------------
LEMMA HistoryGrows ==
  ASSUME NEW K, NEW bar, NEW W, Follows(K, bar, W), EverySymbol, HistoryIsTheTail(K),
         history' = [history EXCEPT ![bar.symbol] = Remember(@, bar.ts)]
  PROVE  HistoryIsTheTail(W)'
<1> SUFFICES ASSUME NEW s \in Universe PROVE EnoughOf(history'[s], TimesIn(W, s))
  BY DEF HistoryIsTheTail
<1>1. EnoughOf(history[s], TimesIn(K, s)) /\ DOMAIN history = Universe
  BY DEF HistoryIsTheTail, EverySymbol
<1>2. CASE s # bar.symbol
  <2>1. history'[s] = history[s] /\ TimesIn(W, s) = TimesIn(K, s)
    BY <1>1, <1>2, TimesGrow
  <2> QED
    BY <1>1, <2>1
<1>3. CASE s = bar.symbol
  <2>1. history'[s] = Remember(history[s], bar.ts)
    BY <1>1, <1>3
  <2>2. TimesIn(W, s) = TimesIn(K, s) \cup {bar.ts} /\ bar.ts \in Nat
    BY <1>3, TimesGrow
  <2>3. TimesIn(K, s) \in SUBSET Nat /\ IsFiniteSet(TimesIn(K, s))
    BY TimesAreDated DEF Follows
  <2>4. Behind(TimesIn(K, s), bar.ts)
    BY <1>3, TimesGrow DEF Behind
  <2>5. EnoughOf(Remember(history[s], bar.ts), TimesIn(K, s) \cup {bar.ts})
    BY <1>1, <2>2, <2>3, <2>4, HistoryRemembers
  <2> QED
    BY <2>1, <2>2, <2>5
<1> QED
  BY <1>2, <1>3

(* The levels of the bar's symbol once it is folded in: of the bar if it is *)
(* in a session, of the last print if not.                                 *)
LevelsAt(K, bar, l) ==
  IF PrintsIn(K, bar.symbol) = {} /\ Holding(bar.ts) = {} THEN l = NoLevels /\ levels[bar.symbol] = NoLevels
  ELSE /\ l # NoLevels /\ l.print \in Nat /\ l.print <= bar.ts /\ l.day \in Holding(l.print)
       /\ Holding(bar.ts) = {} => l = levels[bar.symbol]
       /\ Holding(bar.ts) # {} => l.print = bar.ts

LEMMA LevelsOfTheBar ==
  ASSUME NEW K, NEW bar, NEW W, Follows(K, bar, W), LevelsAreOfThePrint(K),
         NEW l, l = LevelsAfter(bar.symbol, bar.ts)
  PROVE  /\ LevelsAt(K, bar, l)
         /\ IF PrintsIn(W, bar.symbol) = {} THEN l = NoLevels
            ELSE Largest(PrintsIn(W, bar.symbol), l.print) /\ l.day \in Holding(l.print)
<1> DEFINE s == bar.symbol
           ts == bar.ts
<1>1. s \in Universe /\ ts \in Nat /\ ts >= 1
  BY TimesGrow
<1>2. PrintsIn(W, s) = PrintsIn(K, s) \cup PrintAt(ts)
  BY PrintsGrow
<1>3. \A t \in PrintsIn(K, s) : t \in Nat /\ t >= 1 /\ t < ts
  BY TimesGrow DEF PrintsIn
<1>4. CASE Holding(ts) # {}
  <2>1. l = [day |-> CHOOSE d \in Holding(ts) : TRUE, print |-> ts]
    BY <1>4 DEF LevelsAfter
  <2>2. l.day \in Holding(ts) /\ l.print = ts
    BY <1>4, <2>1
  <2>3. l # NoLevels
    BY <1>1, <2>2 DEF NoLevels
  <2>4. Largest(PrintsIn(W, s), ts)
    <3>1. ts \in PrintsIn(W, s)
      BY <1>2, <1>4 DEF PrintAt
    <3>2. \A t \in PrintsIn(W, s) : t <= ts
      BY <1>1, <1>2, <1>3 DEF PrintAt
    <3> QED
      BY <3>1, <3>2 DEF Largest
  <2>5. PrintsIn(W, s) # {}
    BY <1>2, <1>4 DEF PrintAt
  <2> QED
    BY <1>1, <1>4, <2>2, <2>3, <2>4, <2>5 DEF LevelsAt
<1>5. CASE Holding(ts) = {}
  <2>1. l = levels[s] /\ PrintsIn(W, s) = PrintsIn(K, s)
    BY <1>2, <1>5 DEF LevelsAfter, PrintAt
  <2>2. CASE PrintsIn(K, s) = {}
    <3>1. l = NoLevels
      BY <1>1, <2>1, <2>2 DEF LevelsAreOfThePrint
    <3> QED
      BY <1>5, <2>1, <2>2, <3>1 DEF LevelsAt
  <2>3. CASE PrintsIn(K, s) # {}
    <3>1. Largest(PrintsIn(K, s), l.print) /\ l.day \in Holding(l.print)
      BY <1>1, <2>1, <2>3 DEF LevelsAreOfThePrint
    <3>2. l.print \in Nat /\ l.print >= 1 /\ l.print < ts
      BY <1>3, <3>1 DEF Largest
    <3>3. l # NoLevels
      BY <3>2 DEF NoLevels
    <3>4. l.print <= ts
      BY <1>1, <3>2
    <3> QED
      BY <1>5, <2>1, <2>3, <3>1, <3>2, <3>3, <3>4 DEF LevelsAt
  <2> QED
    BY <2>2, <2>3
<1> QED
  BY <1>4, <1>5

LEMMA LevelsMove ==
  ASSUME NEW K, NEW bar, NEW W, Follows(K, bar, W), EverySymbol, LevelsAreOfThePrint(K),
         levels' = [levels EXCEPT ![bar.symbol] = LevelsAfter(bar.symbol, bar.ts)]
  PROVE  LevelsAreOfThePrint(W)'
<1> SUFFICES ASSUME NEW s \in Universe
             PROVE  IF PrintsIn(W, s) = {} THEN levels'[s] = NoLevels
                    ELSE Largest(PrintsIn(W, s), levels'[s].print) /\ levels'[s].day \in Holding(levels'[s].print)
  BY DEF LevelsAreOfThePrint
<1>1. DOMAIN levels = Universe
  BY DEF EverySymbol
<1>2. CASE s # bar.symbol
  <2>1. levels'[s] = levels[s] /\ PrintsIn(W, s) = PrintsIn(K, s)
    BY <1>1, <1>2, PrintsGrow
  <2> QED
    BY <2>1 DEF LevelsAreOfThePrint
<1>3. CASE s = bar.symbol
  <2>1. levels'[s] = LevelsAfter(bar.symbol, bar.ts)
    BY <1>1, <1>3
  <2> QED
    BY <1>3, <2>1, LevelsOfTheBar
<1> QED
  BY <1>2, <1>3
-----------------------------------------------------------------------------
(* A day a symbol has left gets no more prints of it.                       *)
LEMMA DaysLeftAreWhole ==
  ASSUME NEW K, NEW bar, NEW W, Follows(K, bar, W), LevelsAreOfThePrint(K), PendingIsOfTheLevels(K),
         NEW r \in DOMAIN pending
  PROVE  /\ r \in Universe /\ day[r] = levels[r].day /\ day[r] \in Nat /\ day[r] \in Days
         /\ Holding(levels[r].print) = {day[r]} /\ Largest(PrintsIn(K, r), levels[r].print)
         /\ levels[r].print \in Nat /\ levels[r].print <= bar.ts
         /\ r = bar.symbol => \A d \in Holding(bar.ts) : day[r] <= d
         /\ \A d \in Nat : d < day[r] => PrintsOn(W, r, d) = PrintsOn(K, r, d)
<1>1. r \in Universe /\ PrintsIn(K, r) # {} /\ day[r] = levels[r].day
  BY DEF PendingIsOfTheLevels
<1>2. Largest(PrintsIn(K, r), levels[r].print) /\ levels[r].day \in Holding(levels[r].print)
  BY <1>1 DEF LevelsAreOfThePrint
<1>3. levels[r].print \in Nat /\ levels[r].print <= bar.ts /\ bar.ts \in Nat
  BY <1>2, TimesGrow DEF Largest, PrintsIn
<1>4. day[r] \in Nat /\ day[r] \in Days /\ Holding(levels[r].print) = {day[r]}
  BY <1>1, <1>2, <1>3, OneSessionAtATime
<1>5. \A d \in Holding(bar.ts) : d \in Nat /\ day[r] <= d
  BY <1>3, <1>4, SessionsComeInOrder
<1>6. ASSUME NEW d \in Nat, d < day[r] PROVE PrintsOn(W, r, d) = PrintsOn(K, r, d)
  <2>1. CASE r # bar.symbol
    BY <2>1, PrintsGrow
  <2>2. CASE r = bar.symbol
    <3>1. Holding(bar.ts) # {d}
      BY <1>4, <1>5, <1>6
    <3>2. PrintOn(bar.ts, d) = {}
      BY <3>1 DEF PrintOn
    <3>3. PrintsOn(W, bar.symbol, d) = PrintsOn(K, bar.symbol, d) \cup PrintOn(bar.ts, d)
      BY PrintsGrow
    <3> QED
      BY <2>2, <3>2, <3>3
  <2> QED
    BY <2>1, <2>2
<1> QED
  BY <1>1, <1>2, <1>3, <1>4, <1>5, <1>6

(* A bar that meets no print of its symbol leaves the section alone.        *)
LEMMA SectionStays ==
  ASSUME NEW K, NEW bar, NEW W, Follows(K, bar, W), EverySymbol, LevelsAreOfThePrint(K), SectionIsKept(K),
         NEW l, l = LevelsAfter(bar.symbol, bar.ts), l = NoLevels \/ WantSection = {},
         levels' = [levels EXCEPT ![bar.symbol] = l],
         UNCHANGED <<tick, pending, closed, day, profile, returns>>
  PROVE  SectionIsKept(W)'
<1>1. CASE WantSection = {}
  BY <1>1 DEF SectionIsKept
<1>2. CASE l = NoLevels /\ WantSection # {}
  <2> DEFINE s == bar.symbol
  <2>1. PrintsIn(K, s) = {} /\ Holding(bar.ts) = {} /\ levels[s] = NoLevels
    BY <1>2, LevelsOfTheBar DEF LevelsAt
  <2>2. \A r : PrintsIn(W, r) = PrintsIn(K, r)
    <3>1. PrintAt(bar.ts) = {}
      BY <2>1 DEF PrintAt
    <3>2. PrintsIn(W, s) = PrintsIn(K, s) \cup PrintAt(bar.ts)
      BY PrintsGrow
    <3>3. PrintsIn(W, s) = PrintsIn(K, s)
      BY <3>1, <3>2
    <3>4. \A r : r # s => PrintsIn(W, r) = PrintsIn(K, r)
      BY PrintsGrow
    <3> HIDE DEF s
    <3> QED
      BY <3>3, <3>4
  <2>3. \A r, d : PrintsOn(W, r, d) = PrintsOn(K, r, d)
    <3>1. ASSUME NEW d PROVE PrintsOn(W, s, d) = PrintsOn(K, s, d)
      <4>1. PrintOn(bar.ts, d) = {}
        BY <2>1 DEF PrintOn
      <4>2. PrintsOn(W, s, d) = PrintsOn(K, s, d) \cup PrintOn(bar.ts, d)
        BY PrintsGrow
      <4> QED
        BY <4>1, <4>2
    <3>2. \A r : r # s => \A d : PrintsOn(W, r, d) = PrintsOn(K, r, d)
      BY PrintsGrow
    <3> HIDE DEF s
    <3> QED
      BY <3>1, <3>2
  <2>4. \A r, upto : PrintsBy(W, r, upto) = PrintsBy(K, r, upto)
    BY <2>2 DEF PrintsBy
  <2>5. TicksOf(W) = TicksOf(K)
    <3>1. PrintsIn(W, s) = {}
      BY <2>1, <2>2
    <3> QED
      BY <3>1, TicksGrow
  <2>6. \A r : \A t \in TimesIn(K, r) : t \in TimesIn(W, r)
    BY TimesGrow
  <2>7. \A r \in Universe : levels'[r] = levels[r]
    BY <1>2, <2>1 DEF EverySymbol
  <2>8. /\ TickIsTheLast(K) /\ PendingIsOfTheLevels(K) /\ ClosedIsOneTickBehind(K)
        /\ ProfileIsOfTheDay(K) /\ ReturnsAreOfWholeDays(K) /\ BetasPair(K) /\ TrailingSpans(K)
    BY <1>2 DEF SectionIsKept
  <2> HIDE DEF s
  <2>9. TickIsTheLast(W)'
    BY <2>5, <2>8 DEF TickIsTheLast
  <2>10. PendingIsOfTheLevels(W)'
    <3>1. DOMAIN pending \in SUBSET Universe
      BY <2>8 DEF PendingIsOfTheLevels
    <3> QED
      BY <2>2, <2>7, <2>8, <3>1 DEF PendingIsOfTheLevels
  <2>11. ClosedIsOneTickBehind(W)'
    BY <2>4, <2>5, <2>8 DEF ClosedIsOneTickBehind
  <2>12. ProfileIsOfTheDay(W)'
    BY <2>3, <2>6, <2>8 DEF ProfileIsOfTheDay
  <2>13. ReturnsAreOfWholeDays(W)'
    BY <2>3, <2>8 DEF ReturnsAreOfWholeDays
  <2>14. BetasPair(W)'
    BY <2>3, <2>8 DEF BetasPair
  <2>15. TrailingSpans(W)'
    BY <2>3, <2>8 DEF TrailingSpans
  <2> QED
    BY <1>2, <2>9, <2>10, <2>11, <2>12, <2>13, <2>14, <2>15 DEF SectionIsKept
<1> QED
  BY <1>1, <1>2
-----------------------------------------------------------------------------
(* A bar that is folded into the section, with its symbol's levels l.       *)
Folding(K, bar, W, l) ==
  /\ Follows(K, bar, W) /\ EverySymbol /\ LevelsAreOfThePrint(K)
  /\ WantSection # {} /\ SectionIsKept(K)
  /\ LevelsAt(K, bar, l) /\ l # NoLevels
  /\ levels' = [levels EXCEPT ![bar.symbol] = l]
  /\ Fold(bar.symbol, l, bar.ts)

FoldedProfile(bar, l) == Put(Profile(bar.symbol, l), MinuteOf(l, bar.ts), l.print)
FoldedRow(bar, l, beta) ==
  Row(bar.symbol, l, bar.ts, TrailingSince(FoldedProfile(bar, l), MinuteOf(l, bar.ts)), beta)

(* One symbol's entry becomes v, the others stay.                           *)
OneMoves(new, old, s, v) == new[s] = v /\ \A r \in Universe : r # s => new[r] = old[r]

LEMMA FoldMoves ==
  ASSUME NEW K, NEW bar, NEW W, NEW l, Folding(K, bar, W, l)
  PROVE  /\ tick' = bar.ts /\ closed' = CloseIfPast(bar.ts)
         /\ OneMoves(levels', levels, bar.symbol, l)
         /\ OneMoves(day', day, bar.symbol, l.day)
         /\ OneMoves(profile', profile, bar.symbol, FoldedProfile(bar, l))
         /\ OneMoves(returns', returns, bar.symbol, Rolled(bar.symbol, l))
         /\ DOMAIN pending' = DOMAIN pending \cup {bar.symbol}
         /\ \A r \in DOMAIN pending : r # bar.symbol => pending'[r] = pending[r]
<1> DEFINE s == bar.symbol
           ts == bar.ts
<1>1. s \in Universe /\ EverySymbol
  BY TimesGrow DEF Folding
<1>2. Fold(s, l, ts) /\ levels' = [levels EXCEPT ![s] = l]
  BY DEF Folding
<1>3. /\ tick' = ts /\ closed' = CloseIfPast(ts) /\ day' = [day EXCEPT ![s] = l.day]
      /\ profile' = [profile EXCEPT ![s] = Put(Profile(s, l), MinuteOf(l, ts), l.print)]
      /\ returns' = [returns EXCEPT ![s] = Rolled(s, l)]
  BY <1>2 DEF Fold
<1>4. DOMAIN pending' = DOMAIN pending \cup {s} /\ \A r \in DOMAIN pending : r # s => pending'[r] = pending[r]
  <2>1. PICK row : pending' = Put(pending, s, row)
    BY <1>2 DEF Fold
  <2> QED
    BY <2>1 DEF Put
<1>5. OneMoves(levels', levels, s, l) /\ OneMoves(day', day, s, l.day)
  BY <1>1, <1>2, <1>3 DEF EverySymbol, OneMoves
<1>6. OneMoves(profile', profile, s, FoldedProfile(bar, l))
  BY <1>1, <1>3 DEF EverySymbol, OneMoves, FoldedProfile
<1>7. OneMoves(returns', returns, s, Rolled(s, l))
  BY <1>1, <1>3 DEF EverySymbol, OneMoves
<1> QED
  BY <1>3, <1>4, <1>5, <1>6, <1>7

LEMMA FoldAddsTheRow ==
  ASSUME NEW K, NEW bar, NEW W, NEW l, Folding(K, bar, W, l)
  PROVE  \E beta :
           /\ pending'[bar.symbol] = FoldedRow(bar, l, beta)
           /\ beta # {} => /\ BenchmarkAt(bar.symbol, l.day) \in Universe
                           /\ beta = Beta(returns'[bar.symbol], returns'[BenchmarkAt(bar.symbol, l.day)])
<1> DEFINE s == bar.symbol
           ts == bar.ts
           market == BenchmarkAt(s, l.day)
           history_of == [returns EXCEPT ![s] = Rolled(s, l)]
           beta == IF market \notin Universe THEN {} ELSE Beta(history_of[s], history_of[market])
<1>1. Fold(s, l, ts)
  BY DEF Folding
<1>2. returns' = history_of
  BY <1>1 DEF Fold
<1>3. pending' = Put(pending, s, Row(s, l, ts, TrailingSince(Put(Profile(s, l), MinuteOf(l, ts), l.print), MinuteOf(l, ts)), beta))
  BY <1>1 DEF Fold
<1>4. pending'[s] = FoldedRow(bar, l, beta)
  BY <1>3 DEF Put, FoldedRow, FoldedProfile
<1>5. beta # {} => market \in Universe /\ beta = Beta(returns'[s], returns'[market])
  BY <1>2
<1> HIDE DEF beta
<1> QED
  BY <1>4, <1>5

(* The section before the bar, and what it says of the bar's symbol.        *)
LEMMA FoldingIsKnown ==
  ASSUME NEW K, NEW bar, NEW W, NEW l, Folding(K, bar, W, l)
  PROVE  /\ bar.symbol \in Universe /\ bar.ts \in Nat /\ bar.ts >= 1 /\ EverySymbol /\ LevelsAreOfThePrint(K)
         /\ TickIsTheLast(K) /\ PendingIsOfTheLevels(K) /\ ClosedIsOneTickBehind(K)
         /\ ProfileIsOfTheDay(K) /\ ReturnsAreOfWholeDays(K) /\ BetasPair(K) /\ TrailingSpans(K)
         /\ l.print \in Nat /\ l.print <= bar.ts /\ Holding(l.print) = {l.day} /\ l.day \in Nat /\ l.day \in Days
         /\ Sessions[l.day].open \in Nat /\ Sessions[l.day].close \in Nat
         /\ Sessions[l.day].open < bar.ts
         /\ Holding(bar.ts) = {} => l = levels[bar.symbol] /\ bar.ts > Sessions[l.day].close
         /\ Holding(bar.ts) # {} => l.print = bar.ts
         /\ PrintsIn(W, bar.symbol) # {}
<1> DEFINE s == bar.symbol
           ts == bar.ts
<1>1. s \in Universe /\ ts \in Nat /\ ts >= 1
  BY TimesGrow DEF Folding
<1>2. /\ EverySymbol /\ LevelsAreOfThePrint(K)
      /\ TickIsTheLast(K) /\ PendingIsOfTheLevels(K) /\ ClosedIsOneTickBehind(K)
      /\ ProfileIsOfTheDay(K) /\ ReturnsAreOfWholeDays(K) /\ BetasPair(K) /\ TrailingSpans(K)
  BY DEF Folding, SectionIsKept
<1>3. /\ l.print \in Nat /\ l.print <= ts /\ l.day \in Holding(l.print)
      /\ Holding(ts) = {} => l = levels[s]
      /\ Holding(ts) # {} => l.print = ts
      /\ ~(PrintsIn(K, s) = {} /\ Holding(ts) = {})
  BY DEF Folding, LevelsAt
<1>4. /\ Holding(l.print) = {l.day} /\ l.day \in Nat /\ l.day \in Days
      /\ Sessions[l.day].open \in Nat /\ Sessions[l.day].close \in Nat
      /\ Sessions[l.day].open < l.print
  BY <1>3, OneSessionAtATime
<1>5. Sessions[l.day].open < ts
  BY <1>1, <1>3, <1>4
<1>6. Holding(ts) = {} => ts > Sessions[l.day].close
  <2>1. ASSUME Holding(ts) = {} PROVE ~(ts <= Sessions[l.day].close)
    BY <1>4, <1>5, <2>1 DEF Holding
  <2> QED
    BY <1>1, <1>4, <2>1
<1>7. PrintsIn(W, s) # {}
  <2>1. PrintsIn(W, s) = PrintsIn(K, s) \cup PrintAt(ts)
    BY PrintsGrow DEF Folding
  <2> QED
    BY <1>3, <2>1 DEF PrintAt
<1> QED
  BY <1>1, <1>2, <1>3, <1>4, <1>5, <1>6, <1>7

LEMMA TickMoves ==
  ASSUME NEW K, NEW bar, NEW W, NEW l, Folding(K, bar, W, l)
  PROVE  /\ TicksOf(W) = TicksOf(K) \cup {bar.ts} /\ Largest(TicksOf(W), bar.ts) /\ TickIsTheLast(W)'
         /\ \A t \in TicksOf(K) : t \in Nat /\ t >= 1 /\ t <= bar.ts
<1>1. PrintsIn(W, bar.symbol) # {} /\ tick' = bar.ts /\ Follows(K, bar, W)
  BY FoldingIsKnown, FoldMoves DEF Folding
<1>2. TicksOf(W) = TicksOf(K) \cup {bar.ts} /\ \A t \in TicksOf(W) : t \in Nat /\ t >= 1 /\ t <= bar.ts
  BY <1>1, TicksGrow
<1>3. Largest(TicksOf(W), bar.ts)
  BY <1>2 DEF Largest
<1> QED
  BY <1>1, <1>2, <1>3 DEF TickIsTheLast
LEMMA ClosedMoves ==
  ASSUME NEW K, NEW bar, NEW W, NEW l, Folding(K, bar, W, l)
  PROVE  ClosedIsOneTickBehind(W)'
<1> DEFINE ts == bar.ts
<1>1. TicksOf(W) = TicksOf(K) \cup {ts} /\ \A t \in TicksOf(K) : t \in Nat /\ t >= 1 /\ t <= ts
  BY TickMoves
<1>2. /\ tick' = ts /\ closed' = CloseIfPast(ts) /\ ts \in Nat /\ ts >= 1
      /\ TickIsTheLast(K) /\ ClosedIsOneTickBehind(K) /\ PendingIsOfTheLevels(K) /\ LevelsAreOfThePrint(K)
  BY FoldMoves, FoldingIsKnown
<1>3. \A r : \A upto \in Nat : upto < ts => PrintsBy(W, r, upto) = PrintsBy(K, r, upto)
  BY PrintsGrow DEF Folding
<1>4. CASE TicksOf(K) = {}
  <2>1. tick = 0 /\ closed = NoSection
    BY <1>2, <1>4 DEF TickIsTheLast, ClosedIsOneTickBehind
  <2>2. closed' = NoSection /\ \A t \in TicksOf(W) : t = tick'
    BY <1>1, <1>2, <1>4, <2>1 DEF CloseIfPast
  <2> QED
    BY <2>2 DEF ClosedIsOneTickBehind
<1>5. CASE TicksOf(K) # {} /\ tick = ts
  <2>1. closed' = closed /\ tick' = tick /\ ~(ts > tick)
    BY <1>2, <1>5 DEF CloseIfPast
  <2>2. TicksOf(W) = TicksOf(K)
    BY <1>1, <1>2, <1>5 DEF TickIsTheLast, Largest
  <2>3. CASE \A t \in TicksOf(K) : t = tick
    BY <1>2, <2>1, <2>2, <2>3 DEF ClosedIsOneTickBehind
  <2>4. CASE ~(\A t \in TicksOf(K) : t = tick)
    <3>1. /\ Largest(TicksOf(K) \ {tick}, closed.as_of)
          /\ DOMAIN closed.rows = {s \in Universe : PrintsBy(K, s, closed.as_of) # {}}
          /\ \A s \in DOMAIN closed.rows : Largest(PrintsBy(K, s, closed.as_of), closed.rows[s].print)
      BY <1>2, <2>4 DEF ClosedIsOneTickBehind
    <3>2. closed.as_of \in Nat /\ closed.as_of < ts
      <4>1. closed.as_of \in TicksOf(K) /\ closed.as_of # ts
        BY <1>5, <3>1 DEF Largest
      <4>2. closed.as_of \in Nat /\ closed.as_of <= ts
        BY <1>1, <4>1
      <4> QED
        BY <1>2, <4>1, <4>2
    <3>3. \A r : PrintsBy(W, r, closed.as_of) = PrintsBy(K, r, closed.as_of)
      BY <1>3, <3>2
    <3> QED
      BY <2>1, <2>2, <2>4, <3>1, <3>3 DEF ClosedIsOneTickBehind
  <2> QED
    BY <2>3, <2>4
<1>6. CASE TicksOf(K) # {} /\ tick # ts
  <2>1. Largest(TicksOf(K), tick) /\ tick \in Nat /\ tick >= 1 /\ tick < ts
    <3>1. Largest(TicksOf(K), tick)
      BY <1>2, <1>6 DEF TickIsTheLast
    <3>2. tick \in Nat /\ tick >= 1 /\ tick <= ts
      BY <1>1, <3>1 DEF Largest
    <3> QED
      BY <1>2, <1>6, <3>1, <3>2
  <2>2. closed' = ClosedTick
    BY <1>2, <2>1 DEF CloseIfPast
  <2>3. TicksOf(W) \ {ts} = TicksOf(K)
    <3>1. ts \notin TicksOf(K)
      BY <1>2, <2>1 DEF Largest
    <3> QED
      BY <1>1, <3>1
  <2>4. closed'.as_of = tick /\ DOMAIN closed'.rows = DOMAIN pending
        /\ \A r \in DOMAIN pending : closed'.rows[r].print = pending[r].print
    BY <2>2 DEF ClosedTick
  <2>5. ASSUME NEW r PROVE PrintsBy(W, r, tick) = PrintsIn(K, r)
    <3>1. PrintsBy(W, r, tick) = PrintsBy(K, r, tick)
      BY <1>3, <2>1
    <3>2. \A t \in PrintsIn(K, r) : t <= tick
      <4>1. \A t \in PrintsIn(K, r) : t \in TicksOf(K)
        BY TicksGrow DEF Folding
      <4> QED
        BY <2>1, <4>1 DEF Largest
    <3> QED
      BY <3>1, <3>2 DEF PrintsBy
  <2>6. DOMAIN closed'.rows = {s \in Universe : PrintsBy(W, s, closed'.as_of) # {}}
    BY <1>2, <2>4, <2>5 DEF PendingIsOfTheLevels
  <2>7. ASSUME NEW s \in DOMAIN closed'.rows
        PROVE  Largest(PrintsBy(W, s, closed'.as_of), closed'.rows[s].print)
    <3>1. s \in DOMAIN pending /\ s \in Universe /\ PrintsIn(K, s) # {} /\ closed'.rows[s].print = levels[s].print
      BY <1>2, <2>4, <2>7 DEF PendingIsOfTheLevels
    <3>2. Largest(PrintsIn(K, s), levels[s].print)
      BY <1>2, <3>1 DEF LevelsAreOfThePrint
    <3> QED
      BY <2>4, <2>5, <3>1, <3>2
  <2>8. ~(\A t \in TicksOf(W) : t = tick') /\ Largest(TicksOf(W) \ {tick'}, closed'.as_of)
    <3>1. tick \in TicksOf(W) /\ tick # ts
      BY <1>1, <1>6, <2>1 DEF Largest
    <3> QED
      BY <1>2, <2>1, <2>3, <2>4, <3>1
  <2> QED
    BY <2>6, <2>7, <2>8 DEF ClosedIsOneTickBehind
<1> QED
  BY <1>4, <1>5, <1>6

LEMMA ProfileMoves ==
  ASSUME NEW K, NEW bar, NEW W, NEW l, Folding(K, bar, W, l)
  PROVE  /\ ProfileIsOfTheDay(W)'
         /\ Largest(DOMAIN FoldedProfile(bar, l), MinuteOf(l, bar.ts))
         /\ FoldedProfile(bar, l)[MinuteOf(l, bar.ts)] = l.print
<1> DEFINE s == bar.symbol
           ts == bar.ts
           open == Sessions[l.day].open
           close == Sessions[l.day].close
           minute == MinuteOf(l, ts)
<1>1. /\ s \in Universe /\ ts \in Nat /\ open \in Nat /\ close \in Nat /\ open < ts
      /\ Holding(ts) = {} => ts > close
      /\ Holding(ts) # {} => l.print = ts
      /\ Holding(l.print) = {l.day}
      /\ ProfileIsOfTheDay(K) /\ PendingIsOfTheLevels(K)
  BY FoldingIsKnown
<1>2. minute = ts - open /\ minute \in Int /\ open + minute = ts
  BY <1>1 DEF MinuteOf
<1>3. /\ \A r \in Universe : r # s => day'[r] = day[r] /\ profile'[r] = profile[r]
      /\ day'[s] = l.day /\ profile'[s] = FoldedProfile(bar, l)
      /\ DOMAIN pending' = DOMAIN pending \cup {s}
  <2>1. OneMoves(day', day, s, l.day)
    BY FoldMoves
  <2>2. OneMoves(profile', profile, s, FoldedProfile(bar, l))
    BY FoldMoves
  <2>3. DOMAIN pending' = DOMAIN pending \cup {s}
    BY FoldMoves
  <2> QED
    BY <2>1, <2>2, <2>3 DEF OneMoves
<1>4. /\ TimesIn(W, s) = TimesIn(K, s) \cup {ts} /\ \A r : \A t \in TimesIn(K, r) : t \in TimesIn(W, r)
      /\ \A t \in TimesIn(K, s) : t \in Nat /\ t < ts
  BY TimesGrow DEF Folding
<1>5. \A r, d : \A t \in PrintsOn(K, r, d) : t \in PrintsOn(W, r, d)
  BY <1>4 DEF PrintsOn
<1>6. FoldedProfile(bar, l) = [m \in DOMAIN Profile(s, l) \cup {minute} |-> IF m = minute THEN l.print ELSE Profile(s, l)[m]]
  BY DEF FoldedProfile, Put
<1>7. ASSUME NEW m \in DOMAIN Profile(s, l)
      PROVE  /\ m \in Int /\ open + m \in TimesIn(K, s) /\ m < minute
             /\ m <= close - open => Profile(s, l)[m] = open + m /\ open + m \in PrintsOn(K, s, l.day)
  <2>1. day[s] = l.day /\ Profile(s, l) = profile[s]
    BY <1>7 DEF Profile, Empty
  <2>2. s \in DOMAIN pending
    BY <1>1, <1>7, <2>1 DEF PendingIsOfTheLevels, Empty
  <2>3. /\ m \in Int /\ open + m \in TimesIn(K, s)
        /\ m <= close - open => profile[s][m] = open + m /\ open + m \in PrintsOn(K, s, l.day)
    BY <1>1, <1>7, <2>1, <2>2 DEF ProfileIsOfTheDay
  <2>4. open + m < ts
    BY <1>4, <2>3
  <2>5. m < minute
    BY <1>1, <1>2, <2>3, <2>4
  <2> QED
    BY <2>1, <2>3, <2>5
<1> HIDE DEF minute, open, close
<1>8. Largest(DOMAIN FoldedProfile(bar, l), minute) /\ FoldedProfile(bar, l)[minute] = l.print
  <2>1. DOMAIN FoldedProfile(bar, l) = DOMAIN Profile(s, l) \cup {minute}
    BY <1>6
  <2>2. \A m \in DOMAIN Profile(s, l) \cup {minute} : m <= minute
    BY <1>2, <1>7
  <2>3. Largest(DOMAIN FoldedProfile(bar, l), minute)
    BY <2>1, <2>2 DEF Largest
  <2> QED
    BY <1>6, <2>3
<1>9. ASSUME NEW r \in DOMAIN pending', NEW m \in DOMAIN profile'[r]
      PROVE  /\ m \in Int /\ Sessions[day'[r]].open + m \in TimesIn(W, r)
             /\ m <= Sessions[day'[r]].close - Sessions[day'[r]].open =>
                  /\ profile'[r][m] = Sessions[day'[r]].open + m
                  /\ Sessions[day'[r]].open + m \in PrintsOn(W, r, day'[r])
  <2>1. CASE r # s
    <3>1. r \in DOMAIN pending /\ r \in Universe
      BY <1>1, <1>3, <1>9, <2>1 DEF PendingIsOfTheLevels
    <3>2. day'[r] = day[r] /\ profile'[r] = profile[r]
      BY <1>3, <2>1, <3>1
    <3>3. /\ m \in Int /\ Sessions[day[r]].open + m \in TimesIn(K, r)
          /\ m <= Sessions[day[r]].close - Sessions[day[r]].open =>
               /\ profile[r][m] = Sessions[day[r]].open + m
               /\ Sessions[day[r]].open + m \in PrintsOn(K, r, day[r])
      BY <1>1, <1>9, <3>1, <3>2 DEF ProfileIsOfTheDay
    <3> QED
      BY <1>4, <1>5, <3>2, <3>3
  <2>2. CASE r = s /\ m # minute
    <3>1. m \in DOMAIN Profile(s, l) /\ profile'[s][m] = Profile(s, l)[m] /\ day'[s] = l.day
      BY <1>3, <1>6, <1>9, <2>2
    <3> QED
      BY <1>4, <1>5, <1>7, <2>2, <3>1 DEF open, close
  <2>3. CASE r = s /\ m = minute
    <3>1. profile'[s][m] = l.print /\ day'[s] = l.day
      BY <1>3, <1>8, <2>3
    <3>2. open + m = ts /\ m \in Int /\ open + m \in TimesIn(W, s)
      BY <1>2, <1>4, <2>3
    <3>3. ASSUME m <= close - open PROVE l.print = ts /\ ts \in PrintsOn(W, s, l.day)
      <4>1. ts <= close
        BY <1>1, <1>2, <2>3, <3>3 DEF open, close
      <4>2. Holding(ts) # {}
        BY <1>1, <4>1 DEF close
      <4> QED
        BY <1>1, <1>4, <4>2 DEF PrintsOn
    <3> QED
      BY <2>3, <3>1, <3>2, <3>3 DEF open, close
  <2> QED
    BY <2>1, <2>2, <2>3
<1> QED
  BY <1>8, <1>9 DEF ProfileIsOfTheDay, minute
LEMMA PendingMoves ==
  ASSUME NEW K, NEW bar, NEW W, NEW l, Folding(K, bar, W, l)
  PROVE  PendingIsOfTheLevels(W)'
<1> DEFINE s == bar.symbol
<1>1. s \in Universe /\ PendingIsOfTheLevels(K) /\ PrintsIn(W, s) # {}
  BY FoldingIsKnown
<1>2. /\ \A r \in Universe : r # s =>
           levels'[r] = levels[r] /\ day'[r] = day[r] /\ profile'[r] = profile[r] /\ returns'[r] = returns[r]
      /\ levels'[s] = l /\ day'[s] = l.day /\ profile'[s] = FoldedProfile(bar, l)
      /\ DOMAIN pending' = DOMAIN pending \cup {s}
      /\ \A r \in DOMAIN pending : r # s => pending'[r] = pending[r]
  <2>1. OneMoves(levels', levels, s, l)
    BY FoldMoves
  <2>2. OneMoves(day', day, s, l.day)
    BY FoldMoves
  <2>3. OneMoves(profile', profile, s, FoldedProfile(bar, l))
    BY FoldMoves
  <2>4. OneMoves(returns', returns, s, Rolled(s, l))
    BY FoldMoves
  <2>5. DOMAIN pending' = DOMAIN pending \cup {s} /\ \A r \in DOMAIN pending : r # s => pending'[r] = pending[r]
    BY FoldMoves
  <2> QED
    BY <2>1, <2>2, <2>3, <2>4, <2>5 DEF OneMoves
<1>3. \A r : r # s => PrintsIn(W, r) = PrintsIn(K, r)
  BY PrintsGrow DEF Folding
<1>4. pending'[s].day = l.day /\ pending'[s].print = l.print
  <2>1. PICK beta : pending'[s] = FoldedRow(bar, l, beta)
    BY FoldAddsTheRow
  <2> QED
    BY <2>1 DEF FoldedRow, Row
<1>5. \E m \in DOMAIN profile'[s] : Largest(DOMAIN profile'[s], m) /\ profile'[s][m] = l.print
  BY <1>2, ProfileMoves DEF Largest
<1>6. DOMAIN pending' = {r \in Universe : PrintsIn(W, r) # {}}
  BY <1>1, <1>2, <1>3 DEF PendingIsOfTheLevels
<1>7. ASSUME NEW r \in DOMAIN pending'
      PROVE  /\ pending'[r].day = levels'[r].day /\ pending'[r].print = levels'[r].print
             /\ day'[r] = levels'[r].day
             /\ \E m \in DOMAIN profile'[r] :
                  Largest(DOMAIN profile'[r], m) /\ profile'[r][m] = levels'[r].print
  <2>1. CASE r = s
    BY <1>2, <1>4, <1>5, <2>1
  <2>2. CASE r # s
    <3>1. r \in DOMAIN pending /\ r \in Universe
      BY <1>1, <1>2, <1>7, <2>2 DEF PendingIsOfTheLevels
    <3>2. levels'[r] = levels[r] /\ day'[r] = day[r] /\ profile'[r] = profile[r] /\ pending'[r] = pending[r]
      BY <1>2, <2>2, <3>1
    <3> QED
      BY <1>1, <3>1, <3>2 DEF PendingIsOfTheLevels
  <2> QED
    BY <2>1, <2>2
<1>8. ASSUME NEW r \in Universe \ DOMAIN pending'
      PROVE  day'[r] = 0 /\ profile'[r] = Empty /\ returns'[r] = Empty
  <2>1. r # s /\ r \in Universe \ DOMAIN pending
    BY <1>2
  <2>2. day'[r] = day[r] /\ profile'[r] = profile[r] /\ returns'[r] = returns[r]
    BY <1>2, <2>1
  <2> QED
    BY <1>1, <2>1, <2>2 DEF PendingIsOfTheLevels
<1> QED
  BY <1>6, <1>7, <1>8 DEF PendingIsOfTheLevels


(* The last print of all is the last of its own day.                        *)
LEMMA LastOfItsDay ==
  ASSUME NEW K, NEW s, NEW x, Largest(PrintsIn(K, s), x), NEW d, Holding(x) = {d}
  PROVE  Largest(PrintsOn(K, s, d), x)
BY DEF Largest, PrintsIn, PrintsOn

LEMMA ReturnsMove ==
  ASSUME NEW K, NEW bar, NEW W, NEW l, Folding(K, bar, W, l)
  PROVE  ReturnsAreOfWholeDays(W)'
<1> DEFINE s == bar.symbol
           ts == bar.ts
<1>1. /\ s \in Universe /\ PendingIsOfTheLevels(K) /\ ReturnsAreOfWholeDays(K) /\ LevelsAreOfThePrint(K)
      /\ ProfileIsOfTheDay(K) /\ ts \in Nat /\ l.day \in Nat /\ l.day \in Days
      /\ Holding(l.print) = {l.day}
      /\ Holding(ts) = {} => l = levels[s]
      /\ Holding(ts) # {} => l.print = ts
  BY FoldingIsKnown
<1>2. /\ \A r \in Universe : r # s => day'[r] = day[r] /\ returns'[r] = returns[r]
      /\ day'[s] = l.day /\ returns'[s] = Rolled(s, l)
  <2>1. OneMoves(day', day, s, l.day)
    BY FoldMoves
  <2>2. OneMoves(returns', returns, s, Rolled(s, l))
    BY FoldMoves
  <2> QED
    BY <2>1, <2>2 DEF OneMoves
<1>3. \A r : r # s => \A d : PrintsOn(W, r, d) = PrintsOn(K, r, d)
  BY PrintsGrow DEF Folding
<1>4. s \in DOMAIN pending =>
        /\ day[s] = levels[s].day /\ day[s] \in Nat /\ day[s] \in Days
        /\ Holding(levels[s].print) = {day[s]} /\ Largest(PrintsIn(K, s), levels[s].print)
        /\ \A d \in Holding(ts) : day[s] <= d
        /\ \A d \in Nat : d < day[s] => PrintsOn(W, s, d) = PrintsOn(K, s, d)
  BY <1>1, DaysLeftAreWhole DEF Folding
<1>5. s \in DOMAIN pending => day[s] <= l.day
  <2>1. CASE Holding(ts) = {}
    BY <1>1, <1>4, <2>1
  <2>2. CASE Holding(ts) # {}
    BY <1>1, <1>4, <2>2
  <2> QED
    BY <2>1, <2>2
<1>6. s \notin DOMAIN pending => day[s] = 0 /\ returns[s] = Empty
  BY <1>1 DEF PendingIsOfTheLevels
<1>7. \A d \in Days : d \in Nat
  BY ContextAssumption DEF Days
(* What it had returned for a day it had left stays so.                     *)
<1>8. ASSUME NEW d \in DOMAIN returns[s]
      PROVE  d \in Days /\ d < l.day /\ Largest(PrintsOn(W, s, d), returns[s][d])
  <2>1. d \in Days /\ d < day[s] /\ Largest(PrintsOn(K, s, d), returns[s][d])
    BY <1>1, <1>8 DEF ReturnsAreOfWholeDays
  <2>2. s \in DOMAIN pending
    BY <1>6, <1>8 DEF Empty
  <2>3. PrintsOn(W, s, d) = PrintsOn(K, s, d) /\ d < l.day
    BY <1>1, <1>4, <1>5, <1>7, <2>1, <2>2
  <2> QED
    BY <2>1, <2>3
<1>9. ASSUME NEW d \in DOMAIN Rolled(s, l)
      PROVE  d \in Days /\ d < l.day /\ Largest(PrintsOn(W, s, d), Rolled(s, l)[d])
  <2>1. CASE day[s] \in {0, l.day} \/ profile[s] = Empty
    <3>1. Rolled(s, l) = returns[s]
      BY <2>1 DEF Rolled
    <3> QED
      BY <1>8, <1>9, <3>1
  <2>2. CASE ~(day[s] \in {0, l.day} \/ profile[s] = Empty)
    <3> DEFINE longer == Put(returns[s], day[s], ReturnOf(profile[s]))
    <3>1. Rolled(s, l) = Keep(longer, Newest(DOMAIN longer, 2 * BetaMemory))
      BY <2>2 DEF Rolled
    <3>2. d \in DOMAIN longer /\ Rolled(s, l)[d] = longer[d]
      <4> HIDE DEF longer
      <4> QED
        BY <1>9, <3>1 DEF Keep, Newest
    <3>3. DOMAIN longer = DOMAIN returns[s] \cup {day[s]}
      BY DEF Put
    <3>4. s \in DOMAIN pending
      BY <1>6, <2>2
    <3>5. CASE d # day[s]
      <4>1. d \in DOMAIN returns[s] /\ longer[d] = returns[s][d]
        BY <3>2, <3>3, <3>5 DEF Put
      <4> QED
        BY <1>8, <3>2, <4>1
    <3>6. CASE d = day[s]
      <4>1. longer[d] = ReturnOf(profile[s])
        BY <3>6 DEF Put
      <4>2. PICK m \in DOMAIN profile[s] : Largest(DOMAIN profile[s], m) /\ profile[s][m] = levels[s].print
        BY <1>1, <3>4 DEF PendingIsOfTheLevels
      <4>3. DOMAIN profile[s] \in SUBSET Int
        BY <1>1, <3>4 DEF ProfileIsOfTheDay
      <4>4. Max(DOMAIN profile[s]) = m
        BY <4>2, <4>3, LargestIsOne
      <4>5. longer[d] = levels[s].print
        BY <4>1, <4>2, <4>4 DEF ReturnOf
      <4>6. Largest(PrintsOn(K, s, d), levels[s].print)
        BY <1>4, <3>4, <3>6, LastOfItsDay
      <4>7. d \in Days /\ d \in Nat /\ d < l.day
        BY <1>1, <1>4, <1>5, <2>2, <3>4, <3>6
      <4>8. PrintsOn(W, s, d) = PrintsOn(K, s, d)
        <5>1. Holding(ts) # {}
          BY <1>1, <1>4, <2>2, <3>4
        <5>2. Holding(ts) = {l.day} /\ l.day # d
          BY <1>1, <4>7, <5>1
        <5>3. PrintOn(ts, d) = {}
          BY <5>2 DEF PrintOn
        <5>4. PrintsOn(W, s, d) = PrintsOn(K, s, d) \cup PrintOn(ts, d)
          BY PrintsGrow DEF Folding
        <5> QED
          BY <5>3, <5>4
      <4> QED
        BY <3>2, <4>5, <4>6, <4>7, <4>8
    <3> QED
      BY <3>5, <3>6
  <2> QED
    BY <2>1, <2>2
<1>10. ASSUME NEW r \in Universe, NEW d \in DOMAIN returns'[r]
       PROVE  d \in Days /\ d < day'[r] /\ Largest(PrintsOn(W, r, d), returns'[r][d])
  <2>1. CASE r = s
    BY <1>2, <1>9, <1>10, <2>1
  <2>2. CASE r # s
    <3>1. day'[r] = day[r] /\ returns'[r] = returns[r] /\ PrintsOn(W, r, d) = PrintsOn(K, r, d)
      BY <1>2, <1>3, <2>2
    <3> QED
      BY <1>1, <1>10, <3>1 DEF ReturnsAreOfWholeDays
  <2> QED
    BY <2>1, <2>2
<1> QED
  BY <1>10 DEF ReturnsAreOfWholeDays

LEMMA BetasMove ==
  ASSUME NEW K, NEW bar, NEW W, NEW l, Folding(K, bar, W, l)
  PROVE  BetasPair(W)'
<1> DEFINE s == bar.symbol
<1>1. /\ s \in Universe /\ PendingIsOfTheLevels(K) /\ BetasPair(K) /\ LevelsAreOfThePrint(K)
      /\ bar.ts \in Nat /\ l.day \in Nat
      /\ Holding(l.print) = {l.day}
      /\ Holding(bar.ts) = {} => l = levels[s]
      /\ Holding(bar.ts) # {} => l.print = bar.ts
  BY FoldingIsKnown
<1>2. /\ \A r \in Universe : r # s => day'[r] = day[r]
      /\ day'[s] = l.day
      /\ DOMAIN pending' = DOMAIN pending \cup {s}
      /\ \A r \in DOMAIN pending : r # s => pending'[r] = pending[r]
  <2>1. OneMoves(day', day, s, l.day)
    BY FoldMoves
  <2>2. DOMAIN pending' = DOMAIN pending \cup {s} /\ \A r \in DOMAIN pending : r # s => pending'[r] = pending[r]
    BY FoldMoves
  <2> QED
    BY <2>1, <2>2 DEF OneMoves
<1>3. ReturnsAreOfWholeDays(W)' /\ PendingIsOfTheLevels(W)'
  BY ReturnsMove, PendingMoves
<1>4. \A r \in DOMAIN pending :
        /\ day[r] = levels[r].day /\ day[r] \in Nat
        /\ r = s => \A d \in Holding(bar.ts) : day[r] <= d
        /\ \A d \in Nat : d < day[r] => PrintsOn(W, r, d) = PrintsOn(K, r, d)
  BY <1>1, DaysLeftAreWhole DEF Folding
<1>5. \A d \in Days : d \in Nat
  BY ContextAssumption DEF Days
<1>6. ASSUME NEW r \in DOMAIN pending PROVE r \in Universe /\ day[r] <= day'[r] /\ day'[r] \in Nat
  <2>1. r \in Universe
    BY <1>1 DEF PendingIsOfTheLevels
  <2>2. CASE r # s
    BY <1>2, <1>4, <2>1, <2>2
  <2>3. CASE r = s
    <3>1. CASE Holding(bar.ts) = {}
      BY <1>1, <1>2, <1>4, <2>1, <2>3, <3>1
    <3>2. CASE Holding(bar.ts) # {}
      BY <1>1, <1>2, <1>4, <2>1, <2>3, <3>2
    <3> QED
      BY <3>1, <3>2
  <2> QED
    BY <2>2, <2>3
<1>7. ASSUME NEW r \in DOMAIN pending, r # s, NEW pair \in pending[r].beta, NEW market,
             market = BenchmarkAt(r, pending[r].day)
      PROVE  /\ pair.day \in Days /\ pair.day < pending[r].day
             /\ market \in DOMAIN pending' /\ pair.day < day'[market]
             /\ Largest(PrintsOn(W, r, pair.day), pair.own)
             /\ Largest(PrintsOn(W, market, pair.day), pair.market)
  <2>1. /\ pair.day \in Days /\ pair.day < pending[r].day
        /\ market \in DOMAIN pending /\ pair.day < day[market]
        /\ Largest(PrintsOn(K, r, pair.day), pair.own)
        /\ Largest(PrintsOn(K, market, pair.day), pair.market)
    BY <1>1, <1>7 DEF BetasPair
  <2>2. pair.day < day[r] /\ pair.day \in Nat
    BY <1>1, <1>5, <1>7, <2>1 DEF PendingIsOfTheLevels
  <2>3. PrintsOn(W, r, pair.day) = PrintsOn(K, r, pair.day)
    BY <1>4, <1>7, <2>2
  <2>4. PrintsOn(W, market, pair.day) = PrintsOn(K, market, pair.day)
    BY <1>4, <2>1, <2>2
  <2>5. pair.day < day'[market]
    <3>1. day[market] \in Nat /\ day[market] <= day'[market] /\ day'[market] \in Nat
      BY <1>4, <1>6, <2>1
    <3> QED
      BY <2>1, <2>2, <3>1
  <2> QED
    BY <1>2, <2>1, <2>3, <2>4, <2>5
<1>8. ASSUME NEW pair \in pending'[s].beta, NEW market, market = BenchmarkAt(s, l.day)
      PROVE  /\ pair.day \in Days /\ pair.day < l.day
             /\ market \in DOMAIN pending' /\ pair.day < day'[market]
             /\ Largest(PrintsOn(W, s, pair.day), pair.own)
             /\ Largest(PrintsOn(W, market, pair.day), pair.market)
  <2>1. market \in Universe /\ pair \in Beta(returns'[s], returns'[market])
    <3>1. PICK beta : /\ pending'[s] = FoldedRow(bar, l, beta)
                      /\ beta # {} => market \in Universe /\ beta = Beta(returns'[s], returns'[market])
      BY <1>8, FoldAddsTheRow
    <3>2. pair \in beta
      BY <1>8, <3>1 DEF FoldedRow, Row
    <3> QED
      BY <3>1, <3>2
  <2>2. /\ pair.day \in DOMAIN returns'[s] /\ pair.day \in DOMAIN returns'[market]
        /\ pair.own = returns'[s][pair.day] /\ pair.market = returns'[market][pair.day]
    <3> DEFINE own == returns'[s]
               theirs == returns'[market]
    <3>1. pair \in Beta(own, theirs)
      BY <2>1
    <3> HIDE DEF own, theirs
    <3>2. /\ pair.day \in DOMAIN own /\ pair.day \in DOMAIN theirs
          /\ pair.own = own[pair.day] /\ pair.market = theirs[pair.day]
      <4> DEFINE shared == Newest(DOMAIN own \cap DOMAIN theirs, BetaMemory)
      <4>1. pair \in {[day |-> d, own |-> own[d], market |-> theirs[d]] : d \in shared}
        BY <3>1 DEF Beta
      <4>2. \A d \in shared : d \in DOMAIN own /\ d \in DOMAIN theirs
        BY DEF Newest
      <4> HIDE DEF shared
      <4>3. PICK d \in shared : pair = [day |-> d, own |-> own[d], market |-> theirs[d]]
        BY <4>1
      <4> QED
        BY <4>2, <4>3
    <3> QED
      BY <3>2 DEF own, theirs
  <2>3. /\ pair.day \in Days /\ pair.day < day'[s] /\ Largest(PrintsOn(W, s, pair.day), pair.own)
        /\ pair.day < day'[market] /\ Largest(PrintsOn(W, market, pair.day), pair.market)
    BY <1>1, <1>3, <2>1, <2>2 DEF ReturnsAreOfWholeDays
  <2>4. market \in DOMAIN pending'
    <3>1. returns'[market] # Empty
      BY <2>2 DEF Empty
    <3> QED
      BY <1>3, <2>1, <3>1 DEF PendingIsOfTheLevels
  <2> QED
    BY <1>2, <2>3, <2>4
<1>9. pending'[s].day = l.day
  <2>1. PICK beta : pending'[s] = FoldedRow(bar, l, beta)
    BY FoldAddsTheRow
  <2> QED
    BY <2>1 DEF FoldedRow, Row
<1>10. ASSUME NEW r \in DOMAIN pending', NEW pair \in pending'[r].beta, NEW market,
              market = BenchmarkAt(r, pending'[r].day)
       PROVE  /\ pair.day \in Days /\ pair.day < pending'[r].day
              /\ market \in DOMAIN pending' /\ pair.day < day'[market]
              /\ Largest(PrintsOn(W, r, pair.day), pair.own)
              /\ Largest(PrintsOn(W, market, pair.day), pair.market)
  <2>1. CASE r = s
    BY <1>8, <1>9, <1>10, <2>1
  <2>2. CASE r # s
    <3>1. r \in DOMAIN pending /\ pending'[r] = pending[r]
      BY <1>2, <1>10, <2>2
    <3> QED
      BY <1>7, <1>10, <2>2, <3>1
  <2> QED
    BY <2>1, <2>2
<1> QED
  BY <1>10 DEF BetasPair, BenchmarkAt

LEMMA TrailingMoves ==
  ASSUME NEW K, NEW bar, NEW W, NEW l, Folding(K, bar, W, l)
  PROVE  TrailingSpans(W)'
<1> DEFINE s == bar.symbol
           ts == bar.ts
           open == Sessions[l.day].open
           close == Sessions[l.day].close
           minute == MinuteOf(l, ts)
           prints == FoldedProfile(bar, l)
<1>1. /\ s \in Universe /\ ts \in Nat /\ open \in Nat /\ close \in Nat
      /\ l.print \in Nat /\ Holding(l.print) = {l.day} /\ TrailingSpans(K)
  BY FoldingIsKnown
<1>2. /\ day'[s] = l.day /\ profile'[s] = prints
      /\ DOMAIN pending' = DOMAIN pending \cup {s}
      /\ \A r \in DOMAIN pending : r # s => pending'[r] = pending[r]
  <2>1. OneMoves(day', day, s, l.day)
    BY FoldMoves
  <2>2. OneMoves(profile', profile, s, FoldedProfile(bar, l))
    BY FoldMoves
  <2>3. DOMAIN pending' = DOMAIN pending \cup {s} /\ \A r \in DOMAIN pending : r # s => pending'[r] = pending[r]
    BY FoldMoves
  <2> QED
    BY <2>1, <2>2, <2>3 DEF OneMoves
<1>3. ProfileIsOfTheDay(W)'
  BY ProfileMoves
<1>4. \A r, d : \A t \in PrintsOn(K, r, d) : t \in PrintsOn(W, r, d)
  BY TimesGrow DEF PrintsOn, Folding
<1>5. /\ pending'[s].ts = ts /\ pending'[s].print = l.print /\ pending'[s].day = l.day
      /\ pending'[s].since = TrailingSince(prints, minute)
  <2>1. PICK beta : pending'[s] = FoldedRow(bar, l, beta)
    BY FoldAddsTheRow
  <2> QED
    BY <2>1 DEF FoldedRow, Row
<1>6. minute = ts - open /\ Trailing \in Nat /\ Trailing > 0
  BY ContextAssumption DEF MinuteOf
<1>7. ASSUME ts = l.print, pending'[s].since # {}
      PROVE  pending'[s].since = {ts - Trailing} /\ ts - Trailing \in PrintsOn(W, s, l.day)
  <2>1. ts <= close
    BY <1>1, <1>7 DEF Holding
  <2> HIDE DEF minute, prints, open, close
  <2>2. minute - Trailing \in DOMAIN prints /\ pending'[s].since = {prints[minute - Trailing]}
    BY <1>5, <1>7 DEF TrailingSince
  <2>3. s \in DOMAIN pending' /\ minute - Trailing <= close - open
    BY <1>1, <1>2, <1>6, <2>1
  <2>4. /\ prints[minute - Trailing] = open + (minute - Trailing)
        /\ open + (minute - Trailing) \in PrintsOn(W, s, l.day)
    BY <1>2, <1>3, <2>2, <2>3 DEF ProfileIsOfTheDay, open, close
  <2>5. open + (minute - Trailing) = ts - Trailing
    BY <1>1, <1>6
  <2> QED
    BY <2>2, <2>4, <2>5
<1>8. ASSUME NEW r \in DOMAIN pending', pending'[r].ts = pending'[r].print, pending'[r].since # {}
      PROVE  /\ pending'[r].since = {pending'[r].print - Trailing}
             /\ pending'[r].print - Trailing \in PrintsOn(W, r, pending'[r].day)
  <2>1. CASE r = s
    BY <1>5, <1>7, <1>8, <2>1
  <2>2. CASE r # s
    <3>1. r \in DOMAIN pending /\ pending'[r] = pending[r]
      BY <1>2, <1>8, <2>2
    <3> QED
      BY <1>1, <1>4, <1>8, <3>1 DEF TrailingSpans
  <2> QED
    BY <2>1, <2>2
<1> QED
  BY <1>8 DEF TrailingSpans
LEMMA ContextGrows ==
  ASSUME NEW K, NEW bar, NEW W, Follows(K, bar, W), ContextKnows(K), Observe(bar), ~AlreadyObserved(bar)
  PROVE  ContextKnows(W)' /\ key' = <<bar.symbol, bar.ts>>
<1> DEFINE s == bar.symbol
           l == LevelsAfter(s, bar.ts)
<1>1. EverySymbol /\ HistoryIsTheTail(K) /\ LevelsAreOfThePrint(K) /\ SectionIsKept(K)
  BY DEF ContextKnows
<1>2. /\ key' = <<s, bar.ts>>
      /\ history' = [history EXCEPT ![s] = Remember(@, bar.ts)]
      /\ levels' = [levels EXCEPT ![s] = l]
      /\ IF l = NoLevels \/ WantSection = {}
           THEN UNCHANGED <<tick, pending, closed, day, profile, returns>>
           ELSE Fold(s, l, bar.ts)
  BY DEF Observe
<1>3. LevelsAt(K, bar, l)
  BY <1>1, LevelsOfTheBar
<1>4. HistoryIsTheTail(W)'
  BY <1>1, <1>2, HistoryGrows
<1>5. LevelsAreOfThePrint(W)'
  BY <1>1, <1>2, LevelsMove
<1> HIDE DEF l
<1>6. SectionIsKept(W)' /\ DOMAIN day' = Universe /\ DOMAIN profile' = Universe /\ DOMAIN returns' = Universe
  <2>1. CASE l = NoLevels \/ WantSection = {}
    <3>1. UNCHANGED <<tick, pending, closed, day, profile, returns>>
      BY <1>2, <2>1
    <3>2. SectionIsKept(W)'
      BY <1>1, <1>2, <2>1, <3>1, SectionStays DEF l
    <3> QED
      BY <1>1, <3>1, <3>2 DEF EverySymbol
  <2>2. CASE ~(l = NoLevels \/ WantSection = {})
    <3>1. Fold(s, l, bar.ts)
      BY <1>2, <2>2
    <3>2. Folding(K, bar, W, l)
      BY <1>1, <1>2, <1>3, <2>2, <3>1 DEF Folding
    <3>3. TickIsTheLast(W)' /\ PendingIsOfTheLevels(W)'
      BY <3>2, TickMoves, PendingMoves
    <3>4. ClosedIsOneTickBehind(W)' /\ ProfileIsOfTheDay(W)'
      BY <3>2, ClosedMoves, ProfileMoves
    <3>5. ReturnsAreOfWholeDays(W)' /\ BetasPair(W)' /\ TrailingSpans(W)'
      BY <3>2, ReturnsMove, BetasMove, TrailingMoves
    <3>6. SectionIsKept(W)'
      BY <2>2, <3>3, <3>4, <3>5 DEF SectionIsKept
    <3>7. day' = [day EXCEPT ![s] = l.day] /\ DOMAIN returns' = DOMAIN returns /\ DOMAIN profile' = DOMAIN profile
      BY <3>1 DEF Fold
    <3> QED
      BY <1>1, <3>6, <3>7 DEF EverySymbol
  <2> QED
    BY <2>1, <2>2
<1>7. EverySymbol'
  BY <1>1, <1>2, <1>6 DEF EverySymbol
<1> QED
  BY <1>2, <1>4, <1>5, <1>6, <1>7 DEF ContextKnows

(* What the section says still holds when the next bar has come, though it  *)
(* has not been told of it.                                                *)
LEMMA SectionOutlivesABar ==
  ASSUME NEW K, NEW bar, NEW W, Follows(K, bar, W), LevelsAreOfThePrint(K), SectionIsKept(K)
  PROVE  BetasPair(W) /\ TrailingSpans(W)
<1>1. CASE WantSection = {}
  <2>1. DOMAIN pending = {}
    BY <1>1 DEF SectionIsKept, Empty
  <2> QED
    BY <2>1 DEF BetasPair, TrailingSpans
<1>2. CASE WantSection # {}
  <2>1. PendingIsOfTheLevels(K) /\ BetasPair(K) /\ TrailingSpans(K)
    BY <1>2 DEF SectionIsKept
  <2>2. \A r \in DOMAIN pending : \A d \in Nat : d < day[r] => PrintsOn(W, r, d) = PrintsOn(K, r, d)
    BY <2>1, DaysLeftAreWhole
  <2>3. \A r, d : \A t \in PrintsOn(K, r, d) : t \in PrintsOn(W, r, d)
    BY TimesGrow DEF PrintsOn
  <2>4. TrailingSpans(W)
    BY <2>1, <2>3 DEF TrailingSpans
  <2>5. ASSUME NEW r \in DOMAIN pending, NEW pair \in pending[r].beta, NEW market,
               market = BenchmarkAt(r, pending[r].day)
        PROVE  /\ pair.day \in Days /\ pair.day < pending[r].day
               /\ market \in DOMAIN pending /\ pair.day < day[market]
               /\ Largest(PrintsOn(W, r, pair.day), pair.own)
               /\ Largest(PrintsOn(W, market, pair.day), pair.market)
    <3>1. /\ pair.day \in Days /\ pair.day < pending[r].day
          /\ market \in DOMAIN pending /\ pair.day < day[market]
          /\ Largest(PrintsOn(K, r, pair.day), pair.own)
          /\ Largest(PrintsOn(K, market, pair.day), pair.market)
      BY <2>1, <2>5 DEF BetasPair
    <3>2. pair.day \in Nat /\ pair.day < day[r]
      BY <2>1, <3>1, ContextAssumption DEF Days, PendingIsOfTheLevels
    <3>3. PrintsOn(W, r, pair.day) = PrintsOn(K, r, pair.day)
      BY <2>2, <2>5, <3>2
    <3>4. PrintsOn(W, market, pair.day) = PrintsOn(K, market, pair.day)
      BY <2>2, <3>1, <3>2
    <3> QED
      BY <3>1, <3>3, <3>4
  <2>6. BetasPair(W)
    BY <2>5 DEF BetasPair
  <2> QED
    BY <2>4, <2>6
<1> QED
  BY <1>1, <1>2
-----------------------------------------------------------------------------
(* What a view says of the bars K it was assembled from.                    *)
Upwards(times, upto) == {t \in times : t <= upto}
SeesTheTail(window, times, n) ==
  IF Cardinality(times) < n THEN window = <<>>
  ELSE /\ Range(window) = Newest(times, n)
       /\ \A i \in 2 .. Len(window) : window[i - 1] < window[i]
FeaturesOf(view, K) ==
  \A n \in Lookbacks : SeesTheTail(view.windows[n], Upwards(TimesIn(K, view.symbol), view.as_of), n)

Earlier(view, K) == {t \in TicksOf(K) : t < view.as_of}
SectionBehind(view, K) ==
  view.section # NoSection =>
    /\ view.section.as_of \in Earlier(view, K)
    /\ view.levels # NoLevels => view.section.as_of = Max(Earlier(view, K))
    /\ DOMAIN view.section.rows = {s \in Universe : PrintsBy(K, s, view.section.as_of) # {}}
    /\ \A s \in DOMAIN view.section.rows :
         view.section.rows[s].print = Max(PrintsBy(K, s, view.section.as_of))

(* A window of a history that has enough is of the newest there are. *)
LEMMA WindowIsTheNewest ==
  ASSUME NEW T \in SUBSET Nat, IsFiniteSet(T), NEW h, EnoughOf(h, T), NEW n \in Lookbacks
  PROVE  SeesTheTail(Window(h, n), T, n)
<1>1. Lookback \in Nat /\ n \in Nat /\ n <= Lookback
  BY LookbackIsEnough
<1>2. TailOf(h, T) /\ (Len(h) = Cardinality(T) \/ Len(h) >= Lookback)
  BY DEF EnoughOf
<1>3. Len(h) \in Nat /\ Len(h) <= Cardinality(T) /\ Cardinality(T) \in Nat
  BY <1>2, FS_CardinalityType DEF TailOf
<1>4. CASE Cardinality(T) < n
  <2>1. Len(h) < n
    BY <1>1, <1>3, <1>4
  <2> QED
    BY <1>4, <2>1 DEF SeesTheTail, Window
<1>5. CASE ~(Cardinality(T) < n)
  <2>1. ~(Len(h) < n) /\ n \in 0 .. Len(h)
    BY <1>1, <1>2, <1>3, <1>5
  <2>2. T \in SUBSET Int
    OBVIOUS
  <2>3. TailOf(LastOf(h, n), T) /\ Len(LastOf(h, n)) = n
    BY <1>2, <2>1, <2>2, TailIsCut
  <2>4. Window(h, n) = LastOf(h, n)
    BY <2>1 DEF Window
  <2>5. Range(LastOf(h, n)) = Newest(T, n)
    BY <2>2, <2>3, TailIsTheNewest
  <2>6. \A i \in 2 .. Len(LastOf(h, n)) : LastOf(h, n)[i - 1] < LastOf(h, n)[i]
    BY <2>2, <2>3, TailIsTheNewest
  <2> QED
    BY <1>5, <2>4, <2>5, <2>6 DEF SeesTheTail
<1> QED
  BY <1>4, <1>5

(* bar is the last of the bars K. *)
IsTheLast(bar, K) == bar \in K /\ \A b \in K : b.ts <= bar.ts

LEMMA ViewIsOfThePast ==
  ASSUME NEW K, K \in SUBSET Bars, ContextKnows(K), NEW bar, IsTheLast(bar, K),
         NEW wants \in BOOLEAN, NEW view, view = View(bar, wants)
  PROVE  FeaturesOf(view, K) /\ SectionBehind(view, K)
<1>1. /\ view.symbol = bar.symbol /\ view.as_of = bar.ts /\ view.levels = levels[bar.symbol]
      /\ \A n \in Lookbacks : view.windows[n] = Window(history[bar.symbol], n)
      /\ view.section \in {closed, NoSection}
  BY DEF View, SectionOf
<1>2. /\ bar \in Bars /\ bar.ts \in Nat /\ bar.symbol \in Universe
      /\ \A b \in K : b.ts \in Nat /\ b.ts <= bar.ts
  BY BarsAreDated DEF IsTheLast
<1>3. EverySymbol /\ HistoryIsTheTail(K) /\ LevelsAreOfThePrint(K) /\ SectionIsKept(K)
  BY DEF ContextKnows
<1> DEFINE T == TimesIn(K, bar.symbol)
<1>4. T \in SUBSET Nat /\ \A t \in T : t <= bar.ts
  BY <1>2 DEF TimesIn
<1>5. FeaturesOf(view, K)
  <2>1. IsFiniteSet(T)
    <3>1. bar.ts \in Nat /\ 0 \in Nat
      BY <1>2
    <3>2. T \in SUBSET (0 .. bar.ts)
      BY <1>2, <1>4
    <3>3. IsFiniteSet(0 .. bar.ts)
      BY <3>1, FS_Interval
    <3> QED
      BY <3>2, <3>3, FS_Subset
  <2>2. Upwards(T, bar.ts) = T
    BY <1>4 DEF Upwards
  <2>3. EnoughOf(history[bar.symbol], T)
    BY <1>2, <1>3 DEF HistoryIsTheTail
  <2> HIDE DEF T
  <2>4. ASSUME NEW n \in Lookbacks PROVE SeesTheTail(Window(history[bar.symbol], n), T, n)
    BY <1>4, <2>1, <2>3, WindowIsTheNewest
  <2> QED
    BY <1>1, <2>2, <2>4 DEF FeaturesOf, T
<1>6. ASSUME view.section # NoSection PROVE SectionBehind(view, K)
  <2>1. view.section = closed /\ closed # NoSection
    BY <1>1, <1>6
  <2>2. TickIsTheLast(K) /\ ClosedIsOneTickBehind(K)
    BY <1>3, <2>1 DEF SectionIsKept
  <2>3. /\ Largest(TicksOf(K) \ {tick}, closed.as_of)
        /\ DOMAIN closed.rows = {s \in Universe : PrintsBy(K, s, closed.as_of) # {}}
        /\ \A s \in DOMAIN closed.rows : Largest(PrintsBy(K, s, closed.as_of), closed.rows[s].print)
    BY <2>1, <2>2 DEF ClosedIsOneTickBehind
  <2>4. closed.as_of \in TicksOf(K) /\ closed.as_of # tick
    BY <2>3 DEF Largest
  <2>5. Largest(TicksOf(K), tick)
    BY <2>2, <2>4 DEF TickIsTheLast
  <2>6. \A t \in TicksOf(K) : t \in Nat /\ t <= bar.ts
    BY <1>2 DEF TicksOf
  <2>7. tick \in Nat /\ tick <= bar.ts /\ closed.as_of \in Nat /\ closed.as_of < tick
    BY <2>4, <2>5, <2>6 DEF Largest
  <2>8. closed.as_of \in Earlier(view, K)
    BY <1>1, <1>2, <2>4, <2>7 DEF Earlier
  <2>9. ASSUME levels[bar.symbol] # NoLevels PROVE closed.as_of = Max(Earlier(view, K))
    <3>1. PrintsIn(K, bar.symbol) # {}
      BY <1>2, <1>3, <2>9 DEF LevelsAreOfThePrint
    <3>2. PrintsBy(K, bar.symbol, bar.ts) # {}
      BY <1>4, <3>1 DEF PrintsBy, PrintsIn
    <3>3. bar.ts \in TicksOf(K)
      BY <3>2 DEF TicksOf, IsTheLast
    <3>4. tick = bar.ts
      BY <1>2, <2>5, <2>7, <3>3 DEF Largest
    <3>5. Earlier(view, K) = TicksOf(K) \ {tick}
      BY <1>1, <1>2, <2>6, <3>4 DEF Earlier
    <3>6. Earlier(view, K) \in SUBSET Int
      BY <2>6 DEF Earlier
    <3>7. Largest(Earlier(view, K), closed.as_of)
      BY <2>3, <3>5
    <3> QED
      BY <3>6, <3>7, LargestIsOne
  <2>10. ASSUME NEW s \in DOMAIN closed.rows
         PROVE  closed.rows[s].print = Max(PrintsBy(K, s, closed.as_of))
    <3>1. Largest(PrintsBy(K, s, closed.as_of), closed.rows[s].print)
      BY <2>3
    <3>2. PrintsBy(K, s, closed.as_of) \in SUBSET Int
      BY <1>2 DEF PrintsBy, PrintsIn, TimesIn
    <3> QED
      BY <3>1, <3>2, LargestIsOne
  <2> HIDE DEF NoLevels
  <2> QED
    BY <1>1, <2>1, <2>3, <2>8, <2>9, <2>10 DEF SectionBehind
<1> QED
  BY <1>5, <1>6 DEF SectionBehind
-----------------------------------------------------------------------------
(* The bars read, and of them the ones the context has been told: the last  *)
(* one that was driven may still be on its way to it.                      *)
Seen == {seen[i] : i \in 1 .. Len(seen)}
Observed == IF calls # <<>> /\ 3 \in Left THEN Len(seen) - 1 ELSE Len(seen)
Known == {seen[i] : i \in 1 .. Observed}

SeenAreBars == \A i \in DOMAIN seen : seen[i] \in Bars
SeenInOrder == \A i, j \in DOMAIN seen : i < j => seen[i] = seen[j] \/ Precedes(seen[i], seen[j])
KeyIsOfTheLast == key = IF Observed = 0 THEN <<>> ELSE <<seen[Observed].symbol, seen[Observed].ts>>
ContextIsTold == \A K \in {Known} : ContextKnows(K)
ShownWhileHandled == shown # NoView => calls # <<>> /\ 3 \notin Left
ShownIsPast == \A view \in {shown} : \A K \in {Seen} :
  view # NoView => FeaturesOf(view, K) /\ SectionBehind(view, K)

ViewInv ==
  /\ SeenAreBars /\ SeenInOrder /\ KeyIsOfTheLast
  /\ ContextIsTold /\ ShownWhileHandled /\ ShownIsPast

(* The corpus read so far, in the terms of what is shown of it. *)
LEMMA SeenIsTheCorpus ==
  ASSUME Logs(seen), SeenAreBars, NEW K, K = Seen
  PROVE  /\ \A s, u : Times(s, u) = Upwards(TimesIn(K, s), u)
         /\ \A s, u : Prints(s, u) = PrintsBy(K, s, u)
         /\ \A s, d : PrintsOfDay(s, d) = PrintsOn(K, s, d)
         /\ FoldedTicks = TicksOf(K)
<1>0. DOMAIN seen = 1 .. Len(seen) /\ \A b \in K : b \in Bars
  BY DEF Logs, SeenAreBars, Seen
<1>1. ASSUME NEW s, NEW u PROVE Times(s, u) = Upwards(TimesIn(K, s), u)
  <2>1. ASSUME NEW t \in Times(s, u) PROVE t \in Upwards(TimesIn(K, s), u)
    <3>1. PICK i \in DOMAIN seen : seen[i].symbol = s /\ seen[i].ts <= u /\ t = seen[i].ts
      BY <2>1 DEF Times
    <3>2. seen[i] \in K
      BY <1>0 DEF Seen
    <3> QED
      BY <3>1, <3>2 DEF Upwards, TimesIn
  <2>2. ASSUME NEW t \in Upwards(TimesIn(K, s), u) PROVE t \in Times(s, u)
    <3>1. PICK b \in K : b.symbol = s /\ b.ts = t /\ t <= u
      BY <2>2 DEF Upwards, TimesIn
    <3>2. PICK i \in DOMAIN seen : seen[i] = b
      BY <1>0 DEF Seen
    <3> QED
      BY <3>1, <3>2 DEF Times
  <2> QED
    BY <2>1, <2>2
<1>2. \A s : Times(s, End) = TimesIn(K, s)
  <2>1. ASSUME NEW s PROVE Upwards(TimesIn(K, s), End) = TimesIn(K, s)
    <3>1. \A t \in TimesIn(K, s) : t <= End
      BY <1>0, BarsAreDated, SpanAssumption DEF TimesIn
    <3> QED
      BY <3>1 DEF Upwards
  <2> QED
    BY <1>1, <2>1
<1>3. ASSUME NEW s, NEW u PROVE Prints(s, u) = PrintsBy(K, s, u)
  BY <1>1 DEF Prints, PrintsBy, PrintsIn, Upwards
<1>4. ASSUME NEW s, NEW d PROVE PrintsOfDay(s, d) = PrintsOn(K, s, d)
  BY <1>2 DEF PrintsOfDay, PrintsOn
<1>5. FoldedTicks = TicksOf(K)
  <2>1. ASSUME NEW t \in FoldedTicks PROVE t \in TicksOf(K)
    <3>1. PICK s \in Universe : t \in {ts \in Times(s, End) : Prints(s, ts) # {}}
      BY <2>1 DEF FoldedTicks
    <3>2. t \in TimesIn(K, s) /\ PrintsBy(K, s, t) # {}
      BY <1>2, <1>3, <3>1
    <3>3. PICK b \in K : b.symbol = s /\ b.ts = t
      BY <3>2 DEF TimesIn
    <3> QED
      BY <3>2, <3>3 DEF TicksOf
  <2>2. ASSUME NEW t \in TicksOf(K) PROVE t \in FoldedTicks
    <3>1. PICK b \in K : b.ts = t /\ PrintsBy(K, b.symbol, b.ts) # {}
      BY <2>2 DEF TicksOf
    <3>2. b.symbol \in Universe /\ t \in TimesIn(K, b.symbol)
      BY <1>0, <3>1, BarsAreDated DEF TimesIn
    <3>3. t \in Times(b.symbol, End) /\ Prints(b.symbol, t) # {}
      BY <1>2, <1>3, <3>1, <3>2
    <3> QED
      BY <3>2, <3>3 DEF FoldedTicks
  <2> QED
    BY <2>1, <2>2
<1> QED
  BY <1>1, <1>3, <1>4, <1>5

(* Where the view that is shown is of the past, what it says is of the log. *)
LEMMA ShownIsSeen ==
  ASSUME Logs(seen), SeenAreBars, ShownIsPast
  PROVE  FeaturesSeeTheTail /\ SectionIsOneTickBehind
<1> DEFINE K == Seen
<1>1. /\ \A s, u : Times(s, u) = Upwards(TimesIn(K, s), u)
      /\ \A s, u : Prints(s, u) = PrintsBy(K, s, u)
      /\ FoldedTicks = TicksOf(K)
  BY SeenIsTheCorpus
<1>2. shown # NoView => FeaturesOf(shown, K) /\ SectionBehind(shown, K)
  BY DEF ShownIsPast
<1> HIDE DEF K
<1>3. FeaturesSeeTheTail
  <2> SUFFICES ASSUME shown # NoView, NEW n \in Lookbacks
               PROVE  SeesTheTail(shown.windows[n], Times(shown.symbol, shown.as_of), n)
    BY DEF FeaturesSeeTheTail, SeesTheTail
  <2>1. SeesTheTail(shown.windows[n], Upwards(TimesIn(K, shown.symbol), shown.as_of), n)
    BY <1>2 DEF FeaturesOf
  <2> QED
    BY <1>1, <2>1
<1>4. ASSUME shown.section # NoSection PROVE SectionBehind(shown, K)
  <2>1. shown # NoView
    BY <1>4 DEF NoView
  <2> QED
    BY <1>2, <2>1
<1>5. SectionIsOneTickBehind
  <2> SUFFICES ASSUME shown.section # NoSection
               PROVE  LET section == shown.section
                          earlier == {t \in FoldedTicks : t < shown.as_of}
                      IN /\ section.as_of \in earlier
                         /\ shown.levels # NoLevels => section.as_of = Max(earlier)
                         /\ DOMAIN section.rows = {s \in Universe : Prints(s, section.as_of) # {}}
                         /\ \A s \in DOMAIN section.rows :
                              section.rows[s].print = Max(Prints(s, section.as_of))
    BY DEF SectionIsOneTickBehind
  <2> DEFINE section == shown.section
             earlier == {t \in FoldedTicks : t < shown.as_of}
  <2>1. /\ section.as_of \in Earlier(shown, K)
        /\ shown.levels # NoLevels => section.as_of = Max(Earlier(shown, K))
        /\ DOMAIN section.rows = {s \in Universe : PrintsBy(K, s, section.as_of) # {}}
        /\ \A s \in DOMAIN section.rows : section.rows[s].print = Max(PrintsBy(K, s, section.as_of))
    BY <1>4 DEF SectionBehind
  <2>2. earlier = Earlier(shown, K)
    BY <1>1 DEF Earlier
  <2>3. {s \in Universe : Prints(s, section.as_of) # {}} = {s \in Universe : PrintsBy(K, s, section.as_of) # {}}
    BY <1>1
  <2>4. \A s \in DOMAIN section.rows : section.rows[s].print = Max(Prints(s, section.as_of))
    <3>1. ASSUME NEW s \in DOMAIN section.rows PROVE section.rows[s].print = Max(Prints(s, section.as_of))
      <4>1. Prints(s, section.as_of) = PrintsBy(K, s, section.as_of)
        BY <1>1
      <4> QED
        BY <2>1, <4>1
    <3> QED
      BY <3>1
  <2> HIDE DEF earlier, section
  <2>5. /\ section.as_of \in earlier
        /\ shown.levels # NoLevels => section.as_of = Max(earlier)
    BY <2>1, <2>2
  <2> QED
    BY <2>1, <2>3, <2>4, <2>5 DEF section, earlier
<1> QED
  BY <1>3, <1>5
-----------------------------------------------------------------------------
LEMMA ContextStays ==
  ASSUME NEW K, ContextKnows(K), UNCHANGED contextVars
  PROVE  ContextKnows(K)'
<1>1. /\ key' = key /\ history' = history /\ levels' = levels /\ tick' = tick /\ pending' = pending
      /\ closed' = closed /\ day' = day /\ profile' = profile /\ returns' = returns
  BY DEF contextVars
<1>2. EverySymbol' /\ HistoryIsTheTail(K)'
  BY <1>1 DEF ContextKnows, EverySymbol, HistoryIsTheTail
<1>3. LevelsAreOfThePrint(K)'
  BY <1>1 DEF ContextKnows, LevelsAreOfThePrint
<1>4. SectionIsKept(K)'
  <2>1. CASE WantSection = {}
    BY <1>1, <2>1 DEF ContextKnows, SectionIsKept
  <2>2. CASE WantSection # {}
    <3>1. /\ TickIsTheLast(K) /\ PendingIsOfTheLevels(K) /\ ClosedIsOneTickBehind(K)
          /\ ProfileIsOfTheDay(K) /\ ReturnsAreOfWholeDays(K) /\ BetasPair(K) /\ TrailingSpans(K)
      BY <2>2 DEF ContextKnows, SectionIsKept
    <3>2. TickIsTheLast(K)' /\ ReturnsAreOfWholeDays(K)'
      BY <1>1, <3>1 DEF TickIsTheLast, ReturnsAreOfWholeDays
    <3>3. PendingIsOfTheLevels(K)'
      BY <1>1, <3>1 DEF PendingIsOfTheLevels
    <3>4. ClosedIsOneTickBehind(K)'
      BY <1>1, <3>1 DEF ClosedIsOneTickBehind
    <3>5. ProfileIsOfTheDay(K)'
      BY <1>1, <3>1 DEF ProfileIsOfTheDay
    <3>6. BetasPair(K)' /\ TrailingSpans(K)'
      BY <1>1, <3>1 DEF BetasPair, TrailingSpans
    <3> QED
      BY <2>2, <3>2, <3>3, <3>4, <3>5, <3>6 DEF SectionIsKept
  <2> QED
    BY <2>1, <2>2
<1> QED
  BY <1>2, <1>3, <1>4 DEF ContextKnows

(* The order bars are merged in. *)
NotAfter(a, b) == a = b \/ Precedes(a, b)

LEMMA OrderIsTransitive ==
  ASSUME NEW a \in Bars, NEW b \in Bars, NEW c \in Bars, NotAfter(a, b), NotAfter(b, c)
  PROVE  /\ NotAfter(a, c)
         /\ a.ts <= c.ts /\ (a.symbol = c.symbol /\ b # c => a.ts < c.ts)
<1>1. a.ts \in Nat /\ b.ts \in Nat /\ c.ts \in Nat
  BY BarsAreDated
<1>2. \A s \in Universe : Rank(s) \in Nat
  <2> SUFFICES ASSUME NEW s \in Universe PROVE Rank(s) \in Nat
    OBVIOUS
  <2>1. \E i \in DOMAIN Symbols : Symbols[i] = s
    BY DEF Universe, Range
  <2>2. Rank(s) \in DOMAIN Symbols
    BY <2>1 DEF Rank
  <2> QED
    BY <2>2, ContextAssumption
<1>3. Rank(a.symbol) \in Nat /\ Rank(b.symbol) \in Nat /\ Rank(c.symbol) \in Nat
  BY <1>2, BarsAreDated
<1>4. CASE a = b
  BY <1>1, <1>3, <1>4 DEF NotAfter, Precedes
<1>5. CASE b = c
  BY <1>1, <1>3, <1>5 DEF NotAfter, Precedes
<1>6. CASE Precedes(a, b) /\ Precedes(b, c)
  BY <1>1, <1>3, <1>6 DEF NotAfter, Precedes
<1> QED
  BY <1>4, <1>5, <1>6 DEF NotAfter

(* The context is told a bar that follows all it has been told, or the last *)
(* of them again.                                                          *)
Newcomer(bar, K) ==
  \/ K = {} /\ key = <<>>
  \/ \E last \in K : /\ key = <<last.symbol, last.ts>>
                     /\ NotAfter(last, bar) /\ \A b \in K : NotAfter(b, last)

LEMMA BarIsTold ==
  ASSUME NEW K, K \in SUBSET Bars, ContextKnows(K), NEW bar \in Bars, Newcomer(bar, K), Observe(bar),
         NEW W, W = K \cup {bar}
  PROVE  ContextKnows(W)' /\ key' = <<bar.symbol, bar.ts>>
<1>1. CASE AlreadyObserved(bar)
  <2>1. UNCHANGED contextVars /\ key = <<bar.symbol, bar.ts>>
    BY <1>1 DEF Observe, AlreadyObserved
  <2>2. PICK last \in K : key = <<last.symbol, last.ts>>
    BY <2>1 DEF Newcomer
  <2>3. last.symbol = bar.symbol /\ last.ts = bar.ts
    BY <2>1, <2>2
  <2>4. last = bar
    <3>1. last \in Bars
      OBVIOUS
    <3> QED
      BY <2>3, <3>1 DEF Bars
  <2>5. W = K
    BY <2>4
  <2> QED
    BY <2>1, <2>5, ContextStays DEF contextVars
<1>2. CASE ~AlreadyObserved(bar)
  <2>1. ASSUME NEW b \in K PROVE b.ts <= bar.ts /\ (b.symbol = bar.symbol => b.ts < bar.ts)
    <3>1. PICK last \in K : /\ key = <<last.symbol, last.ts>>
                            /\ NotAfter(last, bar) /\ NotAfter(b, last)
      BY <2>1 DEF Newcomer
    <3>2. last # bar
      BY <1>2, <3>1 DEF AlreadyObserved
    <3>3. b \in Bars /\ last \in Bars
      OBVIOUS
    <3> QED
      BY <3>1, <3>2, <3>3, OrderIsTransitive
  <2>2. Follows(K, bar, W)
    BY <2>1 DEF Follows
  <2> QED
    BY <1>2, <2>2, ContextGrows
<1> QED
  BY <1>1, <1>2

(* What the bars read so far are to the bar that comes next. *)
LEMMA WhoComesNext ==
  ASSUME Logs(seen), ViewInv, NEW K, K = Known, NEW bar \in Bars,
         NEW n, n = Observed, n \in 0 .. Len(seen), n # 0 => NotAfter(seen[n], bar)
  PROVE  K \in SUBSET Bars /\ Newcomer(bar, K) /\ \A i \in 1 .. n : NotAfter(seen[i], bar)
<1>1. Len(seen) \in Nat /\ DOMAIN seen = 1 .. Len(seen) /\ n \in Nat /\ \A i \in 1 .. n : i \in DOMAIN seen
  BY DEF Logs
<1>2. K = {seen[i] : i \in 1 .. n}
  BY DEF Known
<1>3. \A i \in DOMAIN seen : seen[i] \in Bars
  BY DEF ViewInv, SeenAreBars
<1>4. CASE n = 0
  <2>1. K = {} /\ key = <<>>
    BY <1>2, <1>4 DEF ViewInv, KeyIsOfTheLast
  <2> QED
    BY <1>4, <2>1 DEF Newcomer
<1>5. CASE n # 0
  <2>1. n \in 1 .. n /\ seen[n] \in K
    BY <1>1, <1>2, <1>5
  <2>2. key = <<seen[n].symbol, seen[n].ts>>
    BY <1>5 DEF ViewInv, KeyIsOfTheLast
  <2>3. ASSUME NEW i \in 1 .. n PROVE NotAfter(seen[i], seen[n])
    <3>1. i < n \/ i = n
      BY <1>1
    <3> QED
      BY <1>1, <2>1, <3>1 DEF ViewInv, SeenInOrder, NotAfter
  <2>4. \A b \in K : NotAfter(b, seen[n])
    BY <1>2, <2>3
  <2>5. Newcomer(bar, K)
    BY <1>5, <2>1, <2>2, <2>4 DEF Newcomer
  <2>6. ASSUME NEW i \in 1 .. n PROVE NotAfter(seen[i], bar)
    <3>1. seen[i] \in Bars /\ seen[n] \in Bars
      BY <1>1, <1>3, <2>1
    <3> QED
      BY <1>5, <2>3, <3>1, OrderIsTransitive
  <2>7. K \in SUBSET Bars
    BY <1>1, <1>2, <1>3
  <2> QED
    BY <2>5, <2>6, <2>7
<1> QED
  BY <1>4, <1>5, <1>1, <1>2, <1>3
-----------------------------------------------------------------------------
(* A step that tells the context nothing, reads no bar and shows nothing.   *)
LEMMA QuietKeeps ==
  ASSUME ViewInv, UNCHANGED <<contextVars, seen>>, Observed' = Observed, shown' \in {shown, NoView},
         ShownWhileHandled'
  PROVE  ViewInv'
<1>1. key' = key /\ seen' = seen
  BY DEF contextVars
<1>2. SeenAreBars' /\ SeenInOrder'
  BY <1>1 DEF ViewInv, SeenAreBars, SeenInOrder
<1>3. KeyIsOfTheLast'
  <2> HIDE DEF Observed
  <2> QED
    BY <1>1 DEF ViewInv, KeyIsOfTheLast
<1>4. Known' = Known /\ Seen' = Seen
  <2> HIDE DEF Observed
  <2> QED
    BY <1>1 DEF Known, Seen
<1>5. ContextIsTold'
  <2>1. ContextKnows(Known)
    BY DEF ViewInv, ContextIsTold
  <2> DEFINE K == Known
  <2>2. \A L \in {Known} : ContextKnows(L)'
    BY <2>1, ContextStays
  <2> HIDE DEF Known
  <2> QED
    BY <1>4, <2>2 DEF ContextIsTold
<1>6. ShownIsPast'
  BY <1>4 DEF ViewInv, ShownIsPast
<1> QED
  BY <1>2, <1>3, <1>5, <1>6 DEF ViewInv

LEMMA ReadOneMore ==
  ASSUME Logs(seen), NEW bar, seen' = Append(seen, bar)
  PROVE  /\ Len(seen) \in Nat /\ Len(seen') = Len(seen) + 1 /\ DOMAIN seen = 1 .. Len(seen)
         /\ DOMAIN seen' = 1 .. Len(seen) + 1 /\ seen'[Len(seen) + 1] = bar
         /\ \A i \in 1 .. Len(seen) : seen'[i] = seen[i]
BY LogGrows

(* Between two bars the context has been told all of them. *)
LEMMA NextBar ==
  ASSUME IInv, ViewInv, calls = <<>>, NEW bar \in Bars, Comes(bar), seen' = Append(seen, bar)
  PROVE  /\ Observed = Len(seen) /\ Known \in SUBSET Bars /\ Newcomer(bar, Known)
         /\ SeenAreBars' /\ SeenInOrder' /\ shown = NoView
<1>1. Logs(seen) /\ Len(seen) \in Nat
  BY DEF IInv, AllAreLogs, Logs
<1>2. Observed = Len(seen)
  BY DEF Observed
<1>3. Len(seen) # 0 => NotAfter(seen[Len(seen)], bar)
  BY <1>1 DEF Comes, Last, NotAfter
<1>4. Known \in SUBSET Bars /\ Newcomer(bar, Known) /\ \A i \in 1 .. Len(seen) : NotAfter(seen[i], bar)
  <2> DEFINE K == Known
             n == Len(seen)
  <2>1. n \in 0 .. Len(seen) /\ n = Observed
    BY <1>1, <1>2
  <2> HIDE DEF K, n
  <2>2. K = Known /\ (n # 0 => NotAfter(seen[n], bar))
    BY <1>3 DEF K, n
  <2>3. K \in SUBSET Bars /\ Newcomer(bar, K) /\ \A i \in 1 .. n : NotAfter(seen[i], bar)
    BY <1>1, <2>1, <2>2, WhoComesNext
  <2> QED
    BY <2>3 DEF K, n
<1>5. SeenAreBars'
  BY <1>1, ReadOneMore DEF ViewInv, SeenAreBars
<1>6. SeenInOrder'
  <2> SUFFICES ASSUME NEW i \in DOMAIN seen', NEW j \in DOMAIN seen', i < j
               PROVE  NotAfter(seen'[i], seen'[j])
    BY DEF SeenInOrder, NotAfter
  <2>0. i \in 1 .. Len(seen) /\ j \in 1 .. Len(seen) + 1 /\ seen'[i] = seen[i]
    BY <1>1, ReadOneMore
  <2>1. CASE j = Len(seen) + 1
    <3>1. seen'[j] = bar
      BY <1>1, <2>1, ReadOneMore
    <3> QED
      BY <1>4, <2>0, <3>1
  <2>2. CASE j \in 1 .. Len(seen)
    <3>1. seen'[j] = seen[j]
      BY <1>1, <2>2, ReadOneMore
    <3>2. i \in DOMAIN seen /\ j \in DOMAIN seen
      BY <1>1, <2>0, <2>2, ReadOneMore
    <3> QED
      BY <2>0, <3>1, <3>2 DEF ViewInv, SeenInOrder, NotAfter
  <2> QED
    BY <1>1, <2>0, <2>1, <2>2
<1>7. shown = NoView
  BY DEF ViewInv, ShownWhileHandled
<1> QED
  BY <1>2, <1>4, <1>5, <1>6, <1>7

LEMMA WarmUpTells == ASSUME IInv, ViewInv, NEW bar \in Bars, WarmUp(bar) PROVE ViewInv'
<1>1. /\ calls = <<>> /\ calls' = <<>> /\ Comes(bar) /\ seen' = Append(seen, bar) /\ Observe(bar)
      /\ shown' = shown
  BY DEF WarmUp, Idle
<1>2. Logs(seen)
  BY DEF IInv, AllAreLogs
<1>3. /\ Observed = Len(seen) /\ Known \in SUBSET Bars /\ Newcomer(bar, Known)
      /\ SeenAreBars' /\ SeenInOrder' /\ shown = NoView
  BY <1>1, NextBar
<1>4. Observed' = Len(seen) + 1
  BY <1>1, <1>2, ReadOneMore DEF Observed
<1>5. Known' = Known \cup {bar}
  <2>1. Known' = {seen'[i] : i \in 1 .. Len(seen) + 1}
    BY <1>4 DEF Known
  <2>2. Known = {seen[i] : i \in 1 .. Len(seen)}
    BY <1>3 DEF Known
  <2> QED
    BY <1>1, <1>2, <2>1, <2>2, ReadOneMore
<1>6. ContextKnows(Known)
  BY DEF ViewInv, ContextIsTold
<1>7. \A K \in {Known} : \A W \in {K \cup {bar}} : ContextKnows(W)' /\ key' = <<bar.symbol, bar.ts>>
  BY <1>1, <1>3, <1>6, BarIsTold
<1>8. ContextIsTold'
  <2> HIDE DEF Known
  <2> QED
    BY <1>5, <1>7 DEF ContextIsTold
<1>9. KeyIsOfTheLast'
  <2>1. seen'[Len(seen) + 1] = bar /\ Len(seen) + 1 # 0
    BY <1>1, <1>2, ReadOneMore
  <2> QED
    BY <1>4, <1>7, <2>1 DEF KeyIsOfTheLast
<1>10. ShownWhileHandled' /\ ShownIsPast'
  BY <1>1, <1>3 DEF ShownWhileHandled, ShownIsPast
<1> QED
  BY <1>3, <1>8, <1>9, <1>10 DEF ViewInv

LEMMA DriveTellsNothingYet == ASSUME IInv, ViewInv, NEW bar \in Bars, Drive(bar) PROVE ViewInv'
<1>1. /\ calls = <<>> /\ Comes(bar) /\ seen' = Append(seen, bar) /\ calls' = Publish(bar)
      /\ UNCHANGED contextVars /\ shown' = shown
  BY DEF Drive, Idle
<1>2. Logs(seen)
  BY DEF IInv, AllAreLogs
<1>3. /\ Observed = Len(seen) /\ Known \in SUBSET Bars /\ Newcomer(bar, Known)
      /\ SeenAreBars' /\ SeenInOrder' /\ shown = NoView
  BY <1>1, NextBar
<1>4. calls' # <<>> /\ 3 \in Left'
  <2>1. IsBar(bar)
    BY DEF IsBar, Bars
  <2>2. Handlers(bar) = {1} \cup 3 .. N + 3
    BY <2>1, HandlersOfEach
  <2>3. Publish(bar) = Append(<<>>, Call(bar, {1} \cup 3 .. N + 3))
    BY <1>1, <2>2, Zenon DEF Publish, Call
  <2>4. \A e : Append(<<>>, e) = <<e>>
    OBVIOUS
  <2>5. calls' = <<Call(bar, {1} \cup 3 .. N + 3)>>
    BY <1>1, <2>3, <2>4, Zenon
  <2>6. N \in Nat
    BY WhoHears
  <2> HIDE DEF N
  <2> QED
    BY <2>5, <2>6 DEF Left, Call
<1>5. Observed' = Len(seen)
  <2>1. Len(seen') - 1 = Len(seen)
    BY <1>1, <1>2, ReadOneMore
  <2> QED
    BY <1>4, <2>1 DEF Observed
<1>6. Known' = Known
  <2>1. Known' = {seen'[i] : i \in 1 .. Len(seen)}
    BY <1>5 DEF Known
  <2>2. Known = {seen[i] : i \in 1 .. Len(seen)}
    BY <1>3 DEF Known
  <2> QED
    BY <1>1, <1>2, <2>1, <2>2, ReadOneMore
<1>7. ContextIsTold'
  <2>1. ContextKnows(Known)
    BY DEF ViewInv, ContextIsTold
  <2>2. \A K \in {Known} : ContextKnows(K)'
    BY <1>1, <2>1, ContextStays
  <2> HIDE DEF Known
  <2> QED
    BY <1>6, <2>2 DEF ContextIsTold
<1>8. KeyIsOfTheLast'
  <2>1. key' = key /\ key = IF Len(seen) = 0 THEN <<>> ELSE <<seen[Len(seen)].symbol, seen[Len(seen)].ts>>
    BY <1>1, <1>3 DEF ViewInv, KeyIsOfTheLast, contextVars
  <2>2. Len(seen) # 0 => seen'[Len(seen)] = seen[Len(seen)]
    BY <1>1, <1>2, ReadOneMore
  <2> QED
    BY <1>5, <2>1, <2>2 DEF KeyIsOfTheLast
<1>9. ShownWhileHandled' /\ ShownIsPast'
  BY <1>1, <1>3 DEF ShownWhileHandled, ShownIsPast
<1> QED
  BY <1>3, <1>7, <1>8, <1>9 DEF ViewInv
-----------------------------------------------------------------------------
(* A handler of a bar is called: what was left to call, and what is left.   *)
OnTheWay == calls = <<Call(Driven, Left)>> /\ OnABar

LEMMA LeftToCall ==
  ASSUME IInv, OnTheWay, NEW i \in Left, calls' = <<Call(Driven, Left \ {i})>>
  PROVE  /\ Driven' = Driven /\ Left' = Left \ {i} /\ calls # <<>> /\ calls' # <<>>
         /\ Top.event = Driven /\ Driven = seen[Len(seen)]
         /\ Len(seen) \in Nat \ {0} /\ DOMAIN seen = 1 .. Len(seen)
<1>1. Driven' = Driven /\ Left' = Left \ {i} /\ calls # <<>> /\ calls' # <<>>
  BY DEF OnTheWay, Driven, Left, Call
<1>2. Top = Call(Driven, Left)
  <2>1. Len(calls) = 1 /\ calls[1] = Call(Driven, Left)
    BY DEF OnTheWay
  <2> QED
    BY <2>1 DEF Top, Last
<1>3. Driven = seen[Len(seen)] /\ warm < Len(seen) /\ warm \in Nat
  BY DEF OnTheWay, OnABar, IInv, AllAreLogs
<1>4. Len(seen) \in Nat /\ DOMAIN seen = 1 .. Len(seen)
  BY DEF IInv, AllAreLogs, Logs
<1> QED
  BY <1>1, <1>2, <1>3, <1>4 DEF Call

LEMMA ObserveTells == ASSUME IInv, ViewInv, ObserveBar PROVE ViewInv'
<1>1. Handling("observe") /\ Observe(Top.event) /\ seen' = seen /\ shown' = shown
  BY DEF ObserveBar
<1>2. \A i \in 1 .. N + 3 : Subscriptions[i].name = "observe" => i >= 3
  BY NamesArePlaces
<1>3. PICK i \in Left : /\ Subscriptions[i].name = "observe" /\ \A j \in Left : i <= j
                        /\ calls' = <<Call(Driven, Left \ {i})>>
  BY <1>1, <1>2, BarOnly
<1>4. OnTheWay
  BY <1>1, <1>2, BarOnly DEF OnTheWay
<1>5. i = 3
  <2>1. N \in Nat /\ Left \subseteq {1} \cup 3 .. N + 3
    BY <1>4, WhoHears DEF OnTheWay, OnABar
  <2> HIDE DEF N
  <2>2. i \in 1 .. N + 3
    BY <2>1
  <2> QED
    BY <1>3, <2>2, NamesArePlaces
<1>6. /\ Left' = Left \ {3} /\ calls # <<>> /\ calls' # <<>> /\ Top.event = Driven
      /\ Driven = seen[Len(seen)] /\ Len(seen) \in Nat \ {0} /\ DOMAIN seen = 1 .. Len(seen)
  BY <1>3, <1>4, <1>5, LeftToCall
<1> DEFINE n == Len(seen) - 1
           bar == seen[Len(seen)]
<1>7. n \in Nat /\ n \in 0 .. Len(seen) /\ n + 1 = Len(seen) /\ n = Observed
  BY <1>3, <1>5, <1>6 DEF Observed
<1>8. Observed' = Len(seen)
  BY <1>1, <1>6 DEF Observed
<1>9. bar \in Bars /\ (n # 0 => NotAfter(seen[n], bar))
  <2>1. Len(seen) \in DOMAIN seen
    BY <1>6
  <2>2. n # 0 => n \in DOMAIN seen /\ n < Len(seen)
    BY <1>6, <1>7
  <2> QED
    BY <2>1, <2>2 DEF ViewInv, SeenAreBars, SeenInOrder, NotAfter
<1>10. Logs(seen)
  BY DEF IInv, AllAreLogs
<1> HIDE DEF n, bar
<1>11. \A K \in {Known} : K \in SUBSET Bars /\ Newcomer(bar, K)
  BY <1>7, <1>9, <1>10, WhoComesNext
<1>12. Known' = Known \cup {bar}
  <2>1. Known' = {seen[i_1] : i_1 \in 1 .. n + 1} /\ Known = {seen[i_1] : i_1 \in 1 .. n}
    BY <1>1, <1>7, <1>8 DEF Known
  <2>2. bar = seen[n + 1]
    BY <1>7 DEF bar
  <2> QED
    BY <1>7, <2>1, <2>2
<1>13. \A K \in {Known} : \A W \in {K \cup {bar}} : ContextKnows(W)' /\ key' = <<bar.symbol, bar.ts>>
  <2>1. \A K \in {Known} : ContextKnows(K)
    BY DEF ViewInv, ContextIsTold
  <2>2. Observe(bar)
    BY <1>1, <1>6 DEF bar
  <2> QED
    BY <1>9, <1>11, <2>1, <2>2, BarIsTold
<1>14. ContextIsTold'
  <2> HIDE DEF Known
  <2> QED
    BY <1>12, <1>13 DEF ContextIsTold
<1>15. KeyIsOfTheLast'
  <2>1. Observed' # 0 /\ seen'[Observed'] = bar
    BY <1>1, <1>6, <1>8 DEF bar
  <2> HIDE DEF Observed
  <2> QED
    BY <1>13, <2>1 DEF KeyIsOfTheLast
<1>16. shown = NoView
  BY <1>3, <1>5 DEF ViewInv, ShownWhileHandled
<1>17. SeenAreBars' /\ SeenInOrder' /\ ShownWhileHandled' /\ ShownIsPast'
  BY <1>1, <1>16 DEF ViewInv, SeenAreBars, SeenInOrder, ShownWhileHandled, ShownIsPast
<1> QED
  BY <1>14, <1>15, <1>17 DEF ViewInv
-----------------------------------------------------------------------------
(* A strategy is called once the context has been told of the bar. *)
LEMMA StrategyIsTold ==
  ASSUME IInv, ViewInv, NEW s \in Range(Strategies), Handling(s), seen' = seen
  PROVE  /\ calls # <<>> /\ calls' # <<>> /\ 3 \notin Left /\ 3 \notin Left'
         /\ Observed = Len(seen) /\ Observed' = Observed
         /\ Top.event = Driven /\ Driven = seen[Len(seen)]
         /\ Len(seen) \in Nat \ {0} /\ DOMAIN seen = 1 .. Len(seen)
<1>1. /\ \A i \in 1 .. N + 3 : Subscriptions[i].name = s => i = Place(s) + 3
      /\ Place(s) \in 1 .. N /\ N \in Nat
  BY NamesArePlaces, WhoHears
<1> HIDE DEF N
<1>2. \A i \in 1 .. N + 3 : Subscriptions[i].name = s => i >= 3
  BY <1>1
<1>3. PICK i \in Left : /\ Subscriptions[i].name = s /\ i # 1 /\ \A j \in Left : i <= j
                        /\ calls' = <<Call(Driven, Left \ {i})>>
  BY <1>2, BarOnly
<1>4. OnTheWay
  BY <1>2, BarOnly DEF OnTheWay
<1>5. i \in 1 .. N + 3 /\ i = Place(s) + 3 /\ i > 3
  <2>1. i \in 1 .. N + 3
    BY <1>1, <1>3, <1>4 DEF OnTheWay, OnABar
  <2> QED
    BY <1>1, <1>3, <2>1
<1>6. 3 \notin Left
  BY <1>3, <1>5
<1>7. /\ Left' = Left \ {i} /\ calls # <<>> /\ calls' # <<>> /\ Top.event = Driven
      /\ Driven = seen[Len(seen)] /\ Len(seen) \in Nat \ {0} /\ DOMAIN seen = 1 .. Len(seen)
  BY <1>3, <1>4, LeftToCall
<1>8. Observed = Len(seen) /\ Observed' = Len(seen)
  BY <1>6, <1>7 DEF Observed
<1> QED
  BY <1>6, <1>7, <1>8

LEMMA HandlerShowsThePast == ASSUME IInv, ViewInv, NEW s \in Range(Strategies), Handler(s) PROVE ViewInv'
<1>1. Handling(s) /\ UNCHANGED contextVars /\ seen' = seen
  BY DEF Handler, Ineligible, OnBar, Raise
<1>2. /\ calls # <<>> /\ calls' # <<>> /\ 3 \notin Left /\ 3 \notin Left'
      /\ Observed = Len(seen) /\ Observed' = Observed
      /\ Top.event = Driven /\ Driven = seen[Len(seen)]
      /\ Len(seen) \in Nat \ {0} /\ DOMAIN seen = 1 .. Len(seen)
  BY <1>1, StrategyIsTold
<1>3. ShownWhileHandled'
  BY <1>2 DEF ShownWhileHandled
<1>4. CASE Ineligible(s) \/ Raise(s)
  <2>1. shown' \in {shown, NoView}
    BY <1>4 DEF Ineligible, Raise
  <2> QED
    BY <1>1, <1>2, <1>3, <2>1, QuietKeeps
<1>5. CASE OnBar(s)
  <2> DEFINE wants == s \in WantSection
             view == View(Driven, wants)
  <2>1. shown' = view
    BY <1>2, <1>5 DEF OnBar
  <2> HIDE DEF view, wants
  <2>2. wants \in BOOLEAN
    BY DEF wants
  <2>3. \A K \in {Seen} : K = Known /\ K \in SUBSET Bars /\ IsTheLast(Driven, K)
    <3>1. Seen = Known
      BY <1>2 DEF Seen, Known
    <3>2. Seen \in SUBSET Bars
      BY <1>2 DEF Seen, ViewInv, SeenAreBars
    <3>3. IsTheLast(Driven, Seen)
      <4>1. Len(seen) \in DOMAIN seen /\ Driven \in Seen
        BY <1>2 DEF Seen
      <4>2. ASSUME NEW i \in 1 .. Len(seen) PROVE seen[i].ts <= Driven.ts
        <5>1. seen[i] \in Bars /\ Driven \in Bars
          BY <1>2, <4>1 DEF ViewInv, SeenAreBars
        <5>2. NotAfter(seen[i], Driven) /\ NotAfter(Driven, Driven)
          <6>1. i < Len(seen) \/ i = Len(seen)
            BY <1>2
          <6> QED
            BY <1>2, <4>1, <6>1 DEF ViewInv, SeenInOrder, NotAfter
        <5> QED
          BY <5>1, <5>2, OrderIsTransitive
      <4> QED
        BY <4>1, <4>2 DEF IsTheLast, Seen
    <3> QED
      BY <3>1, <3>2, <3>3
  <2>4. \A K \in {Seen} : ContextKnows(K)
    <3>1. \A K \in {Known} : ContextKnows(K)
      BY DEF ViewInv, ContextIsTold
    <3> HIDE DEF Known, Seen
    <3> QED
      BY <2>3, <3>1
  <2>5. \A K \in {Seen} : \A v \in {view} : FeaturesOf(v, K) /\ SectionBehind(v, K)
    <3> HIDE DEF Known, Seen
    <3> QED
      BY <2>2, <2>3, <2>4, ViewIsOfThePast DEF view
  <2>6. ShownIsPast'
    <3>1. Seen' = Seen
      BY <1>1 DEF Seen
    <3> HIDE DEF Seen
    <3> QED
      BY <2>1, <2>5, <3>1 DEF ShownIsPast
  <2>7. Known' = Known /\ key' = key
    BY <1>1, <1>2 DEF Known, contextVars
  <2>8. ContextIsTold'
    <3>1. ContextKnows(Known)
      BY DEF ViewInv, ContextIsTold
    <3>2. \A K \in {Known} : ContextKnows(K)'
      BY <1>1, <3>1, ContextStays
    <3> HIDE DEF Known
    <3> QED
      BY <2>7, <3>2 DEF ContextIsTold
  <2>9. SeenAreBars' /\ SeenInOrder'
    BY <1>1 DEF ViewInv, SeenAreBars, SeenInOrder
  <2>10. KeyIsOfTheLast'
    <3> HIDE DEF Observed
    <3> QED
      BY <1>1, <1>2, <2>7 DEF ViewInv, KeyIsOfTheLast
  <2> QED
    BY <1>3, <2>6, <2>8, <2>9, <2>10 DEF ViewInv
<1> QED
  BY <1>4, <1>5 DEF Handler
-----------------------------------------------------------------------------
LEMMA AsManyTold ==
  ASSUME seen' = seen, (calls # <<>> /\ 3 \in Left) <=> (calls' # <<>> /\ 3 \in Left')
  PROVE  Observed' = Observed
<1>1. CASE calls # <<>> /\ 3 \in Left
  BY <1>1 DEF Observed
<1>2. CASE ~(calls # <<>> /\ 3 \in Left)
  <2>1. ~(calls' # <<>> /\ 3 \in Left')
    BY <1>2
  <2> QED
    BY <1>2, <2>1 DEF Observed
<1> QED
  BY <1>1, <1>2

(* The digest and the collector know nothing of the context. *)
LEMMA LoggersTellNothing ==
  ASSUME IInv, ViewInv, NEW name \in {"digest", "collect"}, Handling(name),
         UNCHANGED <<contextVars, seen, shown>>
  PROVE  ViewInv'
<1>1. \A i \in 1 .. N + 3 : Subscriptions[i].name = name => i # 3
  BY NamesArePlaces
<1>2. N \in Nat
  BY WhoHears
<1> HIDE DEF N
<1>3. /\ calls # <<>> /\ calls' # <<>> /\ (3 \in Left <=> 3 \in Left')
  <2>1. CASE /\ calls = <<Call(Driven, Left)>> /\ OnABar
             /\ \E i \in Left : /\ Subscriptions[i].name = name /\ \A j \in Left : i <= j
                                /\ calls' = <<Call(Driven, Left \ {i})>>
    <3>1. PICK i \in Left : Subscriptions[i].name = name /\ calls' = <<Call(Driven, Left \ {i})>>
      BY <2>1
    <3>2. i # 3
      BY <1>1, <1>2, <2>1, <3>1 DEF OnABar
    <3>3. Left' = Left \ {i} /\ calls' # <<>> /\ calls # <<>>
      BY <2>1, <3>1 DEF Left, Call
    <3> QED
      BY <3>2, <3>3
  <2>2. CASE /\ calls = <<Call(Driven, Left), Call(Made, Hears)>>
             /\ \E i \in {1, 2} : calls' = <<Call(Driven, Left), Call(Made, Hears \ {i})>>
    BY <2>2 DEF Left, Call
  <2> QED
    BY <2>1, <2>2, OneMoreHandler
<1>4. Observed' = Observed
  BY <1>3, AsManyTold
<1>5. ShownWhileHandled'
  BY <1>3 DEF ViewInv, ShownWhileHandled
<1> QED
  BY <1>4, <1>5, QuietKeeps

LEMMA PublishTellsNothing == ASSUME IInv, ViewInv, PublishNext PROVE ViewInv'
<1>1. /\ outbox # <<>> /\ IsBar(Top.event) /\ calls' = Append(calls, Call(Head(outbox), Handlers(Head(outbox))))
      /\ UNCHANGED <<contextVars, seen, shown>>
  BY DEF PublishNext, PublishOnTheBus, Publish, Call
<1>2. ~(/\ calls = <<Call(Driven, Left), Call(Made, Hears)>> /\ OfTheBar(Made))
  <2> SUFFICES ASSUME calls = <<Call(Driven, Left), Call(Made, Hears)>>, OfTheBar(Made) PROVE FALSE
    OBVIOUS
  <2>1. Top.event = Made
    BY DEF Top, Last, Call
  <2> QED
    BY <1>1, <2>1 DEF OfTheBar, IsBar, IsIntent
<1>3. calls = <<Call(Driven, Left)>>
  BY <1>1, <1>2 DEF IInv, CallsNest
<1>4. calls' = <<Call(Driven, Left), Call(Head(outbox), Handlers(Head(outbox)))>>
  BY <1>1, <1>3, TwoAreStacked, Zenon
<1>5. calls # <<>> /\ calls' # <<>> /\ Left' = Left
  BY <1>3, <1>4 DEF Left, Call
<1>6. Observed' = Observed
  BY <1>1, <1>5, AsManyTold
<1>7. ShownWhileHandled'
  BY <1>1, <1>5 DEF ViewInv, ShownWhileHandled
<1> QED
  BY <1>1, <1>6, <1>7, QuietKeeps

LEMMA ReturnTellsNothing == ASSUME IInv, ViewInv, Return PROVE ViewInv'
<1>1. /\ Top.todo = {} /\ calls' = Front(calls) /\ calls # <<>>
      /\ UNCHANGED <<contextVars, seen>>
      /\ shown' = IF IsBar(Top.event) THEN NoView ELSE shown
  BY DEF Return
<1>2. shown' \in {shown, NoView}
  BY <1>1
<1>3. CASE calls = <<Call(Driven, Left)>> /\ OnABar
  <2>1. Top = Call(Driven, Left) /\ calls' = <<>>
    BY <1>1, <1>3 DEF Top, Last, Front
  <2>2. IsBar(Driven)
    BY <1>3 DEF OnABar, IInv, AllAreLogs, Logs
  <2>3. Left = {} /\ shown' = NoView
    BY <1>1, <2>1, <2>2 DEF Call
  <2>4. Observed' = Observed
    BY <1>1, <2>1, <2>3, AsManyTold
  <2>5. ShownWhileHandled'
    BY <2>3 DEF ShownWhileHandled
  <2> QED
    BY <1>1, <1>2, <2>4, <2>5, QuietKeeps
<1>4. CASE calls = <<Call(Driven, Left), Call(Made, Hears)>>
  <2>1. calls' = <<Call(Driven, Left)>>
    BY <1>1, <1>4, TwoAreStacked
  <2>2. Left' = Left /\ calls' # <<>>
    BY <2>1 DEF Left, Call
  <2>3. Observed' = Observed
    BY <1>1, <2>2, AsManyTold
  <2>4. ShownWhileHandled'
    BY <1>1, <1>2, <2>2 DEF ViewInv, ShownWhileHandled
  <2> QED
    BY <1>1, <1>2, <2>3, <2>4, QuietKeeps
<1> QED
  BY <1>1, <1>3, <1>4 DEF IInv, CallsNest

LEMMA OthersTellNothing ==
  ASSUME ViewInv, UNCHANGED <<contextVars, seen, calls, shown>>
  PROVE  ViewInv'
<1>1. Left' = Left
  BY DEF Left
<1>2. Observed' = Observed
  BY <1>1, AsManyTold
<1>3. ShownWhileHandled'
  BY <1>1 DEF ViewInv, ShownWhileHandled
<1> QED
  BY <1>2, <1>3, QuietKeeps

LEMMA NextViewInv == ASSUME IInv, ViewInv, [Next]_vars PROVE ViewInv'
<1>1. CASE UNCHANGED vars
  BY <1>1, OthersTellNothing DEF vars
<1>2. ASSUME NEW bar \in Bars, WarmUp(bar) PROVE ViewInv'
  BY <1>2, WarmUpTells
<1>3. ASSUME NEW bar \in Bars, Drive(bar) PROVE ViewInv'
  BY <1>3, DriveTellsNothingYet
<1>4. CASE Digest
  BY <1>4, LoggersTellNothing DEF Digest
<1>5. CASE Collect
  BY <1>5, LoggersTellNothing DEF Collect
<1>6. CASE ObserveBar
  BY <1>6, ObserveTells
<1>7. CASE PublishNext
  BY <1>7, PublishTellsNothing
<1>8. CASE Return
  BY <1>8, ReturnTellsNothing
<1>9. CASE Finish
  BY <1>9, OthersTellNothing DEF Finish
<1>10. ASSUME NEW strategy \in Range(Strategies), Handler(strategy) PROVE ViewInv'
  BY <1>10, HandlerShowsThePast
<1> QED
  BY <1>1, <1>2, <1>3, <1>4, <1>5, <1>6, <1>7, <1>8, <1>9, <1>10 DEF Next

LEMMA InitViewInv == Init => ViewInv
<1> SUFFICES ASSUME Init PROVE ViewInv
  OBVIOUS
<1>1. seen = <<>> /\ calls = <<>> /\ shown = NoView /\ ContextInit
  BY DEF Init
<1>2. Len(seen) = 0 /\ DOMAIN seen = {} /\ Observed = 0
  BY <1>1 DEF Observed
<1>3. Known = {}
  BY <1>2 DEF Known
<1>4. SeenAreBars /\ SeenInOrder /\ ShownWhileHandled /\ ShownIsPast
  BY <1>1, <1>2 DEF SeenAreBars, SeenInOrder, ShownWhileHandled, ShownIsPast
<1>5. KeyIsOfTheLast
  BY <1>1, <1>2 DEF KeyIsOfTheLast, ContextInit
<1>6. ContextKnows({})
  <2>1. \A s, d : TimesIn({}, s) = {} /\ PrintsIn({}, s) = {} /\ PrintsOn({}, s, d) = {}
    BY DEF TimesIn, PrintsIn, PrintsOn
  <2>2. TicksOf({}) = {}
    BY DEF TicksOf
  <2>3. /\ DOMAIN Empty = {} /\ history = [s \in Universe |-> <<>>] /\ levels = [s \in Universe |-> NoLevels]
        /\ tick = 0 /\ pending = Empty /\ closed = NoSection /\ day = [s \in Universe |-> 0]
        /\ profile = [s \in Universe |-> Empty] /\ returns = [s \in Universe |-> Empty]
    BY <1>1 DEF ContextInit, Empty
  <2>4. EverySymbol
    BY <2>3 DEF EverySymbol
  <2>5. EnoughOf(<<>>, {})
    <3>1. Cardinality({}) = 0 /\ <<>> \in Seq({}) /\ Len(<<>>) = 0
      BY FS_EmptySet
    <3> QED
      BY <3>1 DEF EnoughOf, TailOf, Counted
  <2>6. HistoryIsTheTail({}) /\ LevelsAreOfThePrint({})
    BY <2>1, <2>3, <2>5 DEF HistoryIsTheTail, LevelsAreOfThePrint
  <2>7. SectionIsKept({})
    <3>1. TickIsTheLast({}) /\ ClosedIsOneTickBehind({})
      BY <2>2, <2>3 DEF TickIsTheLast, ClosedIsOneTickBehind
    <3>2. PendingIsOfTheLevels({}) /\ ProfileIsOfTheDay({}) /\ BetasPair({}) /\ TrailingSpans({})
      BY <2>1, <2>3 DEF PendingIsOfTheLevels, ProfileIsOfTheDay, BetasPair, TrailingSpans
    <3>3. ReturnsAreOfWholeDays({})
      BY <2>3 DEF ReturnsAreOfWholeDays
    <3> QED
      BY <2>3, <3>1, <3>2, <3>3 DEF SectionIsKept
  <2> QED
    BY <2>4, <2>6, <2>7 DEF ContextKnows
<1>7. ContextIsTold
  BY <1>3, <1>6 DEF ContextIsTold
<1> QED
  BY <1>4, <1>5, <1>7 DEF ViewInv
-----------------------------------------------------------------------------
(* While a bar is still on its way to the context, what its section says of *)
(* the days that are over already holds of that bar too.                   *)
LEMMA SectionIsOfAllSeen ==
  ASSUME IInv, ViewInv, NEW W, W = Seen
  PROVE  BetasPair(W) /\ TrailingSpans(W)
<1>1. Logs(seen) /\ Len(seen) \in Nat /\ DOMAIN seen = 1 .. Len(seen)
  BY DEF IInv, AllAreLogs, Logs
<1>2. ContextKnows(Known)
  BY DEF ViewInv, ContextIsTold
<1>3. CASE ~(calls # <<>> /\ 3 \in Left)
  <2>1. W = Known
    BY <1>3 DEF Seen, Known, Observed
  <2> HIDE DEF Known
  <2>2. LevelsAreOfThePrint(W) /\ SectionIsKept(W)
    BY <1>2, <2>1 DEF ContextKnows
  <2> QED
    <3>1. CASE WantSection = {}
      <4>1. DOMAIN pending = {}
        BY <2>2, <3>1 DEF SectionIsKept, Empty
      <4> QED
        BY <4>1 DEF BetasPair, TrailingSpans
    <3>2. CASE WantSection # {}
      BY <2>2, <3>2 DEF SectionIsKept
    <3> QED
      BY <3>1, <3>2
<1>4. CASE calls # <<>> /\ 3 \in Left
  <2> DEFINE n == Len(seen) - 1
             bar == seen[Len(seen)]
             K == Known
  <2>1. Driven = bar /\ Len(seen) \in Nat \ {0}
    <3>1. OnABar
      BY <1>4 DEF IInv, CallsNest
    <3> QED
      BY <1>1, <3>1 DEF OnABar, IInv, AllAreLogs
  <2>2. n \in Nat /\ n \in 0 .. Len(seen) /\ n + 1 = Len(seen) /\ n = Observed
    BY <1>1, <1>4, <2>1 DEF Observed
  <2>3. bar \in Bars /\ (n # 0 => NotAfter(seen[n], bar))
    <3>1. Len(seen) \in DOMAIN seen
      BY <1>1, <2>1
    <3>2. n # 0 => n \in DOMAIN seen /\ n < Len(seen)
      BY <1>1, <2>2
    <3> QED
      BY <3>1, <3>2 DEF ViewInv, SeenAreBars, SeenInOrder, NotAfter
  <2>4. W = K \cup {bar}
    <3> HIDE DEF n
    <3>1. W = {seen[i] : i \in 1 .. n + 1} /\ K = {seen[i] : i \in 1 .. n}
      BY <2>2 DEF Seen, Known
    <3>2. bar = seen[n + 1]
      BY <2>2
    <3> HIDE DEF K, bar
    <3> QED
      BY <2>2, <3>1, <3>2
  <2>5. LevelsAreOfThePrint(K) /\ SectionIsKept(K)
    BY <1>2 DEF ContextKnows
  <2> HIDE DEF n, bar
  <2>6. K = Known
    OBVIOUS
  <2> HIDE DEF K
  <2>7. K \in SUBSET Bars /\ \A i \in 1 .. n : NotAfter(seen[i], bar)
    BY <1>1, <2>2, <2>3, <2>6, WhoComesNext
  <2>8. CASE bar \in K
    <3>1. W = K
      BY <2>4, <2>8
    <3> QED
      <4>1. CASE WantSection = {}
        <5>1. DOMAIN pending = {}
          BY <2>5, <4>1 DEF SectionIsKept, Empty
        <5> QED
          BY <5>1 DEF BetasPair, TrailingSpans
      <4>2. CASE WantSection # {}
        BY <2>5, <3>1, <4>2 DEF SectionIsKept
      <4> QED
        BY <4>1, <4>2
  <2>9. CASE bar \notin K
    <3>1. ASSUME NEW b \in K PROVE b.ts <= bar.ts /\ (b.symbol = bar.symbol => b.ts < bar.ts)
      <4>1. NotAfter(b, bar) /\ b # bar /\ b \in Bars
        <5>1. PICK i \in 1 .. n : b = seen[i]
          BY <2>2, <2>6 DEF Known
        <5> QED
          BY <2>7, <2>9, <5>1
      <4>2. NotAfter(b, b)
        BY DEF NotAfter
      <4> QED
        BY <2>3, <4>1, <4>2, OrderIsTransitive
    <3>2. Follows(K, bar, W)
      BY <2>3, <2>4, <2>7, <3>1 DEF Follows
    <3> QED
      BY <2>5, <3>2, SectionOutlivesABar
  <2> QED
    BY <2>8, <2>9
<1> QED
  BY <1>3, <1>4

LEMMA SeenIsOfThePast == IInv /\ ViewInv => ViewsAreOfThePast
<1> SUFFICES ASSUME IInv, ViewInv PROVE ViewsAreOfThePast
  OBVIOUS
<1>1. Logs(seen) /\ SeenAreBars /\ ShownIsPast
  BY DEF IInv, AllAreLogs, ViewInv
<1>2. FeaturesSeeTheTail /\ SectionIsOneTickBehind
  BY <1>1, ShownIsSeen
<1> DEFINE W == Seen
<1>3. BetasPair(W) /\ TrailingSpans(W)
  BY SectionIsOfAllSeen
<1>4. \A s, d : PrintsOfDay(s, d) = PrintsOn(W, s, d)
  BY <1>1, SeenIsTheCorpus
<1> HIDE DEF W
<1>5. BetaPairsCompletedDays
  <2> SUFFICES ASSUME NEW s \in DOMAIN pending, NEW pair \in pending[s].beta,
                      NEW market, market = BenchmarkAt(s, pending[s].day)
               PROVE  /\ pair.day < pending[s].day
                      /\ pair.own \in PrintsOfDay(s, pair.day)
                      /\ \A print \in PrintsOfDay(s, pair.day) : print <= pair.own
                      /\ pair.market \in PrintsOfDay(market, pair.day)
                      /\ \A print \in PrintsOfDay(market, pair.day) : print <= pair.market
    BY DEF BetaPairsCompletedDays
  <2>1. /\ pair.day < pending[s].day
        /\ Largest(PrintsOn(W, s, pair.day), pair.own)
        /\ Largest(PrintsOn(W, market, pair.day), pair.market)
    BY <1>3 DEF BetasPair
  <2>2. PrintsOfDay(s, pair.day) = PrintsOn(W, s, pair.day)
        /\ PrintsOfDay(market, pair.day) = PrintsOn(W, market, pair.day)
    BY <1>4
  <2> QED
    BY <2>1, <2>2 DEF Largest
<1>6. TrailingSpansTheWindow
  <2> SUFFICES ASSUME NEW s \in DOMAIN pending, pending[s].ts = pending[s].print, pending[s].since # {}
               PROVE  pending[s].since = {pending[s].print - Trailing} \cap PrintsOfDay(s, pending[s].day)
    BY DEF TrailingSpansTheWindow
  <2>1. /\ pending[s].since = {pending[s].print - Trailing}
        /\ pending[s].print - Trailing \in PrintsOn(W, s, pending[s].day)
    BY <1>3 DEF TrailingSpans
  <2>2. PrintsOfDay(s, pending[s].day) = PrintsOn(W, s, pending[s].day)
    BY <1>4
  <2> QED
    BY <2>1, <2>2
<1> QED
  BY <1>2, <1>5, <1>6 DEF ViewsAreOfThePast

(* Whatever the universe, the calendar, the corpus, the lookbacks and the   *)
(* strategies, and however often a bar comes again: what a strategy is     *)
(* shown on a bar is of that bar and the ones before it.  Each feature's   *)
(* window is the newest bars of the symbol, each once; the cross-section   *)
(* is of the tick before, for the first symbol of a tick as for the last;  *)
(* betas pair completed days with their own; trailing returns stay in one  *)
(* session (strategies/context.py, features/resolver.py,                   *)
(* features/cross_section.py, lab/engine.py).                              *)
THEOREM ViewsAreAlwaysOfThePast == Spec => []ViewsAreOfThePast
<1>1. Init => IInv /\ ViewInv
  BY InitIInv, InitViewInv
<1>2. IInv /\ ViewInv /\ [Next]_vars => IInv' /\ ViewInv'
  BY NextIInv, NextViewInv
<1> QED
  BY <1>1, <1>2, SeenIsOfThePast, PTL DEF Spec
=============================================================================
