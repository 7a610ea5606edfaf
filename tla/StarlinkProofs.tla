--------------------------- MODULE StarlinkProofs ---------------------------
(***************************************************************************)
(* What holds of the Starlink monitor for any windows and retentions, any  *)
(* answers of the dish and any number of reboots, crashes and failed       *)
(* writes.                                                                 *)
(***************************************************************************)
EXTENDS Starlink, FiniteSetTheorems, SequenceTheorems, WellFoundedInduction, TLAPS

\* Everything that Status and Reboot may write into the log of events.
Messages == {"outage", "alert", "web only", "unreachable", "foreign", "no internet",
             "reboot failed", "reboot"}

Event    == [t : Nat, message : Messages]
Point    == [t : Nat, reach : BOOLEAN, rate : Nat]
Bucket   == [t : Nat, reach : BOOLEAN]

\* The three logs, in memory and on disk: nothing in them is from the future, and
\* neighbours keep the distance that EventsAreMerged and ChartsInOrder ask for.
EventsOK(s) ==
  /\ s \in Seq(Event)
  /\ \A i \in 1 .. Len(s) : s[i].t <= now
  /\ \A i \in 1 .. Len(s) - 1 :
       s[i].message = s[i + 1].message => s[i + 1].t - s[i].t >= MergeWindow

HistoryOK(s) ==
  /\ s \in Seq(Point)
  /\ \A i \in 1 .. Len(s) : s[i].t <= now
  /\ \A i \in 1 .. Len(s) - 1 :
       LET gap == s[i + 1].t - s[i].t
       IN  /\ gap \in Nat
           /\ gap < SameWindow => s[i].reach # s[i + 1].reach \/ s[i].rate # s[i + 1].rate

MinutesOK(s) ==
  /\ s \in Seq(Bucket)
  /\ \A i \in 1 .. Len(s) : s[i].t <= Truncate(now, Minute)
  /\ Increasing(s)

LogsOK ==
  /\ now \in Nat
  /\ EventsOK(events) /\ HistoryOK(history) /\ MinutesOK(minutes)
  /\ disk[1] # Unreadable => EventsOK(disk[1])
  /\ disk[2] # Unreadable => HistoryOK(disk[2])
  /\ disk[3] # Unreadable => MinutesOK(disk[3])

-----------------------------------------------------------------------------
(* Suffixes, maxima and times.                                              *)

\* Every set of naturals that is not empty has a least element: induction over
\* the naturals in a form without an operator parameter.
LEMMA Least ==
  ASSUME NEW T \in SUBSET Nat, T # {}
  PROVE  \E x \in T : \A y \in T : x <= y
<1> DEFINE R == OpToRel(<, Nat)
<1>1. \A x, y \in Nat : <<y, x>> \in R <=> y < x
  BY DEF OpToRel
<1>2. IsWellFoundedOn(R, Nat)
  BY NatLessThanWellFounded
<1> HIDE DEF R
<1>3. PICK x \in T : \A y \in T : ~(<<y, x>> \in R)
  BY <1>2, WFMin
<1>4. \A y \in T : x <= y
  <2> TAKE y \in T
  <2>1. x \in Nat /\ y \in Nat
    OBVIOUS
  <2>2. ~(y < x)
    BY <1>1, <1>3, <2>1
  <2>3. QED
    BY <2>1, <2>2
<1>5. QED
  BY <1>4

\* Truncating to a minute or an hour keeps the order of times.
LEMMA TruncateOrder ==
  ASSUME NEW a \in Nat, NEW b \in Nat, NEW d \in Nat \ {0}, a <= b
  PROVE  /\ Truncate(a, d) \in Nat /\ Truncate(a, d) <= a
         /\ Truncate(a, d) <= Truncate(b, d)
<1>1. Truncate(a, d) <= Truncate(b, d)
  BY SMT DEF Truncate
<1>2. QED
  BY <1>1, SMT DEF Truncate

\* What is left of a log from one of its elements on.
LEMMA SuffixIs ==
  ASSUME NEW S, NEW s \in Seq(S), NEW i \in 1 .. Len(s) + 1
  PROVE  /\ SubSeq(s, i, Len(s)) \in Seq(S)
         /\ Len(SubSeq(s, i, Len(s))) = Len(s) - i + 1
         /\ \A k \in 1 .. Len(s) - i + 1 : SubSeq(s, i, Len(s))[k] = s[k + i - 1]
  OBVIOUS

\* Newest cuts elements off the front of a log.
LEMMA NewestIsSuffix ==
  ASSUME NEW S, NEW s \in Seq(S), NEW n \in Nat
  PROVE  \E i \in 1 .. Len(s) + 1 : Newest(s, n) = SubSeq(s, i, Len(s))
<1>1. CASE Len(s) > n
  <2>1. Len(s) \in Nat
    BY LenProperties
  <2>2. Len(s) - n + 1 \in 1 .. Len(s) + 1
    BY <1>1, <2>1
  <2>3. QED
    BY <1>1, <2>2 DEF Newest
<1>2. CASE ~(Len(s) > n)
  <2>1. s = SubSeq(s, 1, Len(s)) /\ Len(s) \in Nat
    BY SubSeqFull
  <2>2. QED
    BY <1>2, <2>1 DEF Newest
<1>3. QED
  BY <1>1, <1>2

\* So does the trimming by age, and all that it cuts off is old.
LEMMA TrimIsSuffix ==
  ASSUME NEW S, NEW s \in Seq(S), NEW age \in Nat, now \in Nat,
         \A i \in 1 .. Len(s) : s[i].t \in Nat
  PROVE  \E i \in 1 .. Len(s) + 1 :
           /\ Trim(s, age) = SubSeq(s, i, Len(s))
           /\ \A j \in 1 .. i - 1 : s[j].t + age < now
<1> DEFINE young == {i \in 1 .. Len(s) + 1 : i = Len(s) + 1 \/ s[i].t + age >= now}
           Start(i) == /\ i = Len(s) + 1 \/ s[i].t + age >= now
                       /\ \A j \in 1 .. i - 1 : s[j].t + age < now
<1>1. Len(s) \in Nat /\ young \in SUBSET Nat /\ Len(s) + 1 \in young
  OBVIOUS
<1>2. PICK i \in young : \A j \in young : i <= j
  BY <1>1, Least
<1>3. i \in 1 .. Len(s) + 1
  OBVIOUS
<1>4. ASSUME NEW j \in 1 .. i - 1 PROVE s[j].t + age < now
  <2>1. j \in 1 .. Len(s) /\ j < i
    BY <1>1, <1>3
  <2>2. j \notin young
    BY <1>1, <1>2, <1>3, <2>1
  <2>3. ~(s[j].t + age >= now)
    BY <1>1, <2>1, <2>2
  <2>4. QED
    BY <2>1, <2>3
<1>5. Start(i)
  BY <1>2, <1>4
<1> HIDE DEF Start
<1>6. PICK k \in 1 .. Len(s) + 1 : k = (CHOOSE m \in 1 .. Len(s) + 1 : Start(m)) /\ Start(k)
  BY <1>3, <1>5
<1>7. Trim(s, age) = SubSeq(s, k, Len(s))
  BY <1>6 DEF Trim, Start
<1>8. QED
  BY <1>6, <1>7 DEF Start

\* A suffix of a log is as good as the log.
LEMMA SuffixOK ==
  ASSUME now \in Nat, NEW s, NEW i \in 1 .. Len(s) + 1
  PROVE  /\ EventsOK(s) => EventsOK(SubSeq(s, i, Len(s)))
         /\ HistoryOK(s) => HistoryOK(SubSeq(s, i, Len(s)))
         /\ MinutesOK(s) => MinutesOK(SubSeq(s, i, Len(s)))
<1> DEFINE r == SubSeq(s, i, Len(s))
<1>1. ASSUME EventsOK(s) PROVE EventsOK(r)
  <2>1. /\ r \in Seq(Event) /\ Len(r) = Len(s) - i + 1 /\ Len(s) \in Nat
        /\ \A k \in 1 .. Len(s) - i + 1 : r[k] = s[k + i - 1]
    BY <1>1, SuffixIs DEF EventsOK
  <2> HIDE DEF r
  <2>2. \A k \in 1 .. Len(r) : k + i - 1 \in 1 .. Len(s) /\ r[k] = s[k + i - 1]
    BY <2>1
  <2>3. \A k \in 1 .. Len(r) - 1 : /\ k + i - 1 \in 1 .. Len(s) - 1
                                   /\ r[k] = s[k + i - 1] /\ r[k + 1] = s[(k + i - 1) + 1]
    BY <2>1
  <2>4. QED
    BY <1>1, <2>1, <2>2, <2>3 DEF EventsOK
<1>2. ASSUME HistoryOK(s) PROVE HistoryOK(r)
  <2>1. /\ r \in Seq(Point) /\ Len(r) = Len(s) - i + 1 /\ Len(s) \in Nat
        /\ \A k \in 1 .. Len(s) - i + 1 : r[k] = s[k + i - 1]
    BY <1>2, SuffixIs DEF HistoryOK
  <2> HIDE DEF r
  <2>2. \A k \in 1 .. Len(r) : k + i - 1 \in 1 .. Len(s) /\ r[k] = s[k + i - 1]
    BY <2>1
  <2>3. \A k \in 1 .. Len(r) - 1 : /\ k + i - 1 \in 1 .. Len(s) - 1
                                   /\ r[k] = s[k + i - 1] /\ r[k + 1] = s[(k + i - 1) + 1]
    BY <2>1
  <2>4. QED
    BY <1>2, <2>1, <2>2, <2>3 DEF HistoryOK
<1>3. ASSUME MinutesOK(s) PROVE MinutesOK(r)
  <2>1. /\ r \in Seq(Bucket) /\ Len(r) = Len(s) - i + 1 /\ Len(s) \in Nat
        /\ \A k \in 1 .. Len(s) - i + 1 : r[k] = s[k + i - 1]
    BY <1>3, SuffixIs DEF MinutesOK
  <2> HIDE DEF r
  <2>2. \A k \in 1 .. Len(r) : k + i - 1 \in 1 .. Len(s) /\ r[k] = s[k + i - 1]
    BY <2>1
  <2>3. DOMAIN r = 1 .. Len(r) /\ DOMAIN s = 1 .. Len(s)
    BY <1>3, <2>1 DEF MinutesOK
  <2>4. \A k, l \in 1 .. Len(r) : k < l => k + i - 1 < l + i - 1
    BY <2>1
  <2>5. Increasing(r)
    BY <1>3, <2>2, <2>3, <2>4 DEF MinutesOK, Increasing
  <2>6. QED
    BY <1>3, <2>1, <2>2, <2>5 DEF MinutesOK
<1>4. QED
  BY <1>1, <1>2, <1>3

-----------------------------------------------------------------------------
(* The three ways in which a log grows.                                     *)

\* The last element of a log.
LEMMA LastIs ==
  ASSUME NEW S, NEW s \in Seq(S), s # <<>>
  PROVE  /\ Len(s) \in Nat \ {0} /\ Len(s) \in 1 .. Len(s)
         /\ Last(s) = s[Len(s)] /\ s[Len(s)] \in S
<1>1. Len(s) \in Nat \ {0}
  BY EmptySeq
<1>2. Len(s) \in 1 .. Len(s)
  BY <1>1
<1>3. QED
  BY <1>1, <1>2, ElementOfSeq DEF Last

\* Appending, and replacing the last element.
LEMMA AppendIs ==
  ASSUME NEW S, NEW s \in Seq(S), NEW e \in S
  PROVE  /\ Append(s, e) \in Seq(S) /\ Len(s) \in Nat
         /\ Len(Append(s, e)) = Len(s) + 1
         /\ \A i \in 1 .. Len(s) : Append(s, e)[i] = s[i]
         /\ Append(s, e)[Len(s) + 1] = e
  OBVIOUS

\* An event is merged or appended, and the log stays merged.
LEMMA RecordOK ==
  ASSUME now \in Nat, NEW log, EventsOK(log), NEW message \in Messages
  PROVE  EventsOK(recordEvent(log, message))
<1> DEFINE n == Len(log)
           new == [t |-> now, message |-> message]
           moved == [log[n] EXCEPT !.t = now]
           longer == Append(log, new)
<1>1. MergeWindow \in Nat /\ MaxEvents \in Nat
  BY StarlinkAssumption
<1>2. /\ log \in Seq(Event) /\ n \in Nat
      /\ \A i \in 1 .. n : log[i] \in Event /\ log[i].t \in Nat /\ log[i].t <= now
  <2>1. log \in Seq(Event) /\ \A i \in 1 .. n : log[i].t <= now
    BY DEF EventsOK
  <2>2. n \in Nat /\ \A i \in 1 .. n : log[i] \in Event
    BY <2>1, ElementOfSeq, LenProperties
  <2>3. \A x \in Event : x.t \in Nat
    BY DEF Event
  <2>4. QED
    BY <2>1, <2>2, <2>3
<1>3. CASE log # <<>> /\ Last(log).message = message /\ now - Last(log).t < MergeWindow
  <2>1. n \in 1 .. n /\ log[n] \in Event
    BY <1>2, <1>3, LastIs
  <2>2. moved \in Event /\ moved.t = now /\ moved.message = log[n].message
    BY <2>1 DEF Event
  <2>3. recordEvent(log, message) = [log EXCEPT ![n] = moved]
    BY <1>3 DEF recordEvent
  <2> HIDE DEF moved
  <2> DEFINE r == [log EXCEPT ![n] = moved]
  <2>4. /\ r \in Seq(Event) /\ Len(r) = n
        /\ \A j \in 1 .. n : r[j] = IF j = n THEN moved ELSE log[j]
    BY <1>2, <2>1, <2>2, ExceptSeq
  <2> HIDE DEF r
  <2>5. \A i \in 1 .. n : r[i].t <= now
    BY <1>2, <2>2, <2>4
  <2>6. ASSUME NEW i \in 1 .. n - 1, r[i].message = r[i + 1].message
        PROVE  r[i + 1].t - r[i].t >= MergeWindow
    <3>1. i \in 1 .. n /\ i + 1 \in 1 .. n /\ i # n
      BY <1>2
    <3>2. r[i] = log[i] /\ r[i + 1].message = log[i + 1].message /\ r[i + 1].t >= log[i + 1].t
      BY <1>2, <2>2, <2>4, <3>1
    <3>3. log[i + 1].t - log[i].t >= MergeWindow
      BY <2>6, <3>2 DEF EventsOK
    <3>4. r[i + 1].t \in Nat
      BY <1>2, <2>2, <2>4, <3>1
    <3>5. QED
      BY <1>1, <1>2, <3>1, <3>2, <3>3, <3>4
  <2>7. QED
    BY <2>3, <2>4, <2>5, <2>6 DEF EventsOK, r
<1>4. CASE ~(log # <<>> /\ Last(log).message = message /\ now - Last(log).t < MergeWindow)
  <2>1. new \in Event /\ new.t = now /\ new.message = message
    BY DEF Event
  <2>2. recordEvent(log, message) = Newest(longer, MaxEvents)
    BY <1>4 DEF recordEvent
  <2> HIDE DEF new
  <2>3. /\ longer \in Seq(Event) /\ Len(longer) = n + 1 /\ longer[n + 1] = new
        /\ \A j \in 1 .. n : longer[j] = log[j]
    BY <1>2, <2>1, AppendIs
  <2> HIDE DEF longer
  <2>4. \A i \in 1 .. n + 1 : longer[i].t <= now
    BY <1>2, <2>1, <2>3
  <2>5. ASSUME NEW i \in 1 .. n, longer[i].message = longer[i + 1].message
        PROVE  longer[i + 1].t - longer[i].t >= MergeWindow
    <3>1. CASE i = n
      <4>1. log # <<>> /\ Last(log) = log[n]
        <5>1. log # <<>>
          BY <1>2, <3>1, EmptySeq
        <5>2. QED
          BY <1>2, <5>1, LastIs
      <4>2. ~(now - log[n].t < MergeWindow)
        BY <1>4, <2>1, <2>3, <2>5, <3>1, <4>1
      <4>3. QED
        BY <1>1, <1>2, <2>1, <2>3, <3>1, <4>2
    <3>2. CASE i # n
      <4>1. i \in 1 .. n - 1 /\ i + 1 \in 1 .. n
        BY <1>2, <3>2
      <4>2. QED
        BY <2>3, <2>5, <4>1 DEF EventsOK
    <3>3. QED
      BY <3>1, <3>2
  <2>6. EventsOK(longer)
    BY <1>2, <2>3, <2>4, <2>5 DEF EventsOK
  <2>7. PICK i \in 1 .. Len(longer) + 1 : Newest(longer, MaxEvents) = SubSeq(longer, i, Len(longer))
    BY <1>1, <2>3, NewestIsSuffix
  <2>8. QED
    BY <2>2, <2>6, <2>7, SuffixOK
<1>5. QED
  BY <1>3, <1>4

\* A sample that does not repeat the last one keeps the raw samples in order.
LEMMA AppendRawOK ==
  ASSUME now \in Nat, HistoryOK(history), NEW p \in Point, p.t = now, ~ Repeats(p)
  PROVE  HistoryOK(AppendRaw(p))
<1> DEFINE n == Len(history)
           longer == Append(history, p)
<1>1. SameWindow \in Nat /\ RawRetention \in Nat /\ RawMax \in Nat
  BY StarlinkAssumption
<1>2. /\ history \in Seq(Point) /\ n \in Nat
      /\ \A i \in 1 .. n : history[i] \in Point /\ history[i].t \in Nat /\ history[i].t <= now
  <2>1. history \in Seq(Point) /\ \A i \in 1 .. n : history[i].t <= now
    BY DEF HistoryOK
  <2>2. n \in Nat /\ \A i \in 1 .. n : history[i] \in Point
    BY <2>1, ElementOfSeq, LenProperties
  <2>3. \A x \in Point : x.t \in Nat
    BY DEF Point
  <2>4. QED
    BY <2>1, <2>2, <2>3
<1>3. /\ longer \in Seq(Point) /\ Len(longer) = n + 1 /\ longer[n + 1] = p
      /\ \A j \in 1 .. n : longer[j] = history[j]
  BY <1>2, AppendIs
<1>4. AppendRaw(p) = Newest(Trim(longer, RawRetention), RawMax)
  BY DEF AppendRaw
<1> HIDE DEF longer
<1>5. \A i \in 1 .. n + 1 : longer[i].t \in Nat /\ longer[i].t <= now
  BY <1>2, <1>3
<1>6. ASSUME NEW i \in 1 .. n
      PROVE  LET gap == longer[i + 1].t - longer[i].t
             IN  /\ gap \in Nat
                 /\ gap < SameWindow => \/ longer[i].reach # longer[i + 1].reach
                                        \/ longer[i].rate # longer[i + 1].rate
  <2>1. CASE i = n
    <3>1. history # <<>>
      BY <1>2, <2>1, EmptySeq
    <3>2. Last(history) = history[n]
      BY <1>2, <3>1, LastIs
    <3>3. longer[i] = history[n] /\ longer[i + 1] = p
      BY <1>3, <2>1
    <3>4. now - history[n].t \in Nat
      BY <1>2, <2>1
    <3>5. QED
      BY <3>1, <3>2, <3>3, <3>4 DEF Repeats
  <2>2. CASE i # n
    <3>1. i \in 1 .. n - 1 /\ i + 1 \in 1 .. n
      BY <1>2, <2>2
    <3>2. QED
      BY <1>3, <3>1 DEF HistoryOK
  <2>3. QED
    BY <2>1, <2>2
<1>7. HistoryOK(longer)
  BY <1>2, <1>3, <1>5, <1>6 DEF HistoryOK
<1>8. PICK i \in 1 .. Len(longer) + 1 : Trim(longer, RawRetention) = SubSeq(longer, i, Len(longer))
  BY <1>1, <1>3, <1>5, TrimIsSuffix
<1>9. HistoryOK(Trim(longer, RawRetention))
  BY <1>7, <1>8, SuffixOK
<1>10. PICK trimmed : trimmed = Trim(longer, RawRetention)
  OBVIOUS
<1>11. trimmed \in Seq(Point)
  BY <1>9, <1>10 DEF HistoryOK
<1>12. PICK j \in 1 .. Len(trimmed) + 1 : Newest(trimmed, RawMax) = SubSeq(trimmed, j, Len(trimmed))
  BY <1>1, <1>11, NewestIsSuffix
<1>13. QED
  BY <1>4, <1>9, <1>10, <1>12, SuffixOK

\* A sample enters its minute: the minutes stay in order, and none that is still
\* to be kept is lost.
LEMMA BucketOK ==
  ASSUME now \in Nat, MinutesOK(minutes), NEW reach \in BOOLEAN
  PROVE  /\ MinutesOK(updateMinuteBucket(reach))
         /\ \A m \in Times(minutes) \cup {Truncate(now, Minute)} :
              m + MinuteRetention >= now => m \in Times(updateMinuteBucket(reach))
<1> DEFINE n == Len(minutes)
           time == Truncate(now, Minute)
           new == [t |-> time, reach |-> reach]
           filled == [minutes[n] EXCEPT !.reach = @ \/ reach]
           longer == Append(minutes, new)
<1>1. MinuteRetention \in Nat /\ Minute \in Nat \ {0}
  BY StarlinkAssumption
<1>2. time \in Nat
  BY <1>1, TruncateOrder
<1>3. new \in Bucket /\ new.t = time
  BY <1>2 DEF Bucket
<1>4. /\ minutes \in Seq(Bucket) /\ n \in Nat /\ DOMAIN minutes = 1 .. n
      /\ \A i \in 1 .. n : minutes[i] \in Bucket /\ minutes[i].t \in Nat /\ minutes[i].t <= time
  <2>1. minutes \in Seq(Bucket) /\ \A i \in 1 .. n : minutes[i].t <= time
    BY DEF MinutesOK
  <2>2. n \in Nat /\ DOMAIN minutes = 1 .. n /\ \A i \in 1 .. n : minutes[i] \in Bucket
    BY <2>1, ElementOfSeq, LenProperties
  <2>3. \A x \in Bucket : x.t \in Nat
    BY DEF Bucket
  <2>4. QED
    BY <2>1, <2>2, <2>3
<1>5. \A i, j \in 1 .. n : i < j => minutes[i].t < minutes[j].t
  BY <1>4 DEF MinutesOK, Increasing
<1>6. minutes # <<>> => n \in 1 .. n /\ Last(minutes) = minutes[n]
  BY <1>4, LastIs
<1> HIDE DEF new
<1>7. CASE minutes # <<>> /\ Last(minutes).t = time
  <2>1. n \in 1 .. n /\ minutes[n].t = time /\ minutes[n] \in Bucket
    BY <1>4, <1>6, <1>7
  <2>2. filled \in Bucket /\ filled.t = time
    BY <2>1 DEF Bucket
  <2>3. updateMinuteBucket(reach) = [minutes EXCEPT ![n] = filled]
    BY <1>7 DEF updateMinuteBucket
  <2> HIDE DEF filled, time
  <2> DEFINE r == [minutes EXCEPT ![n] = filled]
  <2>4. /\ r \in Seq(Bucket) /\ Len(r) = n
        /\ \A j \in 1 .. n : r[j] = IF j = n THEN filled ELSE minutes[j]
    BY <1>4, <2>1, <2>2, ExceptSeq
  <2>5. DOMAIN r = 1 .. n
    BY <2>4, LenProperties
  <2> HIDE DEF r
  <2>6. \A i \in 1 .. n : r[i].t = minutes[i].t
    BY <2>1, <2>2, <2>4
  <2>7. Times(r) = Times(minutes) /\ time \in Times(minutes)
    BY <1>4, <2>1, <2>5, <2>6 DEF Times
  <2>8. Increasing(r)
    BY <1>5, <2>5, <2>6 DEF Increasing
  <2>9. MinutesOK(r)
    BY <1>4, <2>4, <2>6, <2>8 DEF MinutesOK, time
  <2>10. QED
    BY <2>3, <2>7, <2>9 DEF r, time
<1>8. CASE ~(minutes # <<>> /\ Last(minutes).t = time)
  <2>1. updateMinuteBucket(reach) = Trim(longer, MinuteRetention)
    BY <1>8 DEF updateMinuteBucket, new
  <2>2. /\ longer \in Seq(Bucket) /\ Len(longer) = n + 1 /\ longer[n + 1] = new
        /\ \A j \in 1 .. n : longer[j] = minutes[j]
    BY <1>3, <1>4, AppendIs
  <2>3. DOMAIN longer = 1 .. n + 1
    BY <2>2, LenProperties
  <2> HIDE DEF longer
  <2>4. \A i \in 1 .. n : minutes[i].t < time
    <3> TAKE i \in 1 .. n
    <3>1. n \in 1 .. n /\ n # 0 /\ n \in Nat
      BY <1>4
    <3>2. minutes # <<>>
      BY <3>1, EmptySeq
    <3>3. minutes[n].t < time
      BY <1>2, <1>4, <1>6, <1>8, <3>1, <3>2
    <3>4. CASE i = n
      BY <3>3, <3>4
    <3>5. CASE i # n
      <4>1. i < n
        BY <3>1, <3>5
      <4>2. minutes[i].t < minutes[n].t
        BY <1>5, <3>1, <4>1
      <4>3. minutes[i].t \in Nat /\ minutes[n].t \in Nat
        BY <1>4, <3>1
      <4>4. QED
        BY <1>2, <3>3, <4>2, <4>3
    <3>6. QED
      BY <3>4, <3>5
  <2> HIDE DEF time
  <2>5. \A i \in 1 .. n + 1 : longer[i].t \in Nat /\ longer[i].t <= time
    BY <1>2, <1>3, <1>4, <2>2
  <2>6. ASSUME NEW i \in 1 .. n + 1, NEW j \in 1 .. n + 1, i < j
        PROVE  longer[i].t < longer[j].t
    <3>1. i \in 1 .. n
      BY <1>4, <2>6
    <3>2. CASE j = n + 1
      BY <1>3, <2>2, <2>4, <3>1, <3>2
    <3>3. CASE j # n + 1
      <4>1. j \in 1 .. n
        BY <1>4, <3>3
      <4>2. QED
        BY <1>5, <2>2, <2>6, <3>1, <4>1
    <3>4. QED
      BY <3>2, <3>3
  <2>7. MinutesOK(longer)
    BY <2>2, <2>3, <2>5, <2>6 DEF MinutesOK, Increasing, time
  <2>8. PICK i \in 1 .. Len(longer) + 1 :
          /\ Trim(longer, MinuteRetention) = SubSeq(longer, i, Len(longer))
          /\ \A j \in 1 .. i - 1 : longer[j].t + MinuteRetention < now
    BY <1>1, <2>2, <2>5, TrimIsSuffix
  <2> DEFINE r == SubSeq(longer, i, Len(longer))
  <2>9. MinutesOK(r)
    BY <2>7, <2>8, SuffixOK
  <2>10. /\ r \in Seq(Bucket) /\ Len(r) = n + 1 - i + 1
         /\ \A k \in 1 .. n + 1 - i + 1 : r[k] = longer[k + i - 1]
    BY <2>2, SuffixIs
  <2>11. DOMAIN r = 1 .. n + 1 - i + 1
    BY <2>10, LenProperties
  <2>12. i \in 1 .. n + 2
    BY <1>4, <2>2
  <2> HIDE DEF r
  <2>13. ASSUME NEW k \in 1 .. n + 1, longer[k].t + MinuteRetention >= now
         PROVE  longer[k].t \in Times(r)
    <3>1. ~(k \in 1 .. i - 1)
      BY <1>1, <2>5, <2>8, <2>13
    <3>2. k - i + 1 \in 1 .. n + 1 - i + 1 /\ (k - i + 1) + i - 1 = k
      BY <1>4, <2>12, <3>1
    <3>3. r[k - i + 1] = longer[k]
      BY <2>10, <3>2
    <3>4. QED
      BY <2>11, <3>2, <3>3 DEF Times
  <2>14. \A m \in Times(minutes) \cup {time} : \E k \in 1 .. n + 1 : longer[k].t = m
    <3> TAKE m \in Times(minutes) \cup {time}
    <3>1. CASE m = time
      BY <1>3, <1>4, <2>2, <3>1
    <3>2. CASE m \in Times(minutes)
      <4>1. PICK k \in 1 .. n : minutes[k].t = m
        BY <1>4, <3>2 DEF Times
      <4>2. k \in 1 .. n + 1 /\ longer[k] = minutes[k]
        BY <1>4, <2>2
      <4>3. QED
        BY <4>1, <4>2
    <3>3. QED
      BY <3>1, <3>2
  <2>15. \A m \in Times(minutes) \cup {time} : m + MinuteRetention >= now => m \in Times(r)
    BY <2>13, <2>14
  <2>16. QED
    BY <2>1, <2>8, <2>9, <2>15 DEF r, time
<1>9. QED
  BY <1>7, <1>8

-----------------------------------------------------------------------------
(* Several events in one Status.                                            *)

\* The maximum of a bounded set of naturals is one of its elements.
LEMMA Greatest ==
  ASSUME NEW n \in Nat, NEW T \in SUBSET (1 .. n), T # {}
  PROVE  /\ Max(T) \in T
         /\ \A y \in T : y <= Max(T)
<1> DEFINE B == {k \in Nat : \E m \in T : k = n - m}
<1>1. PICK m \in T : TRUE
  OBVIOUS
<1>2. n - m \in B /\ B \in SUBSET Nat
  OBVIOUS
<1>3. PICK x \in B : \A y \in B : x <= y
  BY <1>2, Least
<1>4. PICK z \in T : x = n - z
  BY <1>3
<1>5. \A y \in T : z >= y
  <2> TAKE y \in T
  <2>1. n - y \in B
    OBVIOUS
  <2>2. x <= n - y
    BY <1>3, <2>1
  <2>3. y \in Nat /\ z \in Nat
    OBVIOUS
  <2> HIDE DEF B
  <2>4. QED
    BY <1>4, <2>2, <2>3
<1>6. \E w \in T : \A y \in T : w >= y
  BY <1>5
<1>7. Max(T) \in T /\ \A y \in T : Max(T) >= y
  BY <1>6 DEF Max
<1>8. QED
  BY <1>7

\* The events of one Status are recorded one after the other. The fold is a
\* function on the sets of positions: there is one for every prefix, the one of a
\* longer prefix extending that of the shorter, and on the initial positions it
\* is a log whose events are merged.
LEMMA FoldOK ==
  ASSUME now \in Nat, NEW log, EventsOK(log), NEW said \in Seq(Messages)
  PROVE  EventsOK(FoldLeft(recordEvent, log, said))
<1> DEFINE n == Len(said)
           Def(g, k) == [s \in SUBSET (1 .. k) |->
                           IF s = {} THEN log
                           ELSE recordEvent(g[s \ {Max(s)}], said[Max(s)])]
<1>1. n \in Nat /\ DOMAIN said = 1 .. n /\ \A i \in 1 .. n : said[i] \in Messages
  BY ElementOfSeq, LenProperties
<1>2. FoldLeft(recordEvent, log, said) = (CHOOSE g : g = Def(g, n))[1 .. n]
  BY <1>1 DEF FoldLeft, MapThenFoldSet
<1>3. \E g : g = Def(g, n)
  <2> DEFINE bad == {k \in 0 .. n : ~ \E g : g = Def(g, k)}
  <2>1. bad = {}
    <3> SUFFICES ASSUME bad # {} PROVE FALSE
      OBVIOUS
    <3>1. bad \in SUBSET Nat
      BY <1>1
    <3>2. PICK k \in bad : \A j \in bad : k <= j
      BY <3>1, Least
    <3>3. k \in 0 .. n /\ k \in Nat /\ ~ \E g : g = Def(g, k)
      <4>1. k \in 0 .. n /\ ~ \E g : g = Def(g, k)
        BY Zenon
      <4>2. k \in Nat
        BY <1>1, <4>1
      <4>3. QED
        BY <4>1, <4>2, Zenon
    <3>4. CASE k = 0
      <4> DEFINE h == [s \in SUBSET (1 .. 0) |-> log]
      <4>1. \A s \in SUBSET (1 .. 0) : s = {}
        OBVIOUS
      <4>2. h = Def(h, 0)
        BY <4>1
      <4>3. QED
        BY <3>3, <3>4, <4>2
    <3>5. CASE k # 0
      <4>1. k - 1 \in 0 .. n /\ k - 1 \in Nat /\ k \in 1 .. k /\ ~(k <= k - 1)
        BY <1>1, <3>3, <3>5
      <4>2. k - 1 \notin bad
        BY <3>2, <4>1
      <4>3. PICK g : g = Def(g, k - 1)
        BY <4>1, <4>2
      <4> DEFINE h == [s \in SUBSET (1 .. k) |->
                         IF k \in s THEN recordEvent(g[s \ {k}], said[k]) ELSE g[s]]
      <4>4. ASSUME NEW s \in SUBSET (1 .. k)
            PROVE  h[s] = IF s = {} THEN log
                          ELSE recordEvent(h[s \ {Max(s)}], said[Max(s)])
        <5>1. \A r \in SUBSET (1 .. k) : k \notin r => r \in SUBSET (1 .. k - 1)
          BY <3>3
        <5>2. \A r \in SUBSET (1 .. k) : k \notin r => h[r] = g[r]
          OBVIOUS
        <5>3. \A r \in SUBSET (1 .. k - 1) :
                g[r] = IF r = {} THEN log ELSE recordEvent(g[r \ {Max(r)}], said[Max(r)])
          BY <4>3
        <5>4. s # {} => Max(s) \in s /\ \A y \in s : y <= Max(s)
          BY <3>3, Greatest
        <5>5. h[s] = IF k \in s THEN recordEvent(g[s \ {k}], said[k]) ELSE g[s]
          OBVIOUS
        <5>6. s \ {Max(s)} \in SUBSET (1 .. k) /\ s \ {k} \in SUBSET (1 .. k)
          OBVIOUS
        <5> HIDE DEF h
        <5>7. CASE k \in s
          <6>1. s # {} /\ Max(s) \in 1 .. k /\ k <= Max(s)
            BY <5>4, <5>7
          <6>2. Max(s) = k
            BY <3>3, <6>1
          <6>3. h[s \ {k}] = g[s \ {k}]
            BY <5>2, <5>6
          <6>4. QED
            BY <5>5, <5>7, <6>1, <6>2, <6>3
        <5>8. CASE k \notin s
          <6>1. s \in SUBSET (1 .. k - 1)
            BY <5>1, <5>8
          <6>2. h[s] = IF s = {} THEN log ELSE recordEvent(g[s \ {Max(s)}], said[Max(s)])
            BY <5>3, <5>5, <5>8, <6>1
          <6>3. h[s \ {Max(s)}] = g[s \ {Max(s)}]
            BY <5>2, <5>6, <5>8
          <6>4. QED
            BY <6>2, <6>3
        <5>9. QED
          BY <5>7, <5>8
      <4>5. h = Def(h, k)
        <5>1. h = [s \in SUBSET (1 .. k) |-> h[s]]
          OBVIOUS
        <5> HIDE DEF h
        <5>2. QED
          BY <4>4, <5>1, Zenon
      <4>6. QED
        BY <3>3, <4>5
    <3>6. QED
      BY <3>4, <3>5
  <2>2. n \in 0 .. n
    BY <1>1
  <2>3. QED
    BY <2>1, <2>2
<1>4. PICK g : g = (CHOOSE f : f = Def(f, n)) /\ g = Def(g, n)
  BY <1>3
<1>5. \A s \in SUBSET (1 .. n) :
        g[s] = IF s = {} THEN log ELSE recordEvent(g[s \ {Max(s)}], said[Max(s)])
  BY <1>4
<1> HIDE DEF Def
<1>6. EventsOK(g[1 .. n])
  <2> DEFINE bad == {k \in 0 .. n : ~ EventsOK(g[1 .. k])}
  <2>1. bad = {}
    <3> SUFFICES ASSUME bad # {} PROVE FALSE
      OBVIOUS
    <3>1. bad \in SUBSET Nat
      BY <1>1
    <3>2. PICK k \in bad : \A j \in bad : k <= j
      BY <3>1, Least
    <3>3. k \in 0 .. n /\ k \in Nat /\ ~ EventsOK(g[1 .. k])
      BY <1>1
    <3>4. 1 .. k \in SUBSET (1 .. n)
      BY <1>1, <3>3
    <3>5. CASE k = 0
      <4>1. 1 .. k = {}
        BY <3>5
      <4>2. QED
        BY <1>5, <3>3, <3>4, <4>1
    <3>6. CASE k # 0
      <4>1. /\ k - 1 \in 0 .. n /\ k \in 1 .. k /\ ~(k <= k - 1) /\ k \in 1 .. n
            /\ (1 .. k) \ {k} = 1 .. k - 1
        BY <1>1, <3>3, <3>6
      <4>2. EventsOK(g[1 .. k - 1])
        BY <3>2, <4>1
      <4>3. Max(1 .. k) = k
        <5>1. Max(1 .. k) \in 1 .. k /\ k <= Max(1 .. k)
          BY <3>3, <4>1, Greatest
        <5>2. QED
          BY <3>3, <5>1
      <4>4. 1 .. k # {}
        BY <4>1
      <4>5. g[1 .. k] = recordEvent(g[1 .. k - 1], said[k])
        BY <1>5, <3>4, <4>1, <4>3, <4>4
      <4>6. said[k] \in Messages
        BY <1>1, <4>1
      <4>7. EventsOK(recordEvent(g[1 .. k - 1], said[k]))
        BY <4>2, <4>6, RecordOK
      <4>8. QED
        BY <3>3, <4>5, <4>7
    <3>7. QED
      BY <3>5, <3>6
  <2>2. n \in 0 .. n
    BY <1>1
  <2>3. QED
    BY <2>1, <2>2
<1>7. QED
  BY <1>2, <1>4, <1>6

-----------------------------------------------------------------------------
(* The files, and the steps.                                                *)

\* What may be in the files after a write: of those that are written together,
\* and none of them ever cut, the second is not missing when the third is there.
LEMMA FilesWritten ==
  ASSUME NEW next, NEW W \in SUBSET (1 .. 3), WriteFiles(next, W)
  PROVE  /\ \A i \in 1 .. 3 : \/ disk'[i] = disk[i]
                              \/ i \in W /\ disk'[i] \in {next[i], Unreadable}
         /\ ~ cut' => /\ ~ cut
                      /\ \A i \in {2, 3} : disk'[i] \in {disk[i], next[i]}
                      /\ (2 \in W <=> 3 \in W) =>
                           \/ disk'[2] = disk[2] /\ disk'[3] = disk[3]
                           \/ disk'[2] = next[2]
                           \/ disk'[2] = disk[2] /\ disk[2] # Unreadable
<1> DEFINE Goal ==
           /\ \A i \in 1 .. 3 : \/ disk'[i] = disk[i]
                                \/ i \in W /\ disk'[i] \in {next[i], Unreadable}
           /\ ~ cut' => /\ ~ cut
                        /\ \A i \in {2, 3} : disk'[i] \in {disk[i], next[i]}
                        /\ (2 \in W <=> 3 \in W) =>
                             \/ disk'[2] = disk[2] /\ disk'[3] = disk[3]
                             \/ disk'[2] = next[2]
                             \/ disk'[2] = disk[2] /\ disk[2] # Unreadable
<1>1. 2 \in 1 .. 3 /\ 3 \in 1 .. 3 /\ 2 > 1 /\ 3 > 1 /\ 2 < 3
  OBVIOUS
<1>2. ASSUME disk' = [i \in 1 .. 3 |-> IF i \in W THEN next[i] ELSE disk[i]], cut' = cut
      PROVE  Goal
  <2>1. \A i \in 1 .. 3 : disk'[i] = IF i \in W THEN next[i] ELSE disk[i]
    BY <1>2
  <2>2. QED
    BY <1>1, <1>2, <2>1, Zenon
<1>3. ASSUME NEW f \in W, NEW on \in BOOLEAN, NEW left \in {Unreadable, disk[f]},
             cut' = (cut \/ (f > 1 /\ left = Unreadable)),
             disk' = [i \in 1 .. 3 |-> IF i = f THEN left
                                       ELSE IF i \in W /\ (i < f \/ on) THEN next[i] ELSE disk[i]]
      PROVE  Goal
  <2>1. \A i \in 1 .. 3 : disk'[i] = IF i = f THEN left
                                     ELSE IF i \in W /\ (i < f \/ on) THEN next[i] ELSE disk[i]
    BY <1>3
  <2>2. \A i \in 1 .. 3 : \/ disk'[i] = disk[i]
                          \/ i \in W /\ disk'[i] \in {next[i], Unreadable}
    BY <2>1
  <2>3. ASSUME ~ cut'
        PROVE  ~ cut /\ (f > 1 => left # Unreadable)
    BY <1>3, <2>3, Zenon
  <2>4. f \in {1, 2, 3}
    OBVIOUS
  <2>5. ~ cut' => \A i \in {2, 3} : disk'[i] \in {disk[i], next[i]}
    BY <2>1, <2>3
  <2>6. ASSUME ~ cut', 2 \in W <=> 3 \in W
        PROVE  \/ disk'[2] = disk[2] /\ disk'[3] = disk[3]
               \/ disk'[2] = next[2]
               \/ disk'[2] = disk[2] /\ disk[2] # Unreadable
    <3>1. CASE f = 1
      BY <2>1, <2>6, <3>1
    <3>2. CASE f = 2
      BY <2>1, <2>3, <2>6, <3>2
    <3>3. CASE f = 3
      BY <2>1, <2>6, <3>3
    <3>4. QED
      BY <2>4, <3>1, <3>2, <3>3
  <2>7. QED
    BY <2>2, <2>3, <2>5, <2>6, Zenon
<1> HIDE DEF Goal
<1>4. Goal
  <2> DEFINE Whole == disk' = [i \in 1 .. 3 |-> IF i \in W THEN next[i] ELSE disk[i]]
             Left(f, on, left) ==
               disk' = [i \in 1 .. 3 |-> IF i = f THEN left
                                         ELSE IF i \in W /\ (i < f \/ on) THEN next[i] ELSE disk[i]]
  <2>1. Whole /\ cut' = cut => Goal
    BY <1>2
  <2>2. \A f \in W, on \in BOOLEAN : \A left \in {Unreadable, disk[f]} :
          cut' = (cut \/ (f > 1 /\ left = Unreadable)) /\ Left(f, on, left) => Goal
    BY <1>3
  <2>3. \/ Whole /\ up' = TRUE /\ UNCHANGED <<faults, cut>>
        \/ \E f \in W, on \in BOOLEAN : \E left \in {Unreadable, disk[f]} :
             /\ Fault
             /\ cut' = (cut \/ (f > 1 /\ left = Unreadable))
             /\ up' = on
             /\ Left(f, on, left)
    BY DEF WriteFiles
  <2> HIDE DEF Whole, Left
  <2>4. QED
    BY <2>1, <2>2, <2>3, Zenon
<1>5. QED
  BY <1>4 DEF Goal

\* In short: its new content, its old one or nothing.
LEMMA FileIs ==
  ASSUME NEW next, NEW W \in SUBSET (1 .. 3), WriteFiles(next, W)
  PROVE  \A i \in 1 .. 3 : disk'[i] \in {next[i], disk[i], Unreadable}
<1>1. \A i \in 1 .. 3 : \/ disk'[i] = disk[i]
                        \/ i \in W /\ disk'[i] \in {next[i], Unreadable}
  BY FilesWritten, Zenon
<1>2. QED
  BY <1>1, Zenon

\* A message alone is a list of messages.
LEMMA MessageIsSeq ==
  ASSUME NEW S
  PROVE  <<>> \in Seq(S) /\ \A x \in S : <<x>> \in Seq(S)
  OBVIOUS

\* What Status records is a list of messages, and its sample is one of now.
LEMMA StatusRecords ==
  ASSUME NEW dish \in DishStates, NEW online, NEW believed, now \in Nat
  PROVE  /\ outageMessage(dish) \o newAlertEvents(dish) \o probeDishHTTP(dish)
              \o UplinkEvents(dish, online, believed) \in Seq(Messages)
         /\ Sample(dish) \in Point /\ Sample(dish).t = now /\ dish.api \in BOOLEAN
<1>1. dish.api \in BOOLEAN /\ dish.rate \in Nat
  BY StarlinkAssumption
<1>2. /\ outageMessage(dish) \in Seq(Messages) /\ newAlertEvents(dish) \in Seq(Messages)
      /\ probeDishHTTP(dish) \in Seq(Messages) /\ UplinkEvents(dish, online, believed) \in Seq(Messages)
  <2>1. <<>> \in Seq(Messages) /\ \A x \in Messages : <<x>> \in Seq(Messages)
    BY MessageIsSeq
  <2>2. {"outage", "alert", "web only", "unreachable", "foreign", "no internet"} \subseteq Messages
    BY DEF Messages
  <2>3. /\ <<"outage">> \in Seq(Messages) /\ <<"alert">> \in Seq(Messages)
        /\ <<"web only">> \in Seq(Messages) /\ <<"unreachable">> \in Seq(Messages)
        /\ <<"foreign">> \in Seq(Messages) /\ <<"no internet">> \in Seq(Messages)
    BY <2>1, <2>2, Zenon
  <2>4. outageMessage(dish) \in Seq(Messages)
    BY <2>1, <2>3, Zenon DEF outageMessage
  <2>5. newAlertEvents(dish) \in Seq(Messages)
    BY <2>1, <2>3, Zenon DEF newAlertEvents
  <2>6. probeDishHTTP(dish) \in Seq(Messages)
    BY <2>1, <2>3, Zenon DEF probeDishHTTP
  <2>7. UplinkEvents(dish, online, believed) \in Seq(Messages)
    BY <2>1, <2>3, Zenon DEF UplinkEvents
  <2>8. QED
    BY <2>4, <2>5, <2>6, <2>7
<1>3. outageMessage(dish) \o newAlertEvents(dish) \in Seq(Messages)
  BY <1>2, ConcatProperties
<1>4. outageMessage(dish) \o newAlertEvents(dish) \o probeDishHTTP(dish) \in Seq(Messages)
  BY <1>2, <1>3, ConcatProperties
<1>5. outageMessage(dish) \o newAlertEvents(dish) \o probeDishHTTP(dish)
        \o UplinkEvents(dish, online, believed) \in Seq(Messages)
  BY <1>2, <1>4, ConcatProperties
<1>6. Sample(dish) \in Point /\ Sample(dish).t = now
  BY <1>1 DEF Sample, Point
<1>7. QED
  BY <1>1, <1>5, <1>6

\* A good log stays good while the clock advances.
LEMMA LaterOK ==
  ASSUME now \in Nat, now' \in Nat, now <= now', NEW CONSTANT s
  PROVE  /\ EventsOK(s) => EventsOK(s)'
         /\ HistoryOK(s) => HistoryOK(s)'
         /\ MinutesOK(s) => MinutesOK(s)'
<1>1. ASSUME EventsOK(s) PROVE EventsOK(s)'
  <2>1. \A i \in 1 .. Len(s) : s[i].t \in Nat
    <3>1. s \in Seq(Event)
      BY <1>1 DEF EventsOK
    <3>2. \A x \in Event : x.t \in Nat
      BY DEF Event
    <3>3. QED
      BY <3>1, <3>2, ElementOfSeq
  <2>2. \A i \in 1 .. Len(s) : s[i].t <= now'
    BY <1>1, <2>1 DEF EventsOK
  <2>3. QED
    BY <1>1, <2>2 DEF EventsOK
<1>2. ASSUME HistoryOK(s) PROVE HistoryOK(s)'
  <2>1. \A i \in 1 .. Len(s) : s[i].t \in Nat
    <3>1. s \in Seq(Point)
      BY <1>2 DEF HistoryOK
    <3>2. \A x \in Point : x.t \in Nat
      BY DEF Point
    <3>3. QED
      BY <3>1, <3>2, ElementOfSeq
  <2>2. \A i \in 1 .. Len(s) : s[i].t <= now'
    BY <1>2, <2>1 DEF HistoryOK
  <2>3. QED
    BY <1>2, <2>2 DEF HistoryOK
<1>3. ASSUME MinutesOK(s) PROVE MinutesOK(s)'
  <2>1. \A i \in 1 .. Len(s) : s[i].t \in Nat
    <3>1. s \in Seq(Bucket)
      BY <1>3 DEF MinutesOK
    <3>2. \A x \in Bucket : x.t \in Nat
      BY DEF Bucket
    <3>3. QED
      BY <3>1, <3>2, ElementOfSeq
  <2>2. /\ Truncate(now, Minute) \in Nat /\ Truncate(now', Minute) \in Nat
        /\ Truncate(now, Minute) <= Truncate(now', Minute)
    <3>1. Minute \in Nat \ {0} /\ now' <= now'
      BY StarlinkAssumption
    <3>2. QED
      BY <3>1, TruncateOrder
  <2>3. \A i \in 1 .. Len(s) : s[i].t <= Truncate(now', Minute)
    BY <1>3, <2>1, <2>2 DEF MinutesOK
  <2>4. QED
    BY <1>3, <2>3 DEF MinutesOK, Increasing
<1>4. QED
  BY <1>1, <1>2, <1>3

\* The logs are good after a step that leaves good logs in memory, and in every
\* file its new content, its old one or nothing.
LEMMA LogsKept ==
  ASSUME LogsOK, now' \in Nat, now <= now',
         NEW CONSTANT e, NEW CONSTANT h, NEW CONSTANT m, EventsOK(e), HistoryOK(h), MinutesOK(m),
         events' = e, history' = h, minutes' = m,
         disk'[1] \in {e, disk[1], Unreadable},
         disk'[2] \in {h, disk[2], Unreadable},
         disk'[3] \in {m, disk[3], Unreadable}
  PROVE  LogsOK'
<1>1. now \in Nat
  BY DEF LogsOK
<1>2. EventsOK(events)' /\ HistoryOK(history)' /\ MinutesOK(minutes)'
  <2>1. EventsOK(e)' /\ HistoryOK(h)' /\ MinutesOK(m)'
    BY <1>1, LaterOK
  <2>2. QED
    BY <2>1 DEF EventsOK, HistoryOK, MinutesOK
<1>3. ASSUME disk'[1] # Unreadable PROVE EventsOK(disk[1])'
  <2>1. PICK d : d = disk'[1]
    OBVIOUS
  <2>2. EventsOK(d)
    BY <1>3, <2>1 DEF LogsOK
  <2>3. EventsOK(d)'
    BY <1>1, <2>2, LaterOK
  <2>4. QED
    BY <2>1, <2>3 DEF EventsOK
<1>4. ASSUME disk'[2] # Unreadable PROVE HistoryOK(disk[2])'
  <2>1. PICK d : d = disk'[2]
    OBVIOUS
  <2>2. HistoryOK(d)
    BY <1>4, <2>1 DEF LogsOK
  <2>3. HistoryOK(d)'
    BY <1>1, <2>2, LaterOK
  <2>4. QED
    BY <2>1, <2>3 DEF HistoryOK
<1>5. ASSUME disk'[3] # Unreadable PROVE MinutesOK(disk[3])'
  <2>1. PICK d : d = disk'[3]
    OBVIOUS
  <2>2. MinutesOK(d)
    BY <1>5, <2>1 DEF LogsOK
  <2>3. MinutesOK(d)'
    BY <1>1, <2>2, LaterOK
  <2>4. QED
    BY <2>1, <2>3 DEF MinutesOK
<1>6. QED
  BY <1>2, <1>3, <1>4, <1>5 DEF LogsOK

\* Empty logs are good.
LEMMA EmptyOK ==
  EventsOK(<<>>) /\ HistoryOK(<<>>) /\ MinutesOK(<<>>)
<1>1. /\ Len(<<>>) = 0 /\ DOMAIN <<>> = {}
      /\ <<>> \in Seq(Event) /\ <<>> \in Seq(Point) /\ <<>> \in Seq(Bucket)
  BY EmptySeq, LenProperties
<1>2. QED
  BY <1>1 DEF EventsOK, HistoryOK, MinutesOK, Increasing

\* What a Status leaves in memory and in the files.
LEMMA StatusLogs ==
  ASSUME LogsOK, NEW dish \in DishStates, NEW online, NEW answer, Status(dish, online, answer)
  PROVE  \E e, h, m :
           /\ EventsOK(e) /\ HistoryOK(h) /\ MinutesOK(m)
           /\ events' = e /\ history' = h /\ minutes' = m
           /\ \A x \in Times(minutes) \cup {Truncate(now, Minute)} :
                x + MinuteRetention >= now => x \in Times(m)
           /\ \E W \in SUBSET (1 .. 3) : (2 \in W <=> 3 \in W) /\ WriteFiles(<<e, h, m>>, W)
           /\ kept' = {x \in kept \cup (IF disk'[3] = m THEN {Truncate(now, Minute)} ELSE {}) :
                         x + MinuteRetention >= now}
<1> DEFINE believed == detectProvider(answer)
           said == outageMessage(dish) \o newAlertEvents(dish) \o probeDishHTTP(dish)
                     \o UplinkEvents(dish, online, believed)
           e == FoldLeft(recordEvent, events, said)
           sample == Sample(dish)
           h == IF Repeats(sample) THEN history ELSE AppendRaw(sample)
           m == updateMinuteBucket(dish.api)
           W == (IF said = <<>> THEN {} ELSE {1}) \cup (IF Repeats(sample) THEN {} ELSE {2, 3})
<1>1. /\ events' = e /\ history' = h /\ minutes' = m
      /\ WriteFiles(<<e, h, m>>, W)
      /\ kept' = {x \in kept \cup (IF disk'[3] = m THEN {Truncate(now, Minute)} ELSE {}) :
                    x + MinuteRetention >= now}
  BY Zenon DEF Status
<1>2. now \in Nat /\ EventsOK(events) /\ HistoryOK(history) /\ MinutesOK(minutes)
  BY DEF LogsOK
<1>3. said \in Seq(Messages) /\ sample \in Point /\ sample.t = now /\ dish.api \in BOOLEAN
  BY <1>2, StatusRecords
<1>4. W \in SUBSET (1 .. 3) /\ (2 \in W <=> 3 \in W)
  OBVIOUS
<1> HIDE DEF said, sample, W
<1>5. EventsOK(e)
  BY <1>2, <1>3, FoldOK
<1>6. HistoryOK(h)
  BY <1>2, <1>3, AppendRawOK
<1>7. /\ MinutesOK(m)
      /\ \A x \in Times(minutes) \cup {Truncate(now, Minute)} :
           x + MinuteRetention >= now => x \in Times(m)
  BY <1>2, <1>3, BucketOK
<1> HIDE DEF e, h, m
<1>8. QED
  BY <1>1, <1>4, <1>5, <1>6, <1>7

\* Every step keeps the logs good.
LEMMA LogsStep ==
  ASSUME LogsOK, [Next]_vars
  PROVE  LogsOK'
<1>1. now \in Nat /\ EventsOK(events) /\ HistoryOK(history) /\ MinutesOK(minutes)
  BY DEF LogsOK
<1>2. /\ disk[1] # Unreadable => EventsOK(disk[1])
      /\ disk[2] # Unreadable => HistoryOK(disk[2])
      /\ disk[3] # Unreadable => MinutesOK(disk[3])
  BY DEF LogsOK
<1>3. ASSUME NEW dish \in DishStates, NEW online \in BOOLEAN, NEW answer \in MayAnswer(online),
             Status(dish, online, answer)
      PROVE  LogsOK'
  <2>1. PICK e, h, m : /\ EventsOK(e) /\ HistoryOK(h) /\ MinutesOK(m)
                       /\ events' = e /\ history' = h /\ minutes' = m
                       /\ \E W \in SUBSET (1 .. 3) : WriteFiles(<<e, h, m>>, W)
    BY <1>3, StatusLogs, Zenon
  <2>2. PICK W \in SUBSET (1 .. 3) : WriteFiles(<<e, h, m>>, W)
    BY <2>1, Zenon
  <2>3. \A i \in 1 .. 3 : disk'[i] \in {<<e, h, m>>[i], disk[i], Unreadable}
    BY <2>2, FileIs, Zenon
  <2>4. /\ disk'[1] \in {e, disk[1], Unreadable} /\ disk'[2] \in {h, disk[2], Unreadable}
        /\ disk'[3] \in {m, disk[3], Unreadable}
    BY <2>3
  <2>5. now' = now
    BY <1>3, Zenon DEF Status
  <2>6. now' \in Nat /\ now <= now'
    BY <1>1, <2>5
  <2>7. QED
    BY <2>1, <2>4, <2>6, LogsKept
<1>4. ASSUME NEW message \in Messages, events' = recordEvent(events, message),
             WriteFiles(<<events', history, minutes>>, {1}), UNCHANGED <<now, history, minutes>>
      PROVE  LogsOK'
  <2>1. PICK e, h, m : e = events' /\ h = history /\ m = minutes
    OBVIOUS
  <2>2. EventsOK(e) /\ HistoryOK(h) /\ MinutesOK(m)
    BY <1>1, <1>4, <2>1, RecordOK
  <2>3. WriteFiles(<<e, h, m>>, {1}) /\ {1} \in SUBSET (1 .. 3)
    BY <1>4, <2>1
  <2>4. \A i \in 1 .. 3 : disk'[i] \in {<<e, h, m>>[i], disk[i], Unreadable}
    BY <2>3, FileIs, Zenon
  <2>5. /\ disk'[1] \in {e, disk[1], Unreadable} /\ disk'[2] \in {h, disk[2], Unreadable}
        /\ disk'[3] \in {m, disk[3], Unreadable}
    BY <2>4
  <2>6. now' \in Nat /\ now <= now'
    BY <1>1, <1>4
  <2>7. QED
    BY <1>4, <2>1, <2>2, <2>5, <2>6, LogsKept
<1>5. CASE RebootFail
  <2>1. "reboot failed" \in Messages
    BY DEF Messages
  <2>2. QED
    BY <1>4, <1>5, <2>1 DEF RebootFail
<1>6. CASE RebootDone
  <2>1. "reboot" \in Messages
    BY DEF Messages
  <2>2. QED
    BY <1>4, <1>6, <2>1 DEF RebootDone
<1>7. ASSUME now' \in Nat, now <= now', UNCHANGED <<events, history, minutes, disk>>
      PROVE  LogsOK'
  <2>1. PICK e, h, m : e = events /\ h = history /\ m = minutes
    OBVIOUS
  <2>2. QED
    BY <1>1, <1>7, <2>1, LogsKept
<1>8. CASE Restart
  <2>1. PICK e, h, m : e = events' /\ h = history' /\ m = minutes'
    OBVIOUS
  <2>2. EventsOK(e) /\ HistoryOK(h) /\ MinutesOK(m)
    BY <1>2, <1>8, <2>1, EmptyOK, Zenon DEF Restart, Readable, loadHistory
  <2>3. disk' = disk /\ now' = now
    BY <1>8 DEF Restart
  <2>4. now' \in Nat /\ now <= now'
    BY <1>1, <2>3
  <2>5. QED
    BY <2>1, <2>2, <2>3, <2>4, LogsKept
<1>9. CASE RebootSend \/ Crash \/ Tick \/ UNCHANGED vars
  <2>1. (now' = now \/ now' = now + 1) /\ UNCHANGED <<events, history, minutes, disk>>
    BY <1>9 DEF RebootSend, Crash, Tick, vars
  <2>2. QED
    BY <1>1, <1>7, <2>1
<1>10. QED
  BY <1>3, <1>5, <1>6, <1>8, <1>9, Zenon DEF Next

-----------------------------------------------------------------------------
(* The week.                                                                *)

\* As long as no history file was cut, the minutes that were saved are in the file
\* of minutes, which is only there when the file of samples is: a restart that
\* cannot read the samples does not read the minutes. While the service runs they
\* are in memory too, so that the next write does not lose them.
SurvivesOK ==
  /\ kept \subseteq Nat
  /\ ~ cut =>
       /\ disk[2] = Unreadable => disk[3] = Unreadable
       /\ \A x \in kept : x + MinuteRetention >= now =>
            /\ disk[3] # Unreadable /\ x \in Times(disk[3])
            /\ up => x \in Times(minutes)

LEMMA SurvivesStep ==
  ASSUME LogsOK, SurvivesOK, [Next]_vars
  PROVE  SurvivesOK'
<1>1. now \in Nat /\ MinuteRetention \in Nat /\ Truncate(now, Minute) \in Nat /\ kept \subseteq Nat
  <2>1. now \in Nat /\ now <= now /\ MinuteRetention \in Nat /\ Minute \in Nat \ {0}
    BY StarlinkAssumption DEF LogsOK
  <2>2. QED
    BY <2>1, TruncateOrder DEF SurvivesOK
<1>2. ASSUME ~ cut
      PROVE  /\ disk[2] = Unreadable => disk[3] = Unreadable
             /\ \A x \in kept : x + MinuteRetention >= now =>
                  /\ disk[3] # Unreadable /\ x \in Times(disk[3])
                  /\ up => x \in Times(minutes)
  BY <1>2, Zenon DEF SurvivesOK
<1>3. ASSUME NEW dish \in DishStates, NEW online \in BOOLEAN, NEW answer \in MayAnswer(online),
             Status(dish, online, answer)
      PROVE  SurvivesOK'
  <2>1. PICK e, h, m :
          /\ EventsOK(e) /\ HistoryOK(h) /\ MinutesOK(m)
          /\ events' = e /\ history' = h /\ minutes' = m
          /\ \A x \in Times(minutes) \cup {Truncate(now, Minute)} :
               x + MinuteRetention >= now => x \in Times(m)
          /\ \E W \in SUBSET (1 .. 3) : (2 \in W <=> 3 \in W) /\ WriteFiles(<<e, h, m>>, W)
          /\ kept' = {x \in kept \cup (IF disk'[3] = m THEN {Truncate(now, Minute)} ELSE {}) :
                        x + MinuteRetention >= now}
    BY <1>3, StatusLogs, Zenon
  <2>2. PICK W \in SUBSET (1 .. 3) : (2 \in W <=> 3 \in W) /\ WriteFiles(<<e, h, m>>, W)
    BY <2>1, Zenon
  <2>3. h # Unreadable /\ m # Unreadable
    BY <2>1, StarlinkAssumption DEF HistoryOK, MinutesOK, Point, Bucket
  <2>4. up /\ now' = now
    BY <1>3, Zenon DEF Status
  <2>5. kept' \subseteq Nat
    BY <1>1, <2>1
  <2>6. ASSUME ~ cut'
        PROVE  /\ disk'[2] = Unreadable => disk'[3] = Unreadable
               /\ \A x \in kept' : x + MinuteRetention >= now =>
                    disk'[3] # Unreadable /\ x \in Times(disk'[3]) /\ x \in Times(minutes')
    <3>1. /\ ~ cut
          /\ \A i \in {2, 3} : disk'[i] \in {disk[i], <<e, h, m>>[i]}
          /\ \/ disk'[2] = disk[2] /\ disk'[3] = disk[3]
             \/ disk'[2] = <<e, h, m>>[2]
             \/ disk'[2] = disk[2] /\ disk[2] # Unreadable
      BY <2>2, <2>6, FilesWritten, Zenon
    <3>2. /\ disk'[3] \in {disk[3], m}
          /\ \/ disk'[2] = disk[2] /\ disk'[3] = disk[3]
             \/ disk'[2] = h
             \/ disk'[2] = disk[2] /\ disk[2] # Unreadable
      BY <3>1
    <3>3. disk'[2] = Unreadable => disk'[3] = Unreadable
      BY <1>2, <2>3, <3>1, <3>2, Zenon
    <3>4. ASSUME NEW x \in kept', x + MinuteRetention >= now
          PROVE  disk'[3] # Unreadable /\ x \in Times(disk'[3]) /\ x \in Times(m)
      <4>1. x \in kept \/ (x = Truncate(now, Minute) /\ disk'[3] = m)
        BY <2>1, Zenon
      <4>2. CASE x \in kept
        <5>1. disk[3] # Unreadable /\ x \in Times(disk[3]) /\ x \in Times(minutes)
          BY <1>2, <2>4, <3>1, <3>4, <4>2, Zenon
        <5>2. x \in Times(m)
          BY <2>1, <3>4, <5>1, Zenon
        <5>3. QED
          BY <2>3, <3>2, <5>1, <5>2, Zenon
      <4>3. CASE x = Truncate(now, Minute) /\ disk'[3] = m
        <5>1. x \in Times(m)
          BY <2>1, <3>4, <4>3, Zenon
        <5>2. QED
          BY <2>3, <4>3, <5>1, Zenon
      <4>4. QED
        BY <4>1, <4>2, <4>3
    <3>5. QED
      BY <2>1, <3>3, <3>4, Zenon
  <2>7. QED
    BY <2>4, <2>5, <2>6, Zenon DEF SurvivesOK, Times
<1>4. ASSUME up, WriteFiles(<<events', history, minutes>>, {1}), UNCHANGED <<now, minutes, kept>>
      PROVE  SurvivesOK'
  <2>1. PICK next : next = <<events', history, minutes>>
    OBVIOUS
  <2>2. WriteFiles(next, {1}) /\ {1} \in SUBSET (1 .. 3)
    BY <1>4, <2>1
  <2>3. /\ \A i \in 1 .. 3 : disk'[i] = disk[i] \/ i \in {1}
        /\ ~ cut' => ~ cut
    BY <2>2, FilesWritten, Zenon
  <2>4. disk'[2] = disk[2] /\ disk'[3] = disk[3]
    BY <2>3
  <2>5. QED
    BY <1>1, <1>2, <1>4, <2>3, <2>4, ZenonT(30) DEF SurvivesOK, Times
<1>5. CASE RebootFail
  BY <1>4, <1>5, Zenon DEF RebootFail
<1>6. CASE RebootDone
  BY <1>4, <1>6, Zenon DEF RebootDone
<1>7. CASE Restart
  <2>1. /\ minutes' = loadHistory /\ UNCHANGED <<now, disk, kept, cut>>
    BY <1>7 DEF Restart
  <2>2. ASSUME ~ cut, NEW x \in kept, x + MinuteRetention >= now
        PROVE  x \in Times(minutes')
    <3>1. disk[3] # Unreadable /\ disk[2] # Unreadable /\ x \in Times(disk[3])
      BY <1>2, <2>2, Zenon
    <3>2. QED
      BY <2>1, <3>1, Zenon DEF loadHistory, Readable
  <2>3. QED
    BY <1>1, <1>2, <2>1, <2>2, Zenon DEF SurvivesOK, Times
<1>8. CASE Tick
  <2>1. now' = now + 1 /\ UNCHANGED <<up, minutes, disk, kept, cut>>
    BY <1>8 DEF Tick
  <2>2. \A x \in kept : x + MinuteRetention >= now' => x + MinuteRetention >= now
    BY <1>1, <2>1
  <2>3. QED
    BY <1>1, <1>2, <2>1, <2>2, Zenon DEF SurvivesOK, Times
<1>9. CASE RebootSend \/ UNCHANGED vars
  <2>1. UNCHANGED <<now, up, minutes, disk, kept, cut>>
    BY <1>9 DEF RebootSend, vars
  <2>2. QED
    BY <1>1, <1>2, <2>1, Zenon DEF SurvivesOK, Times
<1>10. CASE Crash
  <2>1. ~ up' /\ UNCHANGED <<now, disk, kept, cut>>
    BY <1>10 DEF Crash
  <2>2. QED
    BY <1>1, <1>2, <2>1, Zenon DEF SurvivesOK, Times
<1>11. QED
  BY <1>3, <1>5, <1>6, <1>7, <1>8, <1>9, <1>10, Zenon DEF Next

-----------------------------------------------------------------------------
(* The theorems.                                                            *)

LEMMA InitOK ==
  ASSUME Init
  PROVE  LogsOK /\ SurvivesOK /\ FreshAfterReboot
<1>1. /\ now \in Nat /\ events = <<>> /\ history = <<>> /\ minutes = <<>> /\ kept = {}
      /\ disk[1] = Unreadable /\ disk[2] = Unreadable /\ disk[3] = Unreadable
      /\ cached = None
  BY DEF Init
<1>2. LogsOK
  BY <1>1, EmptyOK, Zenon DEF LogsOK
<1>3. SurvivesOK
  BY <1>1, Zenon DEF SurvivesOK
<1>4. QED
  BY <1>1, <1>2, <1>3 DEF FreshAfterReboot

\* The logs in memory and in the files are good in every reachable state.
LEMMA LogsAlways == Spec => []LogsOK
<1>1. Init => LogsOK
  BY InitOK
<1>2. LogsOK /\ [Next]_vars => LogsOK'
  BY LogsStep
<1>3. QED
  BY <1>1, <1>2, PTL DEF Spec

\* The charts are in order, no minute appears twice and no sample is repeated within
\* the window: for every length of the minute, the windows and the retentions, after
\* any restarts on files that are old, new or cut.
THEOREM ChartsStayInOrder == Spec => []ChartsInOrder
<1>1. LogsOK => ChartsInOrder
  BY DEF LogsOK, HistoryOK, MinutesOK, ChartsInOrder
<1>2. QED
  BY <1>1, LogsAlways, PTL

\* The event log never repeats itself within the merge window, however many events
\* one Status records and whatever log a restart reads back.
THEOREM EventsStayMerged == Spec => []EventsAreMerged
<1>1. LogsOK => EventsAreMerged
  BY DEF LogsOK, EventsOK, EventsAreMerged
<1>2. QED
  BY <1>1, LogsAlways, PTL

\* Every saved minute of the last week is in memory while the service runs, as long
\* as no history file was cut, after any crashes and failed writes.
THEOREM SavedWeekSurvives == Spec => []WeekSurvives
<1>1. Init => SurvivesOK
  BY InitOK
<1>2. LogsOK /\ SurvivesOK /\ [Next]_vars => SurvivesOK'
  BY SurvivesStep
<1>3. SurvivesOK => WeekSurvives
  BY Zenon DEF SurvivesOK, WeekSurvives
<1>4. QED
  BY <1>1, <1>2, <1>3, LogsAlways, PTL DEF Spec

\* A status cached after Reboot returned was taken after the last acknowledged
\* reboot: a Status that overlaps the command is forgotten with it.
THEOREM RebootForgetsStatus == Spec => []FreshAfterReboot
<1>1. Init => FreshAfterReboot
  BY InitOK
<1>2. ASSUME FreshAfterReboot, [Next]_vars PROVE FreshAfterReboot'
  <2>1. ASSUME NEW dish \in DishStates, NEW online \in BOOLEAN, NEW answer \in MayAnswer(online),
               Status(dish, online, answer)
        PROVE  FreshAfterReboot'
    <3>1. cached' = [t |-> now, boot |-> boots] /\ boots' = boots
      BY <2>1, Zenon DEF Status
    <3>2. QED
      BY <3>1 DEF FreshAfterReboot
  <2>2. CASE RebootSend
    BY <2>2 DEF RebootSend, FreshAfterReboot
  <2>3. CASE RebootFail
    BY <1>2, <2>3, Zenon DEF RebootFail, FreshAfterReboot
  <2>4. CASE RebootDone
    BY <2>4 DEF RebootDone, FreshAfterReboot
  <2>5. CASE Crash
    BY <2>5 DEF Crash, FreshAfterReboot
  <2>6. CASE Restart
    BY <2>6 DEF Restart, FreshAfterReboot
  <2>7. CASE Tick \/ UNCHANGED vars
    <3>1. UNCHANGED <<up, cached, boots, rebooting>>
      BY <2>7 DEF Tick, vars
    <3>2. QED
      BY <1>2, <3>1, Zenon DEF FreshAfterReboot
  <2>8. QED
    BY <1>2, <2>1, <2>2, <2>3, <2>4, <2>5, <2>6, <2>7, Zenon DEF Next
<1>3. QED
  BY <1>1, <1>2, PTL DEF Spec

-----------------------------------------------------------------------------
(* The chart of the week: a filter and an aggregation, minute by minute.    *)

\* Induction up to n, for a set instead of a predicate.
LEMMA Induct ==
  ASSUME NEW n \in Nat, NEW S, 0 \in S, \A k \in 0 .. n : k < n /\ k \in S => k + 1 \in S
  PROVE  n \in S
<1> DEFINE T == {k \in 0 .. n : k \notin S}
<1>1. SUFFICES ASSUME n \notin S PROVE FALSE
  OBVIOUS
<1>2. n \in T /\ T \in SUBSET Nat
  BY <1>1
<1>3. PICK k \in T : \A j \in T : k <= j
  BY <1>2, Least
<1>4. k \in 0 .. n /\ k \notin S /\ k # 0
  OBVIOUS
<1>5. k - 1 \in 0 .. n /\ k - 1 < n /\ (k - 1) + 1 = k /\ ~(k <= k - 1)
  BY <1>4
<1>6. k - 1 \in S
  BY <1>3, <1>5
<1>7. QED
  BY <1>4, <1>5, <1>6

\* One turn of the two loops: the filter of Since and the sum of aggregateHourly.
Turn(loop, age, x, p) ==
  IF loop = "filter" THEN IF p.t + age >= now THEN Append(x, p) ELSE x
  ELSE AddToHour(x, p)

\* The equation that they compute with, on the first k elements.
Runs(g, loop, age, s, k) ==
  g = [i \in 0 .. k |-> IF i = 0 THEN <<>> ELSE Turn(loop, age, g[i - 1], s[i])]

\* The equation has a solution, which is built element by element.
LEMMA LoopExists ==
  ASSUME NEW loop, NEW age, NEW s, NEW n \in Nat
  PROVE  \E g : Runs(g, loop, age, s, n)
<1> DEFINE S == {k \in 0 .. n : \E g : Runs(g, loop, age, s, k)}
           Step(x, i) == Turn(loop, age, x, s[i])
<1>0. ASSUME NEW g, NEW k
      PROVE  Runs(g, loop, age, s, k)
               <=> g = [i \in 0 .. k |-> IF i = 0 THEN <<>> ELSE Step(g[i - 1], i)]
  BY DEF Runs
<1> HIDE DEF Step
<1>1. 0 \in S
  <2> DEFINE g == [i \in 0 .. 0 |-> <<>>]
  <2>1. \A i \in 0 .. 0 : i = 0
    OBVIOUS
  <2>2. g = [i \in 0 .. 0 |-> IF i = 0 THEN <<>> ELSE Step(g[i - 1], i)]
    BY <2>1
  <2>3. Runs(g, loop, age, s, 0)
    BY <1>0, <2>2
  <2> HIDE DEF g
  <2>4. QED
    BY <2>3
<1>2. ASSUME NEW k \in 0 .. n, k < n, k \in S
      PROVE  k + 1 \in S
  <2>1. PICK g : g = [i \in 0 .. k |-> IF i = 0 THEN <<>> ELSE Step(g[i - 1], i)]
    BY <1>0, <1>2
  <2> DEFINE h == [i \in 0 .. k + 1 |-> IF i <= k THEN g[i] ELSE Step(g[i - 1], i)]
  <2>2. \A i \in 0 .. k : g[i] = IF i = 0 THEN <<>> ELSE Step(g[i - 1], i)
    BY <2>1
  <2>3. ASSUME NEW i \in 0 .. k + 1
        PROVE  h[i] = IF i = 0 THEN <<>> ELSE Step(h[i - 1], i)
    <3>1. CASE i = 0
      <4>1. 0 \in 0 .. k /\ 0 \in 0 .. k + 1
        BY <1>2
      <4>2. h[0] = g[0]
        BY <1>2, <4>1
      <4>3. QED
        BY <2>2, <3>1, <4>1, <4>2
    <3>2. CASE i # 0
      <4>1. i - 1 \in 0 .. k /\ i - 1 \in 0 .. k + 1 /\ i - 1 <= k
        BY <1>2, <3>2
      <4>2. h[i - 1] = g[i - 1]
        BY <4>1
      <4>3. CASE i <= k
        <5>1. h[i] = g[i] /\ i \in 0 .. k
          BY <4>3
        <5> HIDE DEF h
        <5>2. QED
          BY <2>2, <3>2, <4>2, <5>1
      <4>4. CASE ~(i <= k)
        <5>1. h[i] = Step(g[i - 1], i)
          BY <4>4
        <5> HIDE DEF h
        <5>2. QED
          BY <3>2, <4>2, <5>1
      <4>5. QED
        BY <4>3, <4>4
    <3>3. QED
      BY <3>1, <3>2
  <2>4. PICK x : x = h
    OBVIOUS
  <2>5. x = [i \in 0 .. k + 1 |-> x[i]]
    BY <2>4
  <2>6. \A i \in 0 .. k + 1 : x[i] = IF i = 0 THEN <<>> ELSE Step(x[i - 1], i)
    BY <2>3, <2>4, Zenon
  <2> HIDE DEF h
  <2>7. x = [i \in 0 .. k + 1 |-> IF i = 0 THEN <<>> ELSE Step(x[i - 1], i)]
    BY <2>5, <2>6
  <2>8. k + 1 \in 0 .. n
    BY <1>2
  <2>9. Runs(x, loop, age, s, k + 1)
    BY <1>0, <2>7, Zenon
  <2>10. QED
    BY <2>8, <2>9
<1> HIDE DEF S
<1>3. n \in S
  BY <1>1, <1>2, Induct
<1>4. QED
  BY <1>3 DEF S

\* What the loops return, turn by turn.
FilterLoop(g, s, age) ==
  /\ Since(s, age) = g[Len(s)]
  /\ g[0] = <<>>
  /\ \A i \in 1 .. Len(s) :
       g[i] = IF s[i].t + age >= now THEN Append(g[i - 1], s[i]) ELSE g[i - 1]

SumLoop(g, s) ==
  /\ aggregateHourly(s) = g[Len(s)]
  /\ g[0] = <<>>
  /\ \A i \in 1 .. Len(s) : g[i] = AddToHour(g[i - 1], s[i])

LEMMA SinceIs ==
  ASSUME NEW s, NEW age, Len(s) \in Nat
  PROVE  \E g : FilterLoop(g, s, age)
<1> DEFINE Solves(g) == Runs(g, "filter", age, s, Len(s))
<1>1. \E g : Solves(g)
  BY LoopExists
<1>2. PICK g : g = CHOOSE x : Solves(x)
  OBVIOUS
<1>3. Solves(g)
  BY <1>1, <1>2
<1>4. Since(s, age) = g[Len(s)]
  BY <1>2 DEF Since, Runs, Turn
<1>5. \A i \in 0 .. Len(s) :
        g[i] = IF i = 0 THEN <<>>
               ELSE IF s[i].t + age >= now THEN Append(g[i - 1], s[i]) ELSE g[i - 1]
  BY <1>3 DEF Runs, Turn
<1>6. 0 \in 0 .. Len(s) /\ \A i \in 1 .. Len(s) : i \in 0 .. Len(s) /\ i # 0
  OBVIOUS
<1>7. g[0] = <<>>
  BY <1>5, <1>6
<1>8. \A i \in 1 .. Len(s) :
        g[i] = IF s[i].t + age >= now THEN Append(g[i - 1], s[i]) ELSE g[i - 1]
  BY <1>5, <1>6
<1>9. QED
  BY <1>4, <1>7, <1>8 DEF FilterLoop

LEMMA HourlyIs ==
  ASSUME NEW s, Len(s) \in Nat
  PROVE  \E g : SumLoop(g, s)
<1> DEFINE Solves(g) == Runs(g, "sum", 0, s, Len(s))
<1>1. \E g : Solves(g)
  BY LoopExists
<1>2. PICK g : g = CHOOSE x : Solves(x)
  OBVIOUS
<1>3. Solves(g)
  BY <1>1, <1>2
<1>4. aggregateHourly(s) = g[Len(s)]
  BY <1>2 DEF aggregateHourly, Runs, Turn
<1>5. \A i \in 0 .. Len(s) : g[i] = IF i = 0 THEN <<>> ELSE AddToHour(g[i - 1], s[i])
  BY <1>3 DEF Runs, Turn
<1>6. 0 \in 0 .. Len(s) /\ \A i \in 1 .. Len(s) : i \in 0 .. Len(s) /\ i # 0
  OBVIOUS
<1>7. g[0] = <<>>
  BY <1>5, <1>6
<1>8. \A i \in 1 .. Len(s) : g[i] = AddToHour(g[i - 1], s[i])
  BY <1>5, <1>6
<1>9. QED
  BY <1>4, <1>7, <1>8 DEF SumLoop

\* What is left of an increasing log when its old elements are taken out of it.
Filtered(r, s, n) ==
  /\ r \in Seq(Bucket)
  /\ Increasing(r)
  /\ \A k \in 1 .. Len(r) : \E i \in 1 .. n : r[k].t = s[i].t

LEMMA FilterStep ==
  ASSUME NEW s \in Seq(Bucket), Increasing(s), NEW r, NEW n \in Nat, n + 1 \in 1 .. Len(s),
         Filtered(r, s, n)
  PROVE  Filtered(r, s, n + 1) /\ Filtered(Append(r, s[n + 1]), s, n + 1)
<1> DEFINE e == s[n + 1]
<1>1. e \in Bucket
  OBVIOUS
<1>2. r \in Seq(Bucket)
  BY DEF Filtered
<1> DEFINE q == Append(r, e)
<1>3. /\ q \in Seq(Bucket) /\ Len(r) \in Nat
      /\ Len(q) = Len(r) + 1
      /\ \A i \in 1 .. Len(r) : q[i] = r[i]
      /\ q[Len(r) + 1] = e
  BY <1>1, <1>2, AppendIs
<1>4. \A k \in 1 .. Len(r) : \E i \in 1 .. n : r[k].t = s[i].t
  BY DEF Filtered
<1>5. \A i \in 1 .. n : i \in 1 .. n + 1 /\ i \in 1 .. Len(s) /\ i < n + 1
  OBVIOUS
<1>6. \A i \in 1 .. n : s[i].t < e.t
  <2>1. DOMAIN s = 1 .. Len(s)
    OBVIOUS
  <2>2. QED
    BY <1>5, <2>1 DEF Increasing
<1>7. \A k \in 1 .. Len(r) : \E i \in 1 .. n + 1 : r[k].t = s[i].t
  BY <1>4, <1>5
<1>8. Filtered(r, s, n + 1)
  BY <1>7 DEF Filtered
<1>9. \A k \in 1 .. Len(r) : r[k].t < e.t
  BY <1>4, <1>6
<1>10. \A i, j \in 1 .. Len(r) : i < j => r[i].t < r[j].t
  <2>1. DOMAIN r = 1 .. Len(r)
    BY <1>2
  <2>2. QED
    BY <2>1 DEF Filtered, Increasing
<1>11. DOMAIN q = 1 .. Len(r) + 1
  BY <1>3
<1> HIDE DEF q, e
<1>12. Increasing(q)
  <2> SUFFICES ASSUME NEW i \in 1 .. Len(r) + 1, NEW j \in 1 .. Len(r) + 1, i < j
               PROVE  q[i].t < q[j].t
    BY <1>11 DEF Increasing
  <2>1. i \in 1 .. Len(r)
    BY <1>3
  <2>2. CASE j \in 1 .. Len(r)
    BY <1>3, <1>10, <2>1, <2>2
  <2>3. CASE j = Len(r) + 1
    BY <1>3, <1>9, <2>1, <2>3
  <2>4. QED
    BY <1>3, <2>2, <2>3
<1>13. \A k \in 1 .. Len(q) : \E i \in 1 .. n + 1 : q[k].t = s[i].t
  <2> TAKE k \in 1 .. Len(q)
  <2>1. CASE k \in 1 .. Len(r)
    BY <1>3, <1>7, <2>1
  <2>2. CASE k = Len(r) + 1
    <3>1. n + 1 \in 1 .. n + 1
      OBVIOUS
    <3>2. QED
      BY <1>3, <2>2, <3>1 DEF e
  <2>3. QED
    BY <1>3, <2>1, <2>2
<1>14. Filtered(q, s, n + 1)
  BY <1>3, <1>12, <1>13 DEF Filtered
<1>15. QED
  BY <1>8, <1>14 DEF q, e

\* The chart is made of minutes in order.
LEMMA SinceOK ==
  ASSUME NEW s \in Seq(Bucket), Increasing(s), NEW age
  PROVE  Since(s, age) \in Seq(Bucket) /\ Increasing(Since(s, age))
<1>1. Len(s) \in Nat
  BY LenProperties
<1>0. PICK g : FilterLoop(g, s, age)
  BY <1>1, SinceIs
<1>2. /\ Since(s, age) = g[Len(s)]
      /\ g[0] = <<>>
      /\ \A i \in 1 .. Len(s) :
           g[i] = IF s[i].t + age >= now THEN Append(g[i - 1], s[i]) ELSE g[i - 1]
  BY <1>0 DEF FilterLoop
<1> DEFINE S == {k \in 0 .. Len(s) : Filtered(g[k], s, k)}
<1>3. 0 \in S
  <2>1. <<>> \in Seq(Bucket) /\ Len(<<>>) = 0 /\ DOMAIN <<>> = {}
    OBVIOUS
  <2>2. Filtered(<<>>, s, 0)
    BY <2>1 DEF Filtered, Increasing
  <2>3. QED
    BY <1>1, <1>2, <2>2
<1>4. ASSUME NEW k \in 0 .. Len(s), k < Len(s), k \in S
      PROVE  k + 1 \in S
  <2>1. k \in Nat /\ k + 1 \in 1 .. Len(s) /\ k + 1 \in 0 .. Len(s) /\ (k + 1) - 1 = k
    BY <1>1, <1>4
  <2>2. Filtered(g[k], s, k + 1) /\ Filtered(Append(g[k], s[k + 1]), s, k + 1)
    BY <1>4, <2>1, FilterStep
  <2>3. g[k + 1] = g[k] \/ g[k + 1] = Append(g[k], s[k + 1])
    BY <1>2, <2>1
  <2>4. QED
    BY <2>1, <2>2, <2>3
<1> HIDE DEF S
<1>5. Len(s) \in S
  BY <1>1, <1>3, <1>4, Induct
<1>6. QED
  BY <1>2, <1>5 DEF S, Filtered

\* The minutes among the first n that lie in hour h.
InHour(points, n, h) == {i \in 1 .. n : Truncate(points[i].t, Hour) = h}

HourBucket == [t : Nat, reach : BOOLEAN, samples : Nat]

\* What the loop of aggregateHourly has after n minutes, in parts: its hours are
\* those of the minutes, in order, and the last one is that of the last minute ...
HoursAre(hours, points, n) ==
  /\ hours \in Seq(HourBucket)
  /\ Increasing(hours)
  /\ \A k \in 1 .. Len(hours) : \E i \in 1 .. n : hours[k].t = Truncate(points[i].t, Hour)
  /\ \A i \in 1 .. n : \E k \in 1 .. Len(hours) : hours[k].t = Truncate(points[i].t, Hour)
  /\ n # 0 => hours # <<>> /\ hours[Len(hours)].t = Truncate(points[n].t, Hour)

\* ... each one is reachable when one of its minutes is ...
ReachIs(hours, points, n) ==
  \A k \in 1 .. Len(hours) :
    hours[k].reach = \E i \in InHour(points, n, hours[k].t) : points[i].reach

\* ... and counts its minutes.
SamplesAre(hours, points, n) ==
  \A k \in 1 .. Len(hours) : hours[k].samples = Cardinality(InHour(points, n, hours[k].t))

\* The minutes of an hour after one more minute, which lies in it or not.
LEMMA InHourGrows ==
  ASSUME NEW points, NEW n \in Nat, NEW h, Truncate(points[n + 1].t, Hour) = h
  PROVE  /\ InHour(points, n + 1, h) = InHour(points, n, h) \cup {n + 1}
         /\ Cardinality(InHour(points, n + 1, h)) = Cardinality(InHour(points, n, h)) + 1
<1>1. \A i : i \in 1 .. n + 1 <=> i \in 1 .. n \/ i = n + 1
  OBVIOUS
<1>2. n + 1 \notin 1 .. n
  OBVIOUS
<1>3. IsFiniteSet(1 .. n)
  BY FS_Interval
<1>4. InHour(points, n, h) \subseteq 1 .. n
  BY DEF InHour
<1>5. IsFiniteSet(InHour(points, n, h))
  BY <1>3, <1>4, FS_Subset
<1>6. n + 1 \notin InHour(points, n, h)
  BY <1>2, <1>4
<1>7. InHour(points, n + 1, h) = InHour(points, n, h) \cup {n + 1}
  BY <1>1 DEF InHour
<1>8. QED
  BY <1>5, <1>6, <1>7, FS_AddElement

LEMMA InHourStays ==
  ASSUME NEW points, NEW n \in Nat, NEW h, Truncate(points[n + 1].t, Hour) # h
  PROVE  InHour(points, n + 1, h) = InHour(points, n, h)
<1>1. \A i : i \in 1 .. n + 1 <=> i \in 1 .. n \/ i = n + 1
  OBVIOUS
<1>2. QED
  BY <1>1 DEF InHour

\* The hours of increasing minutes do not decrease.
LEMMA HoursGrow ==
  ASSUME NEW points \in Seq(Bucket), Increasing(points), NEW j \in 1 .. Len(points)
  PROVE  /\ Truncate(points[j].t, Hour) \in Nat
         /\ \A i \in 1 .. j : /\ Truncate(points[i].t, Hour) \in Nat
                              /\ Truncate(points[i].t, Hour) <= Truncate(points[j].t, Hour)
<1>1. Hour \in Nat \ {0}
  BY StarlinkAssumption
<1>2. \A i \in 1 .. Len(points) : points[i] \in Bucket
  BY ElementOfSeq
<1>3. \A i \in 1 .. Len(points) : points[i].t \in Nat
  BY <1>2 DEF Bucket
<1>4. Len(points) \in Nat /\ DOMAIN points = 1 .. Len(points)
  BY LenProperties
<1>5. ASSUME NEW i \in 1 .. j
      PROVE  /\ Truncate(points[i].t, Hour) \in Nat
             /\ Truncate(points[i].t, Hour) <= Truncate(points[j].t, Hour)
  <2>1. i \in 1 .. Len(points) /\ (i = j \/ i < j)
    BY <1>4
  <2>2. points[i].t <= points[j].t
    BY <1>3, <1>4, <2>1 DEF Increasing
  <2>3. QED
    BY <1>1, <1>3, <2>1, <2>2, TruncateOrder
<1>6. Truncate(points[j].t, Hour) \in Nat
  <2>1. j \in 1 .. j
    BY <1>4
  <2>2. QED
    BY <1>5, <2>1
<1>7. QED
  BY <1>5, <1>6

\* AddToHour puts the minute into the last hour ...
Joins(q, hours, p, T) ==
  /\ q \in Seq(HourBucket) /\ Len(q) = Len(hours) /\ Len(hours) \in Nat \ {0}
  /\ hours[Len(hours)].t = T
  /\ \A k \in 1 .. Len(hours) - 1 : q[k] = hours[k]
  /\ q[Len(hours)].t = T
  /\ q[Len(hours)].reach = (hours[Len(hours)].reach \/ p.reach)
  /\ q[Len(hours)].samples = hours[Len(hours)].samples + 1

\* ... or opens one.
Opens(q, hours, p, T) ==
  /\ q \in Seq(HourBucket) /\ Len(q) = Len(hours) + 1 /\ Len(hours) \in Nat
  /\ hours # <<>> => hours[Len(hours)].t # T
  /\ \A k \in 1 .. Len(hours) : q[k] = hours[k]
  /\ q[Len(hours) + 1].t = T
  /\ q[Len(hours) + 1].reach = p.reach
  /\ q[Len(hours) + 1].samples = 1

LEMMA AddIs ==
  ASSUME NEW hours \in Seq(HourBucket), NEW p \in Bucket, Truncate(p.t, Hour) \in Nat
  PROVE  \/ Joins(AddToHour(hours, p), hours, p, Truncate(p.t, Hour))
         \/ Opens(AddToHour(hours, p), hours, p, Truncate(p.t, Hour))
<1> DEFINE T == Truncate(p.t, Hour)
           q == AddToHour(hours, p)
<1>1. p.reach \in BOOLEAN
  BY DEF Bucket
<1>2. CASE hours # <<>> /\ Last(hours).t = T
  <2> DEFINE m == Len(hours)
             e == [t |-> hours[m].t, reach |-> hours[m].reach \/ p.reach,
                   samples |-> hours[m].samples + 1]
  <2>1. m \in Nat \ {0} /\ m \in 1 .. m /\ Last(hours) = hours[m] /\ hours[m] \in HourBucket
    BY <1>2, LastIs
  <2>2. q = [hours EXCEPT ![m] = e]
    BY <1>2 DEF AddToHour
  <2>3. hours[m].t \in Nat /\ hours[m].samples + 1 \in Nat
    BY <2>1 DEF HourBucket
  <2>4. (hours[m].reach \/ p.reach) \in BOOLEAN
    OBVIOUS
  <2>5. e \in HourBucket
    BY <2>3, <2>4, Zenon DEF HourBucket
  <2>6. e.t = hours[m].t /\ e.reach = (hours[m].reach \/ p.reach)
        /\ e.samples = hours[m].samples + 1
    BY Zenon
  <2>7. hours[m].t = T
    BY <1>2, <2>1
  <2> HIDE DEF e, m, q, T
  <2>8. q \in Seq(HourBucket) /\ Len(q) = m
    BY <2>1, <2>2, <2>5, ExceptSeq DEF m
  <2>9. q[m] = e
    BY <2>1, <2>2 DEF m
  <2>10. \A k \in 1 .. m - 1 : q[k] = hours[k]
    BY <2>1, <2>2 DEF m
  <2>11. Joins(q, hours, p, T)
    BY <2>1, <2>6, <2>7, <2>8, <2>9, <2>10, Zenon DEF Joins, m
  <2>12. QED
    BY <2>11 DEF q, T
<1>3. CASE ~(hours # <<>> /\ Last(hours).t = T)
  <2> DEFINE e == [t |-> T, reach |-> p.reach, samples |-> 1]
  <2>1. q = Append(hours, e)
    BY <1>3 DEF AddToHour
  <2>2. T \in Nat /\ 1 \in Nat
    OBVIOUS
  <2>3. e \in HourBucket
    BY <1>1, <2>2, Zenon DEF HourBucket
  <2>4. e.t = T /\ e.reach = p.reach /\ e.samples = 1
    BY Zenon
  <2>5. hours # <<>> => hours[Len(hours)].t # T
    BY <1>3, LastIs
  <2> HIDE DEF e, q, T
  <2>6. /\ q \in Seq(HourBucket) /\ Len(hours) \in Nat
        /\ Len(q) = Len(hours) + 1
        /\ \A i \in 1 .. Len(hours) : q[i] = hours[i]
        /\ q[Len(hours) + 1] = e
    BY <2>1, <2>3, AppendIs
  <2>7. Opens(q, hours, p, T)
    BY <2>4, <2>5, <2>6, Zenon DEF Opens
  <2>8. QED
    BY <2>7 DEF q, T
<1>4. QED
  BY <1>2, <1>3

LEMMA JoinStep ==
  ASSUME NEW points \in Seq(Bucket), Increasing(points),
         NEW n \in Nat, n + 1 \in 1 .. Len(points), NEW hours, NEW q,
         HoursAre(hours, points, n), ReachIs(hours, points, n), SamplesAre(hours, points, n),
         Joins(q, hours, points[n + 1], Truncate(points[n + 1].t, Hour))
  PROVE  HoursAre(q, points, n + 1) /\ ReachIs(q, points, n + 1) /\ SamplesAre(q, points, n + 1)
<1> DEFINE T == Truncate(points[n + 1].t, Hour)
           m == Len(hours)
           H(i) == Truncate(points[i].t, Hour)
<1>1. /\ q \in Seq(HourBucket) /\ Len(q) = m /\ m \in Nat \ {0}
      /\ hours[m].t = T
      /\ \A k \in 1 .. m - 1 : q[k] = hours[k]
      /\ q[m].t = T
      /\ q[m].reach = (hours[m].reach \/ points[n + 1].reach)
      /\ q[m].samples = hours[m].samples + 1
  BY DEF Joins
<1>2. /\ hours \in Seq(HourBucket)
      /\ Increasing(hours)
      /\ \A k \in 1 .. m : \E i \in 1 .. n : hours[k].t = H(i)
      /\ \A i \in 1 .. n : \E k \in 1 .. m : hours[k].t = H(i)
  BY DEF HoursAre
<1> HIDE DEF m
<1>3. DOMAIN hours = 1 .. m /\ DOMAIN q = 1 .. m
  BY <1>1, <1>2 DEF m
<1>4. \A k \in 1 .. m : (k \in 1 .. m - 1 \/ k = m) /\ (k # m => k < m)
  BY <1>1
<1>5. m \in 1 .. m
  BY <1>1
<1>6. \A k \in 1 .. m : q[k].t = hours[k].t
  BY <1>1, <1>4
<1>7. \A k \in 1 .. m - 1 : hours[k].t # T
  <2> TAKE k \in 1 .. m - 1
  <2>1. k \in 1 .. m /\ k < m
    BY <1>1
  <2>2. hours[k].t < hours[m].t
    BY <1>2, <1>3, <1>5, <2>1 DEF Increasing
  <2>3. hours[k] \in HourBucket
    BY <1>2, <2>1, ElementOfSeq DEF m
  <2>4. hours[k].t \in Nat
    BY <2>3 DEF HourBucket
  <2>5. QED
    BY <1>1, <2>2, <2>4
<1>8. \A i \in 1 .. n + 1 : i \in 1 .. n \/ i = n + 1
  OBVIOUS
<1>9. \A i \in 1 .. n : i \in 1 .. n + 1
  OBVIOUS
<1>10. HoursAre(q, points, n + 1)
  <2>1. Increasing(q)
    BY <1>2, <1>3, <1>6 DEF Increasing
  <2>2. \A k \in 1 .. m : \E i \in 1 .. n + 1 : q[k].t = H(i)
    BY <1>2, <1>6, <1>9
  <2>3. \A i \in 1 .. n + 1 : \E k \in 1 .. m : q[k].t = H(i)
    <3> TAKE i \in 1 .. n + 1
    <3>1. CASE i \in 1 .. n
      BY <1>2, <1>6, <3>1
    <3>2. CASE i = n + 1
      BY <1>1, <1>5, <3>2
    <3>3. QED
      BY <1>8, <3>1, <3>2
  <2>4. q # <<>>
    BY <1>1
  <2>5. QED
    BY <1>1, <2>1, <2>2, <2>3, <2>4 DEF HoursAre
<1>11. \A k \in 1 .. m - 1 : /\ k \in 1 .. m
                             /\ InHour(points, n + 1, q[k].t) = InHour(points, n, hours[k].t)
  <2> TAKE k \in 1 .. m - 1
  <2>1. k \in 1 .. m
    BY <1>1
  <2>2. q[k].t = hours[k].t /\ T # hours[k].t
    BY <1>6, <1>7, <2>1
  <2>3. InHour(points, n + 1, hours[k].t) = InHour(points, n, hours[k].t)
    BY <2>2, InHourStays, Zenon
  <2>4. QED
    BY <2>1, <2>2, <2>3, Zenon
<1>12. /\ InHour(points, n + 1, q[m].t) = InHour(points, n, hours[m].t) \cup {n + 1}
       /\ Cardinality(InHour(points, n + 1, q[m].t)) = Cardinality(InHour(points, n, hours[m].t)) + 1
  <2>1. q[m].t = hours[m].t /\ T = hours[m].t
    BY <1>1
  <2>2. /\ InHour(points, n + 1, hours[m].t) = InHour(points, n, hours[m].t) \cup {n + 1}
        /\ Cardinality(InHour(points, n + 1, hours[m].t))
             = Cardinality(InHour(points, n, hours[m].t)) + 1
    BY <2>1, InHourGrows, Zenon
  <2>3. QED
    BY <2>1, <2>2, Zenon
<1>13. ReachIs(q, points, n + 1)
  <2> SUFFICES ASSUME NEW k \in 1 .. m
               PROVE  q[k].reach = \E i \in InHour(points, n + 1, q[k].t) : points[i].reach
    BY <1>1 DEF ReachIs
  <2>1. hours[k].reach = \E i \in InHour(points, n, hours[k].t) : points[i].reach
    BY DEF ReachIs, m
  <2>2. CASE k \in 1 .. m - 1
    BY <1>1, <1>11, <2>1, <2>2, Zenon
  <2>3. CASE k = m
    <3>1. q[m].reach = ((\E i \in InHour(points, n, hours[m].t) : points[i].reach) \/ points[n + 1].reach)
      BY <1>1, <2>1, <2>3, Zenon
    <3>2. (\E i \in InHour(points, n + 1, q[m].t) : points[i].reach)
            <=> (\E i \in InHour(points, n, hours[m].t) : points[i].reach) \/ points[n + 1].reach
      BY <1>12, Zenon
    <3>3. QED
      BY <2>3, <3>1, <3>2, Zenon
  <2>4. QED
    BY <1>4, <2>2, <2>3
<1>14. SamplesAre(q, points, n + 1)
  <2> SUFFICES ASSUME NEW k \in 1 .. m
               PROVE  q[k].samples = Cardinality(InHour(points, n + 1, q[k].t))
    BY <1>1 DEF SamplesAre
  <2>1. hours[k].samples = Cardinality(InHour(points, n, hours[k].t))
    BY DEF SamplesAre, m
  <2>2. CASE k \in 1 .. m - 1
    BY <1>1, <1>11, <2>1, <2>2
  <2>3. CASE k = m
    BY <1>1, <1>12, <2>1, <2>3
  <2>4. QED
    BY <1>4, <2>2, <2>3
<1>15. QED
  BY <1>10, <1>13, <1>14

LEMMA OpenStep ==
  ASSUME NEW points \in Seq(Bucket), Increasing(points),
         NEW n \in Nat, n + 1 \in 1 .. Len(points), NEW hours, NEW q,
         HoursAre(hours, points, n), ReachIs(hours, points, n), SamplesAre(hours, points, n),
         Opens(q, hours, points[n + 1], Truncate(points[n + 1].t, Hour))
  PROVE  HoursAre(q, points, n + 1) /\ ReachIs(q, points, n + 1) /\ SamplesAre(q, points, n + 1)
<1> DEFINE T == Truncate(points[n + 1].t, Hour)
           m == Len(hours)
           H(i) == Truncate(points[i].t, Hour)
<1>1. /\ q \in Seq(HourBucket) /\ Len(q) = m + 1 /\ m \in Nat
      /\ hours # <<>> => hours[m].t # T
      /\ \A k \in 1 .. m : q[k] = hours[k]
      /\ q[m + 1].t = T
      /\ q[m + 1].reach = points[n + 1].reach
      /\ q[m + 1].samples = 1
  BY DEF Opens
<1>2. /\ hours \in Seq(HourBucket)
      /\ Increasing(hours)
      /\ \A k \in 1 .. m : \E i \in 1 .. n : hours[k].t = H(i)
      /\ \A i \in 1 .. n : \E k \in 1 .. m : hours[k].t = H(i)
      /\ n # 0 => hours # <<>> /\ hours[m].t = H(n)
  BY DEF HoursAre
<1> HIDE DEF m
<1>3. DOMAIN hours = 1 .. m /\ DOMAIN q = 1 .. m + 1
  BY <1>1, <1>2 DEF m
<1>4. /\ \A k \in 1 .. m + 1 : k \in 1 .. m \/ k = m + 1
      /\ \A k \in 1 .. m : k \in 1 .. m + 1
      /\ m + 1 \in 1 .. m + 1
  BY <1>1
<1>5. /\ \A i \in 1 .. n + 1 : i \in 1 .. n \/ i = n + 1
      /\ \A i \in 1 .. n : i \in 1 .. n + 1 /\ n # 0 /\ n \in 1 .. Len(points) /\ n \in 1 .. n + 1
      /\ n + 1 \in 1 .. n + 1
  OBVIOUS
<1>6. T \in Nat /\ \A i \in 1 .. n + 1 : H(i) \in Nat /\ H(i) <= T
  BY HoursGrow
\* Every minute so far lies in an hour before the new one.
<1>7. \A i \in 1 .. n : H(i) < T
  <2> TAKE i \in 1 .. n
  <2>1. H(i) <= H(n)
    BY <1>5, HoursGrow
  <2>2. H(n) # T
    BY <1>1, <1>2, <1>5
  <2>3. H(i) \in Nat /\ H(n) \in Nat /\ H(n) <= T
    BY <1>5, <1>6
  <2> HIDE DEF H, T
  <2>4. QED
    BY <1>6, <2>1, <2>2, <2>3
<1>8. \A k \in 1 .. m : hours[k].t < T
  BY <1>2, <1>7
<1>9. \A k \in 1 .. m : hours[k].t # T
  <2> TAKE k \in 1 .. m
  <2>1. PICK i \in 1 .. n : hours[k].t = H(i)
    BY <1>2
  <2>2. H(i) < T /\ H(i) \in Nat
    BY <1>5, <1>6, <1>7
  <2> HIDE DEF H, T
  <2>3. QED
    BY <1>6, <2>1, <2>2
<1>10. InHour(points, n, T) = {}
  <2>1. \A i \in 1 .. n : H(i) # T
    <3> TAKE i \in 1 .. n
    <3>1. H(i) < T /\ H(i) \in Nat
      BY <1>5, <1>6, <1>7
    <3> HIDE DEF H, T
    <3>2. QED
      BY <1>6, <3>1
  <2>2. QED
    BY <2>1 DEF InHour
<1>11. HoursAre(q, points, n + 1)
  <2>1. Increasing(q)
    <3> SUFFICES ASSUME NEW i \in 1 .. m + 1, NEW j \in 1 .. m + 1, i < j
                 PROVE  q[i].t < q[j].t
      BY <1>3 DEF Increasing
    <3>1. i \in 1 .. m
      BY <1>1
    <3>2. CASE j \in 1 .. m
      BY <1>1, <1>2, <1>3, <3>1, <3>2 DEF Increasing
    <3>3. CASE j = m + 1
      BY <1>1, <1>8, <3>1, <3>3
    <3>4. QED
      BY <1>4, <3>2, <3>3
  <2>2. \A k \in 1 .. m + 1 : \E i \in 1 .. n + 1 : q[k].t = H(i)
    <3> TAKE k \in 1 .. m + 1
    <3>1. CASE k \in 1 .. m
      <4>1. PICK i \in 1 .. n : hours[k].t = H(i)
        BY <1>2, <3>1
      <4>2. i \in 1 .. n + 1 /\ q[k].t = hours[k].t
        BY <1>1, <1>5, <3>1
      <4>3. QED
        BY <4>1, <4>2, Zenon
    <3>2. CASE k = m + 1
      BY <1>1, <1>5, <3>2
    <3>3. QED
      BY <1>4, <3>1, <3>2
  <2>3. \A i \in 1 .. n + 1 : \E k \in 1 .. m + 1 : q[k].t = H(i)
    <3> TAKE i \in 1 .. n + 1
    <3>1. CASE i \in 1 .. n
      <4>1. PICK k \in 1 .. m : hours[k].t = H(i)
        BY <1>2, <3>1
      <4>2. k \in 1 .. m + 1 /\ q[k].t = hours[k].t
        BY <1>1, <1>4
      <4>3. QED
        BY <4>1, <4>2, Zenon
    <3>2. CASE i = n + 1
      BY <1>1, <1>4, <3>2
    <3>3. QED
      BY <1>5, <3>1, <3>2
  <2>4. q # <<>>
    BY <1>1
  <2>5. QED
    BY <1>1, <2>1, <2>2, <2>3, <2>4 DEF HoursAre
<1>12. \A k \in 1 .. m : InHour(points, n + 1, q[k].t) = InHour(points, n, hours[k].t)
  <2> TAKE k \in 1 .. m
  <2>1. q[k].t = hours[k].t /\ T # hours[k].t
    BY <1>1, <1>9
  <2>2. InHour(points, n + 1, hours[k].t) = InHour(points, n, hours[k].t)
    BY <2>1, InHourStays, Zenon
  <2>3. QED
    BY <2>1, <2>2, Zenon
<1>13. InHour(points, n + 1, q[m + 1].t) = {n + 1}
  <2>1. PICK h : Truncate(points[n + 1].t, Hour) = h
    BY Zenon
  <2>2. InHour(points, n + 1, h) = InHour(points, n, h) \cup {n + 1}
    BY <2>1, InHourGrows, ZenonT(60)
  <2>3. InHour(points, n, h) = {} /\ q[m + 1].t = h
    BY <1>1, <1>10, <2>1, Zenon
  <2>4. InHour(points, n, h) \cup {n + 1} = {n + 1}
    BY <2>3
  <2>5. QED
    BY <2>2, <2>3, <2>4, Zenon
<1>14. ReachIs(q, points, n + 1)
  <2> SUFFICES ASSUME NEW k \in 1 .. m + 1
               PROVE  q[k].reach = \E i \in InHour(points, n + 1, q[k].t) : points[i].reach
    BY <1>1 DEF ReachIs
  <2>1. CASE k \in 1 .. m
    <3>1. hours[k].reach = \E i \in InHour(points, n, hours[k].t) : points[i].reach
      BY <2>1 DEF ReachIs, m
    <3>2. QED
      BY <1>1, <1>12, <2>1, <3>1, Zenon
  <2>2. CASE k = m + 1
    <3>1. (\E i \in {n + 1} : points[i].reach) <=> points[n + 1].reach
      BY Zenon
    <3>2. points[n + 1] \in Bucket
      BY ElementOfSeq
    <3>3. points[n + 1].reach \in BOOLEAN
      BY <3>2 DEF Bucket
    <3>4. points[n + 1].reach = \E i \in {n + 1} : points[i].reach
      BY <3>1, <3>3, Zenon
    <3>5. QED
      BY <1>1, <1>13, <2>2, <3>4, Zenon
  <2>3. QED
    BY <1>4, <2>1, <2>2
<1>15. SamplesAre(q, points, n + 1)
  <2> SUFFICES ASSUME NEW k \in 1 .. m + 1
               PROVE  q[k].samples = Cardinality(InHour(points, n + 1, q[k].t))
    BY <1>1 DEF SamplesAre
  <2>1. CASE k \in 1 .. m
    <3>1. hours[k].samples = Cardinality(InHour(points, n, hours[k].t))
      BY <2>1 DEF SamplesAre, m
    <3>2. QED
      BY <1>1, <1>12, <2>1, <3>1
  <2>2. CASE k = m + 1
    BY <1>1, <1>13, <2>2, FS_Singleton
  <2>3. QED
    BY <1>4, <2>1, <2>2
<1>16. QED
  BY <1>11, <1>14, <1>15

\* All of it holds after the last minute.
LEMMA HoursOK ==
  ASSUME NEW points \in Seq(Bucket), Increasing(points)
  PROVE  /\ HoursAre(aggregateHourly(points), points, Len(points))
         /\ ReachIs(aggregateHourly(points), points, Len(points))
         /\ SamplesAre(aggregateHourly(points), points, Len(points))
<1>1. Len(points) \in Nat
  BY LenProperties
<1>0. PICK g : SumLoop(g, points)
  BY <1>1, HourlyIs
<1>2. /\ aggregateHourly(points) = g[Len(points)]
      /\ g[0] = <<>>
      /\ \A i \in 1 .. Len(points) : g[i] = AddToHour(g[i - 1], points[i])
  BY <1>0 DEF SumLoop
<1> DEFINE S == {k \in 0 .. Len(points) : /\ HoursAre(g[k], points, k)
                                          /\ ReachIs(g[k], points, k)
                                          /\ SamplesAre(g[k], points, k)}
<1>3. 0 \in S
  <2>1. /\ <<>> \in Seq(HourBucket) /\ Len(<<>>) = 0 /\ DOMAIN <<>> = {}
        /\ 1 .. 0 = {} /\ 0 \in 0 .. Len(points)
    BY <1>1
  <2>2. HoursAre(<<>>, points, 0)
    BY <2>1 DEF HoursAre, Increasing
  <2>3. ReachIs(<<>>, points, 0) /\ SamplesAre(<<>>, points, 0)
    BY <2>1, Zenon DEF ReachIs, SamplesAre
  <2>4. QED
    BY <1>2, <2>1, <2>2, <2>3
<1>4. ASSUME NEW k \in 0 .. Len(points), k < Len(points), k \in S
      PROVE  k + 1 \in S
  <2>1. k \in Nat /\ k + 1 \in 1 .. Len(points) /\ k + 1 \in 0 .. Len(points) /\ (k + 1) - 1 = k
    BY <1>1, <1>4
  <2>2. g[k + 1] = AddToHour(g[k], points[k + 1])
    BY <1>2, <2>1
  <2>3. HoursAre(g[k], points, k) /\ ReachIs(g[k], points, k) /\ SamplesAre(g[k], points, k)
    BY <1>4
  <2>4. g[k] \in Seq(HourBucket)
    BY <2>3 DEF HoursAre
  <2>5. points[k + 1] \in Bucket
    BY <2>1, ElementOfSeq
  <2>6. Truncate(points[k + 1].t, Hour) \in Nat
    BY <2>1, HoursGrow
  <2>7. \/ Joins(g[k + 1], g[k], points[k + 1], Truncate(points[k + 1].t, Hour))
        \/ Opens(g[k + 1], g[k], points[k + 1], Truncate(points[k + 1].t, Hour))
    BY <2>2, <2>4, <2>5, <2>6, AddIs
  <2>8. /\ HoursAre(g[k + 1], points, k + 1)
        /\ ReachIs(g[k + 1], points, k + 1)
        /\ SamplesAre(g[k + 1], points, k + 1)
    BY <2>1, <2>3, <2>7, JoinStep, OpenStep
  <2>9. QED
    BY <2>1, <2>8
<1> HIDE DEF S
<1>5. Len(points) \in S
  BY <1>1, <1>3, <1>4, Induct
<1>6. QED
  BY <1>2, <1>5 DEF S

\* The chart of the week is exact whatever was recorded, trimmed, cut off by a
\* crash and read back: one hour for every hour that has a minute in it, in
\* order, reachable when one of its minutes is, with the number of its minutes.
THEOREM WeekChartIsExact == Spec => []HourlyIsExact
<1>1. LogsOK => HourlyIsExact
  <2> SUFFICES ASSUME LogsOK PROVE HourlyIsExact
    OBVIOUS
  <2> DEFINE points == Since(minutes, MinuteRetention)
             hours  == WeekChart
             In(h)  == {i \in DOMAIN points : Truncate(points[i].t, Hour) = h}
  <2>1. minutes \in Seq(Bucket) /\ Increasing(minutes)
    BY DEF LogsOK, MinutesOK
  <2>2. points \in Seq(Bucket) /\ Increasing(points)
    BY <2>1, SinceOK
  <2>3. /\ HoursAre(hours, points, Len(points))
        /\ ReachIs(hours, points, Len(points))
        /\ SamplesAre(hours, points, Len(points))
    BY <2>2, HoursOK DEF WeekChart
  <2>4. DOMAIN points = 1 .. Len(points)
    BY <2>2
  <2>5. hours \in Seq(HourBucket)
    BY <2>3 DEF HoursAre
  <2>6. DOMAIN hours = 1 .. Len(hours)
    BY <2>5
  <2>7. \A h : In(h) = InHour(points, Len(points), h)
    BY <2>4 DEF InHour
  <2> HIDE DEF points, hours
  <2>8. Times(hours) = {Truncate(t, Hour) : t \in Times(points)}
    <3>1. \A k \in DOMAIN hours : \E i \in DOMAIN points : hours[k].t = Truncate(points[i].t, Hour)
      BY <2>3, <2>4, <2>6 DEF HoursAre
    <3>2. \A i \in DOMAIN points : \E k \in DOMAIN hours : hours[k].t = Truncate(points[i].t, Hour)
      BY <2>3, <2>4, <2>6 DEF HoursAre
    <3>3. QED
      <4>1. \A x : x \in Times(hours) => x \in {Truncate(t, Hour) : t \in Times(points)}
        BY <3>1 DEF Times
      <4>2. \A t \in Times(points) : Truncate(t, Hour) \in Times(hours)
        BY <3>2 DEF Times
      <4>3. QED
        BY <4>1, <4>2
  <2>9. Increasing(hours)
    BY <2>3 DEF HoursAre
  <2>10. \A k \in DOMAIN hours :
           /\ hours[k].reach = \E i \in In(hours[k].t) : points[i].reach
           /\ hours[k].samples = Cardinality(In(hours[k].t))
    <3> TAKE k \in DOMAIN hours
    <3>1. hours[k].reach = \E i \in In(hours[k].t) : points[i].reach
      <4>1. k \in 1 .. Len(hours)
        BY <2>6, Zenon
      <4>2. hours[k].reach = \E i \in InHour(points, Len(points), hours[k].t) : points[i].reach
        BY <2>3, <4>1, Zenon DEF ReachIs
      <4>3. QED
        BY <2>7, <4>2, Zenon
    <3>2. hours[k].samples = Cardinality(In(hours[k].t))
      BY <2>3, <2>6, <2>7, Zenon DEF SamplesAre
    <3>3. QED
      BY <3>1, <3>2, Zenon
  <2>11. QED
    BY <2>8, <2>9, <2>10, Zenon DEF HourlyIsExact, points, hours
<1>2. QED
  BY <1>1, LogsAlways, PTL

=============================================================================
