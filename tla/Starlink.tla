------------------------------ MODULE Starlink ------------------------------
(***************************************************************************)
(* The Starlink monitor (internal/starlink). Status asks the dish, at most *)
(* once per CacheTTL, and records what it finds: an event log, the raw     *)
(* samples of the last hours and one bucket per minute for a week. All of  *)
(* it happens under Service.mu; Reboot talks to the dish without it. The   *)
(* three files are written in place, so a crash or a full disk leaves one  *)
(* of them unreadable.                                                     *)
(*                                                                         *)
(* Times are ticks. Of a sample the model keeps whether the dish answered  *)
(* and one number for its metrics; their averages are left out.            *)
(***************************************************************************)
EXTENDS Naturals, FiniteSets, Sequences, SequencesExt

CONSTANTS
  CacheTTL,         \* 8 s: how long a status is served again
  SameWindow,       \* 4 s: equal samples closer than this are one
  Minute, Hour,     \* the bucket sizes
  RawRetention, RawMax, MinuteRetention,
  MergeWindow,      \* 15 min: a repeated event is merged into the last one
  MaxEvents,        \* 80
  ProviderTTL,      \* 5 min: how long the provider of the uplink is believed
  DishStates,       \* what asking the dish may give: does its API answer, does its
                    \* web page, and what the API says
  None,             \* nothing cached, nothing known
  Unreadable,       \* the content of a file that is missing or cut short
  MaxTime,          \* bound: length of a behaviour
  MaxReboots,       \* bound: accepted reboots
  MaxFaults         \* bound: crashes and failed writes

ASSUME StarlinkAssumption ==
  /\ DishStates \subseteq [api : BOOLEAN, web : BOOLEAN, outage : BOOLEAN, alert : BOOLEAN, rate : Nat]
  /\ {CacheTTL, SameWindow, RawRetention, MinuteRetention, MergeWindow, ProviderTTL,
      MaxTime, MaxReboots, MaxFaults} \subseteq Nat
  /\ {Minute, Hour, RawMax, MaxEvents} \subseteq Nat \ {0} /\ Hour % Minute = 0
  /\ Unreadable \notin Seq([t : Nat, reach : BOOLEAN, rate : Nat])
  /\ Unreadable \notin Seq([t : Nat, reach : BOOLEAN])

VARIABLES
  now,        \* the clock
  up,         \* whether the service runs
  cached,     \* Service.cached: when it was taken, and at which boot of the dish
  alert,      \* Service.alerts: whether the dish had raised its alert
  provider,   \* Service.providerKnown, providerIsDish and providerAt
  events, history, minutes,   \* the three logs in memory
  disk,       \* the three files, in the order in which Status writes them
  boots,      \* reboots of the dish that were acknowledged
  rebooting,  \* a Reboot has its acknowledgement and not yet the lock
  faults,
  kept, cut   \* history: minutes that were saved; whether a history file was ever cut

vars == <<now, up, cached, alert, provider, events, history, minutes, disk,
          boots, rebooting, faults, kept, cut>>

Init ==
  /\ now = 0 /\ up = TRUE
  /\ cached = None /\ alert = FALSE /\ provider = None
  /\ events = <<>> /\ history = <<>> /\ minutes = <<>>
  /\ disk = <<Unreadable, Unreadable, Unreadable>>
  /\ boots = 0 /\ rebooting = FALSE
  /\ faults = 0 /\ kept = {} /\ cut = FALSE

Fault == faults < MaxFaults /\ faults' = faults + 1

Truncate(t, d) == t - (t % d)

\* The last n elements.
Newest(s, n) == IF Len(s) > n THEN SubSeq(s, Len(s) - n + 1, Len(s)) ELSE s

\* The loop that filters a log for a chart: the elements not older than age.
Since(s, age) ==
  LET young[i \in 0 .. Len(s)] ==
        IF i = 0 THEN <<>>
        ELSE IF s[i].t + age >= now THEN Append(young[i - 1], s[i])
        ELSE young[i - 1]
  IN  young[Len(s)]

\* The loop that trims a log: from its first element on that is not older than age.
Trim(s, age) ==
  LET start == CHOOSE i \in 1 .. Len(s) + 1 :
                 /\ i = Len(s) + 1 \/ s[i].t + age >= now
                 /\ \A j \in 1 .. i - 1 : s[j].t + age < now
  IN  SubSeq(s, start, Len(s))

-----------------------------------------------------------------------------
(* The logs.                                                                *)

\* Mutated form: an event is only merged when it repeats at the same moment.
recordEvent_SameTime(log, message) ==
  IF log # <<>> /\ Last(log) = [t |-> now, message |-> message] THEN log
  ELSE Newest(Append(log, [t |-> now, message |-> message]), MaxEvents)

\* A repetition within the window moves the last event, others are appended.
recordEvent(log, message) ==
  IF log # <<>> /\ Last(log).message = message /\ now - Last(log).t < MergeWindow
  THEN [log EXCEPT ![Len(log)].t = now]
  ELSE Newest(Append(log, [t |-> now, message |-> message]), MaxEvents)

\* The sample that recordHistory makes of an answer; without one it is zero.
Sample(dish) == [t |-> now, reach |-> dish.api, rate |-> IF dish.api THEN dish.rate ELSE 0]

\* historyPointEqual and the window: the sample is not recorded again.
Repeats(p) ==
  /\ history # <<>>
  /\ Last(history).reach = p.reach /\ Last(history).rate = p.rate
  /\ now - Last(history).t < SameWindow

\* append and trimRawLocked.
AppendRaw(p) == Newest(Trim(Append(history, p), RawRetention), RawMax)

\* Mutated form: a sample always opens a new bucket.
updateMinuteBucket_Append(reach) ==
  Trim(Append(minutes, [t |-> Truncate(now, Minute), reach |-> reach]), MinuteRetention)

\* The sample goes into the last bucket if that is of this minute, or opens one,
\* and only then old buckets are trimmed.
updateMinuteBucket(reach) ==
  IF minutes # <<>> /\ Last(minutes).t = Truncate(now, Minute)
  THEN [minutes EXCEPT ![Len(minutes)].reach = @ \/ reach]
  ELSE Trim(Append(minutes, [t |-> Truncate(now, Minute), reach |-> reach]), MinuteRetention)

\* A minute goes into the last hour if it lies in it, or opens the next one.
AddToHour(hours, p) ==
  IF hours # <<>> /\ Last(hours).t = Truncate(p.t, Hour)
  THEN [hours EXCEPT ![Len(hours)] =
          [t |-> @.t, reach |-> @.reach \/ p.reach, samples |-> @.samples + 1]]
  ELSE Append(hours, [t |-> Truncate(p.t, Hour), reach |-> p.reach, samples |-> 1])

\* Mutated form: the last hour is not flushed after the loop.
aggregateHourly_NoFlush(points) ==
  LET hours[i \in 0 .. Len(points)] ==
        IF i = 0 THEN <<>> ELSE AddToHour(hours[i - 1], points[i])
  IN  Front(hours[Len(points)])

\* One pass over the minutes; an hour ends when the next one begins.
aggregateHourly(points) ==
  LET hours[i \in 0 .. Len(points)] ==
        IF i = 0 THEN <<>> ELSE AddToHour(hours[i - 1], points[i])
  IN  hours[Len(points)]

\* historyForRangeLocked for "7d": the chart of the week.
WeekChart == aggregateHourly(Since(minutes, MinuteRetention))

\* The files in W are replaced in order by os.WriteFile, and errors are ignored:
\* a full disk cuts one of them or leaves it old. A crash does the same, and the
\* later ones stay old.
WriteFiles(next, W) ==
  \/ disk' = [i \in 1 .. 3 |-> IF i \in W THEN next[i] ELSE disk[i]]
     /\ up' = TRUE /\ UNCHANGED <<faults, cut>>
  \/ \E f \in W, on \in BOOLEAN :
       \E left \in {Unreadable, disk[f]} :
         /\ Fault
         /\ cut' = (cut \/ (f > 1 /\ left = Unreadable))
         /\ up' = on
         /\ disk' = [i \in 1 .. 3 |-> IF i = f THEN left
                                      ELSE IF i \in W /\ (i < f \/ on) THEN next[i] ELSE disk[i]]

-----------------------------------------------------------------------------
(* What Status has to say.                                                  *)

\* An outage with a known cause; its text and level are data.
outageMessage(dish) == IF dish.api /\ dish.outage THEN <<"outage">> ELSE <<>>

dishAlerts(dish) == dish.api /\ dish.alert

\* An alert is an event when it was not raised before.
newAlertEvents(dish) == IF dishAlerts(dish) /\ ~ alert THEN <<"alert">> ELSE <<>>

\* Without an answer of the API the web page is tried.
probeDishHTTP(dish) ==
  IF dish.api THEN <<>> ELSE IF dish.web THEN <<"web only">> ELSE <<"unreachable">>

\* The provider is asked for when it is unknown or not believed any more; the
\* answer is None when it was not asked for or did not tell.
MayAnswer(online) ==
  IF online /\ (provider # None => now - provider.t >= ProviderTTL)
  THEN {None, TRUE, FALSE} ELSE {None}

detectProvider(answer) == IF answer # None THEN [t |-> now, dish |-> answer] ELSE provider

\* What the uplink looks like, when the dish answers.
UplinkEvents(dish, online, believed) ==
  IF dish.api /\ online /\ believed # None /\ ~ believed.dish THEN <<"foreign">>
  ELSE IF dish.api /\ ~ online THEN <<"no internet">> ELSE <<>>

\* Status, when what is cached is too old: the dish is asked, what it says and
\* the state of the uplink become events, the sample goes into the logs.
Status(dish, online, answer) ==
  /\ up
  /\ cached # None => now - cached.t >= CacheTTL
  /\ LET believed == detectProvider(answer)
         said     == outageMessage(dish) \o newAlertEvents(dish) \o probeDishHTTP(dish)
                       \o UplinkEvents(dish, online, believed)
         log      == FoldLeft(recordEvent, events, said)
         sample   == Sample(dish)
         raw      == IF Repeats(sample) THEN history ELSE AppendRaw(sample)
         buckets  == updateMinuteBucket(dish.api)
     IN  /\ alert' = dishAlerts(dish)
         /\ provider' = believed
         /\ events' = log
         /\ history' = raw
         /\ minutes' = buckets
         /\ cached' = [t |-> now, boot |-> boots]
         /\ WriteFiles(<<log, raw, buckets>>,
                       (IF said = <<>> THEN {} ELSE {1}) \cup (IF Repeats(sample) THEN {} ELSE {2, 3}))
         /\ kept' = {m \in kept \cup (IF disk'[3] = buckets THEN {Truncate(now, Minute)} ELSE {}) :
                       m + MinuteRetention >= now}
  /\ UNCHANGED <<now, boots, rebooting>>

\* Reboot: the command, sent without the lock, is acknowledged.
RebootSend ==
  /\ up /\ ~ rebooting
  /\ boots < MaxReboots
  /\ boots' = boots + 1
  /\ rebooting' = TRUE
  /\ UNCHANGED <<now, up, cached, alert, provider, events, history, minutes, disk, faults, kept, cut>>

\* The command fails, or its answer is lost: only an event.
RebootFail ==
  /\ up /\ ~ rebooting
  /\ boots < MaxReboots
  /\ events' = recordEvent(events, "reboot failed")
  /\ WriteFiles(<<events', history, minutes>>, {1})
  /\ UNCHANGED <<now, cached, alert, provider, history, minutes, boots, rebooting, kept>>

\* Mutated form: the cached status is kept.
RebootDone_KeepCache ==
  /\ up /\ rebooting
  /\ rebooting' = FALSE
  /\ events' = recordEvent(events, "reboot")
  /\ WriteFiles(<<events', history, minutes>>, {1})
  /\ UNCHANGED <<now, cached, alert, provider, history, minutes, boots, kept>>

\* The rest of Reboot, under the lock.
RebootDone ==
  /\ up /\ rebooting
  /\ rebooting' = FALSE
  /\ cached' = None
  /\ events' = recordEvent(events, "reboot")
  /\ WriteFiles(<<events', history, minutes>>, {1})
  /\ UNCHANGED <<now, alert, provider, history, minutes, boots, kept>>

Crash ==
  /\ up /\ Fault
  /\ up' = FALSE
  /\ UNCHANGED <<now, cached, alert, provider, events, history, minutes, disk, boots, rebooting, kept, cut>>

Readable(i) == IF disk[i] = Unreadable THEN <<>> ELSE disk[i]

\* Mutated form: the minutes are only kept when the file of events is good too.
loadHistory_EventsToo == IF Unreadable \in {disk[1], disk[2]} THEN <<>> ELSE Readable(3)

\* The minutes are only read when the raw history could be.
loadHistory == IF disk[2] = Unreadable THEN <<>> ELSE Readable(3)

\* NewService: loadEvents and loadHistory.
Restart ==
  /\ ~ up
  /\ up' = TRUE
  /\ cached' = None /\ alert' = FALSE /\ provider' = None /\ rebooting' = FALSE
  /\ events' = Readable(1)
  /\ history' = Readable(2)
  /\ minutes' = loadHistory
  /\ UNCHANGED <<now, disk, boots, faults, kept, cut>>

Tick ==
  /\ now < MaxTime
  /\ now' = now + 1
  /\ UNCHANGED <<up, cached, alert, provider, events, history, minutes, disk,
                 boots, rebooting, faults, kept, cut>>

Next ==
  \/ \E dish \in DishStates, online \in BOOLEAN :
       \E answer \in MayAnswer(online) : Status(dish, online, answer)
  \/ RebootSend \/ RebootFail \/ RebootDone \/ Crash \/ Restart \/ Tick

Spec == Init /\ [][Next]_vars

-----------------------------------------------------------------------------

Times(s) == {s[i].t : i \in DOMAIN s}
Increasing(s) == \A i, j \in DOMAIN s : i < j => s[i].t < s[j].t

\* The charts are in order, no minute appears twice and no sample is repeated
\* within SameWindow, although logs are trimmed, merged and read back after a
\* restart, and the dish is asked again right after a reboot.
ChartsInOrder ==
  /\ Increasing(minutes)
  /\ \A i \in 1 .. Len(history) - 1 :
       LET gap == history[i + 1].t - history[i].t
       IN  /\ gap \in Nat
           /\ gap < SameWindow => \/ history[i].reach # history[i + 1].reach
                                  \/ history[i].rate # history[i + 1].rate

\* The weekly chart is what its definition says: an hour for every hour with a
\* minute in it, reachable when one of its minutes is, and with all its minutes.
HourlyIsExact ==
  LET points == Since(minutes, MinuteRetention)
      hours  == WeekChart
      In(h)  == {i \in DOMAIN points : Truncate(points[i].t, Hour) = h}
  IN  /\ Times(hours) = {Truncate(t, Hour) : t \in Times(points)}
      /\ Increasing(hours)
      /\ \A k \in DOMAIN hours :
           /\ hours[k].reach = \E i \in In(hours[k].t) : points[i].reach
           /\ hours[k].samples = Cardinality(In(hours[k].t))

\* A week of minutes outlives every crash that does not cut a history file.
WeekSurvives ==
  up /\ ~ cut => \A m \in kept : m + MinuteRetention >= now => m \in Times(minutes)

\* The event log does not repeat itself: neighbours differ in what they say or
\* lie at least MergeWindow apart.
EventsAreMerged ==
  \A i \in 1 .. Len(events) - 1 :
    events[i].message = events[i + 1].message => events[i + 1].t - events[i].t >= MergeWindow

\* After Reboot has returned, no status from before it is served again, also
\* when a Status overlaps the command.
FreshAfterReboot ==
  ~ rebooting /\ up => cached = None \/ cached.boot = boots

=============================================================================
