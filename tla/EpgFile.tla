------------------------------ MODULE EpgFile ------------------------------
(***************************************************************************)
(* The programme guide (EPG schedule) of the services of one multiplex:    *)
(* the worker collects the EIT sections of every service, parses them into *)
(* events and writes one file for each service; the GUI starts the worker  *)
(* when the file of the current service is missing or of another day, and  *)
(* reads the first day of a file to find the current and the next event.   *)
(*                                                                         *)
(* A section carries one event, and every event takes one unit of a file.  *)
(* What the locks and the thread's flag do is for DtvCore: here the GUI    *)
(* does not read while the worker runs (dtv_epg_downloading), and an exit  *)
(* waits for a worker that no longer can be cancelled.                     *)
(***************************************************************************)
EXTENDS Integers, Sequences, FiniteSets, SequencesExt

CONSTANTS
    Services,       \* the services with a schedule, a sequence: the list's order
    Schedules,      \* [service -> sequence of versions]; a version is the set of its
                    \* sections <<table, segment, number, day of the event>>
    ParsedTables,   \* tables 0 .. ParsedTables - 1 are parsed (2)
    DAYS,           \* entries in the index of a file (8)
    MaxChanges,     \* bound: changes of a schedule on air
    MaxCancels,     \* bound: selections
    MaxRefusals,    \* bound: files that cannot be opened for writing
    MaxCrashes,     \* bound: deaths of the process
    MaxTroubles,    \* bound: all of these together
    MaxDay          \* bound: the last date

ServiceSet == {Services[i] : i \in DOMAIN Services}
Tables == {s[1] : s \in UNION {UNION {Schedules[sv][v] : v \in DOMAIN Schedules[sv]}
                                : sv \in ServiceSet}}

ASSUME EpgFileAssumption ==
    /\ {DAYS, ParsedTables} \subseteq Nat \ {0}
    /\ {MaxChanges, MaxCancels, MaxRefusals, MaxCrashes, MaxTroubles, MaxDay} \subseteq Nat
ASSUME ScheduleAssumption ==
    /\ Services \in Seq(ServiceSet)
    /\ \A sv \in ServiceSet :
        /\ Len(Schedules[sv]) \in Nat \ {0} /\ DOMAIN Schedules[sv] = 1 .. Len(Schedules[sv])
        /\ \A v \in DOMAIN Schedules[sv] : IsFiniteSet(Schedules[sv][v])

VARIABLES
    current,        \* the service that plays
    air,            \* which version of its schedule a service sends
    worker,         \* "idle", "collect", "parse", "save", "write"
    have,           \* the sections collected for each service
    table_usage,    \* complete segments of each table of each service
    table_cnt,      \* complete tables of each service
    tmp_cnt,        \* complete services
    events,         \* the events parsed for each service
    next,           \* the position of the service whose file is written next
    file,           \* the files, by service
    today,          \* the date
    steady,         \* history: no schedule changed while it was downloaded
    lastRead,       \* history: the last read, of which file and what it gave
    left            \* what remains of the bounds

vars == <<current, air, worker, have, table_usage, table_cnt, tmp_cnt, events, next, file, today,
          steady, lastRead, left>>
counts == <<table_usage, table_cnt, tmp_cnt>>

On(sv) == Schedules[sv][air[sv]]
NoFile == [state |-> "none", mtime |-> 0, index |-> << >>, data |-> << >>]
NoRead == [from |-> NoFile, list |-> << >>]
Spend(what) ==
    /\ left[what] > 0 /\ left.troubles > 0
    /\ left' = [left EXCEPT ![what] = @ - 1, !.troubles = @ - 1]

\* What the worker begins with: epg, epg_events_list and the counters of each service
Nothing(x) == [sv \in ServiceSet |-> x]
ResetDownload ==
    /\ have' = Nothing({}) /\ events' = Nothing(<< >>)
    /\ table_usage' = Nothing([t \in Tables |-> 0]) /\ table_cnt' = Nothing(0)
    /\ tmp_cnt' = 0

Init ==
    /\ current \in ServiceSet
    /\ air = [sv \in ServiceSet |-> 1]
    /\ worker = "idle" /\ next = 0
    /\ have = Nothing({}) /\ events = Nothing(<< >>)
    /\ table_usage = Nothing([t \in Tables |-> 0]) /\ table_cnt = Nothing(0)
    /\ tmp_cnt = 0
    /\ file = [sv \in ServiceSet |-> NoFile]
    /\ today = 1
    /\ steady = TRUE /\ lastRead = NoRead
    /\ left = [changes |-> MaxChanges, cancels |-> MaxCancels,
               refusals |-> MaxRefusals, crashes |-> MaxCrashes, troubles |-> MaxTroubles]

-----------------------------------------------------------------------------
(* The worker *)

\* Faulty: a file of any day will do
AnyFileWillDo(sv) == file[sv].state # "none"

EpgIsReadyForService(sv) == file[sv].state # "none"
EpgIsActuallForService(sv) == file[sv].state # "none" /\ file[sv].mtime = today

\* The tick starts the worker; get_eit_for_all_service begins with empty tables
StartUpdate ==
    /\ worker = "idle"
    /\ ~(EpgIsReadyForService(current) /\ EpgIsActuallForService(current))
    /\ worker' = "collect"
    /\ ResetDownload
    /\ steady' = TRUE
    /\ UNCHANGED <<current, air, next, file, today, lastRead, left>>

SameSegment(s, r) == s[1] = r[1] /\ s[2] = r[2]
SameSlot(s, r) == SameSegment(s, r) /\ s[3] = r[3]

\* Faulty: one segment is a table; the last table is not counted in.
TableDoneEarly(sv, t) == table_usage'[sv][t] = 1
ServiceDoneLate(sv) == table_cnt'[sv] = Cardinality({r[1] : r \in On(sv)}) + 1

SegmentDone(sv, s) ==
    Cardinality({r \in have[sv] : SameSegment(r, s)}) + 1
        = Cardinality({r \in On(sv) : SameSegment(r, s)})
TableDone(sv, t) == table_usage'[sv][t] = Cardinality({r[2] : r \in {q \in On(sv) : q[1] = t}})
ServiceDone(sv) == table_cnt'[sv] = Cardinality({r[1] : r \in On(sv)})

\* A section that comes whole goes into its slot when that is free
CollectSection(sv, s) ==
    /\ worker = "collect"
    /\ s \in On(sv)
    /\ \A r \in have[sv] : ~SameSlot(s, r)
    /\ have' = [have EXCEPT ![sv] = @ \cup {s}]
    /\ table_usage' = [table_usage EXCEPT ![sv][s[1]] = IF SegmentDone(sv, s) THEN @ + 1 ELSE @]
    /\ table_cnt' = [table_cnt EXCEPT ![sv] =
                        IF SegmentDone(sv, s) /\ TableDone(sv, s[1]) THEN @ + 1 ELSE @]
    /\ tmp_cnt' = IF ServiceDone(sv) THEN tmp_cnt + 1 ELSE tmp_cnt
    /\ worker' = IF ServiceDone(sv) /\ tmp_cnt' = Len(Services) THEN "parse" ELSE "collect"
    /\ UNCHANGED <<current, air, events, next, file, today, steady, lastRead, left>>

Collect == \E sv \in ServiceSet : \E s \in On(sv) : CollectSection(sv, s)

\* Table by table, segment by segment; the tables above ParsedTables are left behind
InOrder(s, r) ==
    \/ s[1] < r[1]
    \/ s[1] = r[1] /\ s[2] < r[2]
    \/ SameSegment(s, r) /\ s[3] < r[3]

\* The sections of S in this order: each stands behind as many as come before it
Ordered(S) ==
    [i \in 1 .. Cardinality(S) |->
        CHOOSE s \in S : Cardinality({r \in S : InOrder(r, s)}) = i - 1]

\* Faulty: all tables are parsed
ParseAllTables ==
    /\ worker = "parse"
    /\ events' = [sv \in ServiceSet |-> Ordered(have[sv])]
    /\ have' = [sv \in ServiceSet |-> {}]
    /\ worker' = "save" /\ next' = 1
    /\ UNCHANGED <<current, air, counts, file, today, steady, lastRead, left>>

parse_eit_sections_for_epg ==
    /\ worker = "parse"
    /\ events' = [sv \in ServiceSet |->
                    Ordered({s \in have[sv] : s[1] < ParsedTables})]
    /\ have' = [sv \in ServiceSet |-> {}]
    /\ worker' = "save" /\ next' = 1
    /\ UNCHANGED <<current, air, counts, file, today, steady, lastRead, left>>

\* Faulty: the first event of a day is not counted
AddToIndexLate(index, s) ==
    IF index # << >> /\ Last(index).day = s[4]
    THEN [index EXCEPT ![Len(index)].events = @ + 1, ![Len(index)].size = @ + 1]
    ELSE Append(index, [day |-> s[4], events |-> 0, size |-> 1])

\* The index of a file: the events and the units of each day, where the last event is
\* counted twice
AddToIndex(index, s) ==
    IF index # << >> /\ Last(index).day = s[4]
    THEN [index EXCEPT ![Len(index)].events = @ + 1, ![Len(index)].size = @ + 1]
    ELSE Append(index, [day |-> s[4], events |-> 1, size |-> 1])

IndexOf(list) ==
    LET after[n \in 0 .. Len(list)] ==
            IF n = 0 THEN << >> ELSE AddToIndex(after[n - 1], list[n])
        index == after[Len(list)]
    IN  [index EXCEPT ![Len(index)].size = @ + 1]

\* save_service_2epg: nothing for a service without events; else the file is truncated,
\* written and closed
SkipService ==
    /\ worker = "save" /\ next \in DOMAIN Services
    /\ events[Services[next]] = << >>
    /\ next' = next + 1
    /\ UNCHANGED <<current, air, worker, have, counts, events, file, today, steady, lastRead, left>>

SaveOpen ==
    /\ worker = "save" /\ next \in DOMAIN Services
    /\ events[Services[next]] # << >>
    /\ worker' = "write"
    /\ file' = [file EXCEPT ![Services[next]] = [NoFile EXCEPT !.state = "empty", !.mtime = today]]
    /\ UNCHANGED <<current, air, have, counts, events, next, today, steady, lastRead, left>>

\* fopen fails: the old file stays, and the next service has its turn
SaveRefused ==
    /\ worker = "save" /\ next \in DOMAIN Services
    /\ events[Services[next]] # << >>
    /\ Spend("refusals")
    /\ next' = next + 1
    /\ UNCHANGED <<current, air, worker, have, counts, events, file, today, steady, lastRead>>

SaveClose ==
    /\ worker = "write"
    /\ worker' = "save" /\ next' = next + 1
    /\ LET sv == Services[next]
       IN  file' = [file EXCEPT ![sv] = [state |-> "whole", mtime |-> today,
                                         index |-> IndexOf(events[sv]), data |-> events[sv]]]
    /\ UNCHANGED <<current, air, have, counts, events, today, steady, lastRead, left>>

SaveEnd ==
    /\ worker = "save" /\ next \notin DOMAIN Services
    /\ worker' = "idle" /\ next' = 0
    /\ UNCHANGED <<current, air, have, counts, events, file, today, steady, lastRead, left>>

\* An exit ends the worker, which has cancellation disabled after the collection
UpdateExit ==
    /\ worker \in {"idle", "collect"}
    /\ worker' = "idle"

\* A selection waits for that and plays the same or another service
SelectService ==
    /\ Spend("cancels")
    /\ UpdateExit
    /\ current' \in ServiceSet
    /\ UNCHANGED <<air, have, counts, events, next, file, today, steady, lastRead>>

-----------------------------------------------------------------------------
(* The reader: DTV_EPG_Get_Channel_Events_List of the first day, for the   *)
(* current and the next event of DTV_Get_..._Event_From_File               *)

Readable(sv) == worker = "idle" /\ file[sv].state \in {"whole", "cut"}
DaySize(sv) == file[sv].index[1].size

ReadDay(sv) ==
    /\ Readable(sv)
    /\ DaySize(sv) <= Len(file[sv].data)
    /\ lastRead' = [from |-> file[sv], list |-> SubSeq(file[sv].data, 1, DaySize(sv))]
    /\ UNCHANGED <<current, air, worker, have, counts, events, next, file, today, steady, left>>

\* Behind the last event of a whole file the header is zero: the file is removed
ReadPastEnd(sv) ==
    /\ Readable(sv) /\ file[sv].state = "whole"
    /\ DaySize(sv) > Len(file[sv].data)
    /\ file' = [file EXCEPT ![sv] = NoFile]
    /\ lastRead' = [from |-> file[sv], list |-> << >>]
    /\ UNCHANGED <<current, air, worker, have, counts, events, next, today, steady, left>>

\* Death of the process: at any time (the supervisor starts it again); reading behind a
\* cut file, whose length is a multiple of the page; or asking for the event after the
\* last one of a day, which nobody tests for NULL.  A file that was being written stays
\* empty or cut.
CutFiles(sv) ==
    {[file[sv] EXCEPT !.state = "cut", !.index = IndexOf(events[sv]),
                      !.data = SubSeq(events[sv], 1, k)] : k \in 0 .. Len(events[sv]) - 1}

CrashRestart ==
    /\ Spend("crashes")
    /\ \/ UNCHANGED file
       \/ /\ worker = "write"
          /\ \E f \in CutFiles(Services[next]) : file' = [file EXCEPT ![Services[next]] = f]
    /\ worker' = "idle" /\ next' = 0
    /\ ResetDownload
    /\ lastRead' = NoRead
    /\ UNCHANGED <<current, air, today, steady>>

-----------------------------------------------------------------------------
(* The environment *)

ScheduleChanges ==
    /\ Spend("changes")
    /\ \E sv \in ServiceSet :
        /\ air[sv] < Len(Schedules[sv])
        /\ air' = [air EXCEPT ![sv] = @ + 1]
    /\ steady' = (steady /\ worker = "idle")
    /\ UNCHANGED <<current, worker, have, counts, events, next, file, today, lastRead>>

Midnight ==
    /\ today < MaxDay
    /\ today' = today + 1
    /\ UNCHANGED <<current, air, worker, have, counts, events, next, file, steady, lastRead, left>>

Save == SkipService \/ SaveOpen \/ SaveRefused \/ SaveClose \/ SaveEnd

Next ==
    \/ StartUpdate \/ Collect \/ parse_eit_sections_for_epg \/ Save
    \/ SelectService \/ CrashRestart \/ ScheduleChanges \/ Midnight
    \/ \E sv \in ServiceSet : ReadDay(sv) \/ ReadPastEnd(sv)

(* The tick comes again and again, the worker is scheduled, and the        *)
(* broadcaster repeats every section.                                      *)
Fairness == WF_vars(StartUpdate) /\ WF_vars(Collect) /\ WF_vars(parse_eit_sections_for_epg)
            /\ WF_vars(Save)

Spec == Init /\ [][Next]_vars /\ Fairness

-----------------------------------------------------------------------------
Files == [state : {"none", "empty", "whole", "cut"}, mtime : 0 .. MaxDay,
          index : Seq([day : Nat, events : Nat, size : Nat]), data : Seq(Nat \X Nat \X Nat \X Nat)]

TypeOK ==
    /\ current \in ServiceSet
    /\ worker \in {"idle", "collect", "parse", "save", "write"}
    /\ next \in 0 .. Len(Services) + 1
    /\ tmp_cnt \in 0 .. Len(Services)
    /\ \A sv \in ServiceSet :
        /\ air[sv] \in DOMAIN Schedules[sv]
        /\ table_cnt[sv] \in 0 .. Cardinality(Tables)
        /\ file[sv] \in Files
    /\ today \in 1 .. MaxDay /\ steady \in BOOLEAN

(* The counters of segments, tables and services end the collection when   *)
(* every section of every service is there, neither before, with a guide   *)
(* that has holes, nor by counting a service twice, whatever the order of  *)
(* the sections (eit.cpp:240-263), unless the broadcaster changed one.     *)
Guide(S) == Ordered({s \in S : s[1] < ParsedTables})
Saving == worker \in {"save", "write"} /\ steady
GuideWhole ==
    Saving => \A sv \in ServiceSet :
                events[sv] = Guide(On(sv))

(* The index of a file has eight entries, and y1 is never tested           *)
(* (eit.cpp:1206): the events in file order begin at most eight days.      *)
IndexFits ==
    Saving => \A sv \in ServiceSet :
                events[sv] # << >> => Len(IndexOf(events[sv])) <= DAYS

(* What a stream has to be like for that: no two sections of a schedule in *)
(* one slot, the events of the parsed tables in order of time, and not more *)
(* than eight dates from the first to the last, in local time.             *)
IsSchedule(S) ==
    /\ S \subseteq Nat \X Nat \X Nat \X Nat
    /\ \A s, r \in S : SameSlot(s, r) => s = r
InTime(S) ==
    /\ \A s, r \in S : InOrder(s, r) => s[4] <= r[4]
    /\ \A s, r \in S : s[4] < r[4] + DAYS
SchedulesFit ==
    \A sv \in ServiceSet : \A v \in DOMAIN Schedules[sv] :
        /\ IsSchedule(Schedules[sv][v])
        /\ InTime({s \in Schedules[sv][v] : s[1] < ParsedTables})

(* A read gives the events of the first day, all of them and no other, from *)
(* the sizes in the index (dtv_usr_epg.cpp:225), even out of a cut file.    *)
(* Or it gives nothing and removes the file: the last event is counted in   *)
(* the sizes twice (eit.cpp:1221), and where the first day is also the last *)
(* the reader runs into what lies behind it.  Only a guide of one day is    *)
(* lost in this way.                                                        *)
FirstDayRead ==
    LET from == lastRead.from
        n == Len(lastRead.list)
        OnFirstDay(k) == from.data[k][4] = from.data[1][4]
    IN  from.state # "none" =>
            IF n = 0
            THEN from.state = "whole" /\ \A k \in 1 .. Len(from.data) : OnFirstDay(k)
            ELSE /\ n = from.index[1].events
                 /\ \A k \in 1 .. n : OnFirstDay(k)
                 /\ n < Len(from.data) => ~OnFirstDay(n + 1)

(* A download with no change of the schedule ends: no count is missed.     *)
DownloadEnds == (worker = "collect" /\ steady) ~> (worker # "collect" \/ ~steady)

(* In the end the file of the service that plays is of today and, if it was *)
(* closed, has in it the whole of a schedule the broadcaster sent, whatever  *)
(* selections, files that could not be opened and deaths of the process      *)
(* interrupted its download, in the file of whichever service.  Two things   *)
(* are excepted.  A file that a death left empty or cut counts as good until *)
(* midnight, because only the date is looked at (eit.cpp:1850).  And a guide *)
(* of a single day is removed by every read and downloaded again.            *)
SpansDays(S) == \E s, r \in S : {s[1], r[1]} \subseteq 0 .. ParsedTables - 1 /\ s[4] # r[4]
OfToday(sv) ==
    /\ file[sv].mtime = today
    /\ \/ file[sv].state \in {"empty", "cut"}
       \/ \E v \in DOMAIN Schedules[sv] : file[sv].data = Guide(Schedules[sv][v])

GuideOfToday == []steady => <>[](SpansDays(On(current)) => OfToday(current))
=============================================================================
