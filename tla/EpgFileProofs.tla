--------------------------- MODULE EpgFileProofs ----------------------------
(* The programme guide, for any services and schedules of finitely many      *)
(* sections: the counters of segments, tables and services that end the      *)
(* collection count what is there, and a read of the first day gives it out  *)
(* of every file a download leaves, whole or cut.  For streams whose events  *)
(* are in order of time: what is saved is in that order, and its index is    *)
(* long enough.                                                              *)
EXTENDS EpgFile, WellFoundedInduction, FiniteSetTheorems, SequenceTheorems, TLAPS

\* A set of numbers that is not empty has a first one.
LEMMA HasFirst ==
  ASSUME NEW S, S \subseteq Nat, S # {}
  PROVE  \E i \in S : \A j \in S : i <= j
<1> DEFINE Less == {ss \in Nat \X Nat : ss[1] < ss[2]}
<1>1. IsWellFoundedOn(Less, Nat)
  BY NatLessThanWellFounded DEF OpToRel
<1>2. PICK i \in S : \A j \in S : ~ (<<j, i>> \in Less)
  <2> HIDE DEF Less
  <2> QED
    BY <1>1, WFMin
<1>3. \A j \in S : i <= j
  <2> SUFFICES ASSUME NEW j \in S, ~ (i <= j) PROVE FALSE
    OBVIOUS
  <2>1. <<j, i>> \in Less
    BY <1>2
  <2> QED
    BY <1>2, <2>1
<1> QED
  BY <1>3

-----------------------------------------------------------------------------
(* Counting the complete segments and tables of a set of sections *)

TableSet(all) == {r[1] : r \in all}
SegmentSet(all, t) == {r[2] : r \in {q \in all : q[1] = t}}
Segment(S, s) == {r \in S : SameSegment(r, s)}

\* The segments of a table, and the tables, of which every section is among those got.
DoneSegments(all, got, t) ==
  {g \in SegmentSet(all, t) : \A r \in all : r[1] = t /\ r[2] = g => r \in got}
DoneTables(all, got) ==
  {t \in TableSet(all) : \A r \in all : r[1] = t => r \in got}

\* The test of CollectSection on a segment.
SegmentFilled(all, got, s) ==
  Cardinality(Segment(got, s)) + 1 = Cardinality(Segment(all, s))

\* What it tests: the section s is the last one missing of its segment.
Completes(all, got, s) == \A r \in all : SameSegment(r, s) => r \in got \cup {s}

\* What a function makes of a finite set is finite.
LEMMA ImageFinite ==
  ASSUME NEW f, IsFiniteSet(DOMAIN f)
  PROVE  IsFiniteSet({f[x] : x \in DOMAIN f})
<1> DEFINE S == DOMAIN f
           T == {f[x] : x \in S}
           h == [x \in S |-> f[x]]
<1>1. h \in Surjection(S, T)
  BY DEF Surjection
<1> QED
  BY <1>1, FS_Surjection

LEMMA SectionsFinite ==
  ASSUME NEW all, IsFiniteSet(all), NEW got
  PROVE  /\ IsFiniteSet(TableSet(all)) /\ IsFiniteSet(DoneTables(all, got))
         /\ \A t : IsFiniteSet(SegmentSet(all, t)) /\ IsFiniteSet(DoneSegments(all, got, t))
<1>1. IsFiniteSet(TableSet(all))
  <2> DEFINE f == [r \in all |-> r[1]]
  <2>1. DOMAIN f = all /\ TableSet(all) = {f[x] : x \in DOMAIN f}
    BY DEF TableSet
  <2> HIDE DEF f
  <2> QED
    BY <2>1, ImageFinite
<1>2. ASSUME NEW t
      PROVE  IsFiniteSet(SegmentSet(all, t))
  <2> DEFINE S == {q \in all : q[1] = t}
             f == [r \in S |-> r[2]]
  <2>1. IsFiniteSet(S)
    BY FS_Subset
  <2>2. DOMAIN f = S /\ SegmentSet(all, t) = {f[x] : x \in DOMAIN f}
    BY DEF SegmentSet
  <2> HIDE DEF f, S
  <2> QED
    BY <2>1, <2>2, ImageFinite
<1>3. DoneTables(all, got) \in SUBSET TableSet(all)
  BY DEF DoneTables
<1>4. \A t : DoneSegments(all, got, t) \in SUBSET SegmentSet(all, t)
  BY DEF DoneSegments
<1>5. IsFiniteSet(DoneTables(all, got))
  BY <1>1, <1>3, FS_Subset
<1>6. \A t : IsFiniteSet(DoneSegments(all, got, t))
  BY <1>2, <1>4, FS_Subset
<1> QED
  BY <1>1, <1>2, <1>5, <1>6

\* A subset that is as large as the set is the set.
LEMMA SameSize ==
  ASSUME NEW S, NEW T \in SUBSET S, IsFiniteSet(S)
  PROVE  Cardinality(T) = Cardinality(S) <=> S \subseteq T
BY FS_Subset

\* Filling the last free slot of a segment is what the test sees.
LEMMA FilledIsComplete ==
  ASSUME NEW all, IsFiniteSet(all), NEW got \in SUBSET all, NEW s \in all, s \notin got
  PROVE  SegmentFilled(all, got, s) <=> Completes(all, got, s)
<1> DEFINE A == Segment(all, s)
           G == Segment(got, s)
<1>1. IsFiniteSet(A) /\ G \in SUBSET A /\ s \in A /\ s \notin G
  <2>1. A \in SUBSET all
    BY DEF Segment
  <2> QED
    BY <2>1, FS_Subset DEF Segment, SameSegment
<1>2. IsFiniteSet(G)
  BY <1>1, FS_Subset
<1>3. Cardinality(G \cup {s}) = Cardinality(G) + 1
  BY <1>1, <1>2, FS_AddElement
<1>4. G \cup {s} \in SUBSET A
  BY <1>1
<1>5. Cardinality(G \cup {s}) = Cardinality(A) <=> A \subseteq G \cup {s}
  BY <1>1, <1>4, SameSize
<1>6. A \subseteq G \cup {s} <=> Completes(all, got, s)
  BY DEF Segment, Completes
<1> QED
  BY <1>3, <1>5, <1>6 DEF SegmentFilled

\* One more section: which segments and tables it completes.
LEMMA OneMoreSection ==
  ASSUME NEW all, NEW got \in SUBSET all, NEW s \in all, s \notin got
  PROVE  /\ \A t : DoneSegments(all, got \cup {s}, t) =
                     IF Completes(all, got, s) /\ t = s[1] THEN DoneSegments(all, got, t) \cup {s[2]}
                     ELSE DoneSegments(all, got, t)
         /\ s[2] \notin DoneSegments(all, got, s[1])
         /\ s[1] \notin DoneTables(all, got)
         /\ DoneTables(all, got \cup {s}) =
              IF Completes(all, got, s) /\ s[1] \in DoneTables(all, got \cup {s})
              THEN DoneTables(all, got) \cup {s[1]} ELSE DoneTables(all, got)
<1> DEFINE now == got \cup {s}
           full == Completes(all, got, s)
<1>1. s[2] \in SegmentSet(all, s[1]) /\ s[1] \in TableSet(all)
  BY DEF SegmentSet, TableSet
<1>2. s[2] \notin DoneSegments(all, got, s[1]) /\ s[1] \notin DoneTables(all, got)
  BY DEF DoneSegments, DoneTables
<1>3. ASSUME NEW t
      PROVE  DoneSegments(all, now, t) =
               IF full /\ t = s[1] THEN DoneSegments(all, got, t) \cup {s[2]}
               ELSE DoneSegments(all, got, t)
  <2>1. ASSUME NEW g \in SegmentSet(all, t), ~ (t = s[1] /\ g = s[2])
        PROVE  g \in DoneSegments(all, now, t) <=> g \in DoneSegments(all, got, t)
    BY <2>1 DEF DoneSegments
  <2>2. t = s[1] => (s[2] \in DoneSegments(all, now, t) <=> full)
    BY <1>1 DEF DoneSegments, SameSegment, Completes
  <2>3. DoneSegments(all, now, t) \subseteq SegmentSet(all, t)
        /\ DoneSegments(all, got, t) \subseteq SegmentSet(all, t)
    BY DEF DoneSegments
  <2> QED
    BY <1>2, <2>1, <2>2, <2>3
<1>4. DoneTables(all, now) =
        IF full /\ s[1] \in DoneTables(all, now)
        THEN DoneTables(all, got) \cup {s[1]} ELSE DoneTables(all, got)
  <2>1. ASSUME NEW t \in TableSet(all), t # s[1]
        PROVE  t \in DoneTables(all, now) <=> t \in DoneTables(all, got)
    BY <2>1 DEF DoneTables
  <2>2. s[1] \in DoneTables(all, now) => full
    BY DEF DoneTables, SameSegment, Completes
  <2>3. DoneTables(all, now) \subseteq TableSet(all) /\ DoneTables(all, got) \subseteq TableSet(all)
    BY DEF DoneTables
  <2> QED
    BY <1>2, <2>1, <2>2, <2>3
<1> QED
  BY <1>2, <1>3, <1>4

\* A table is done when as many of its segments are as it has, a service when as
\* many of its tables are.
LEMMA AllSegmentsAreATable ==
  ASSUME NEW all, IsFiniteSet(all), NEW got, NEW t \in TableSet(all)
  PROVE  Cardinality(DoneSegments(all, got, t)) = Cardinality(SegmentSet(all, t))
           <=> t \in DoneTables(all, got)
<1>1. DoneSegments(all, got, t) \in SUBSET SegmentSet(all, t)
  BY DEF DoneSegments
<1>2. SegmentSet(all, t) \subseteq DoneSegments(all, got, t) <=> t \in DoneTables(all, got)
  BY DEF DoneSegments, DoneTables, SegmentSet
<1> QED
  BY <1>1, <1>2, SectionsFinite, SameSize

\* All tables are complete when every section is there, and only then.
LEMMA AllTablesAreAService ==
  ASSUME NEW all, IsFiniteSet(all), NEW got
  PROVE  Cardinality(DoneTables(all, got)) = Cardinality(TableSet(all)) <=> all \subseteq got
<1>1. DoneTables(all, got) \in SUBSET TableSet(all)
  BY DEF DoneTables
<1>2. TableSet(all) \subseteq DoneTables(all, got) <=> all \subseteq got
  BY DEF DoneTables, TableSet
<1> QED
  BY <1>1, <1>2, SectionsFinite, SameSize

-----------------------------------------------------------------------------
(* The download *)

FrameInv ==
  /\ worker \in {"idle", "collect", "parse", "save", "write"}
  /\ steady \in BOOLEAN
  /\ air \in [ServiceSet -> Nat]
  /\ \A sv \in ServiceSet : air[sv] \in DOMAIN Schedules[sv]
  /\ DOMAIN have = ServiceSet
  /\ table_usage \in [ServiceSet -> [Tables -> Nat]]
  /\ table_cnt \in [ServiceSet -> Nat]
  /\ tmp_cnt \in Nat

\* The services of which everything is there: a service that sends nothing is
\* never counted, so with one announced the collection does not end.
DoneServices == {sv \in ServiceSet : On(sv) # {} /\ On(sv) \subseteq have[sv]}

ServiceCounted(sv) ==
  /\ have[sv] \subseteq On(sv)
  /\ \A t \in TableSet(On(sv)) :
        table_usage[sv][t] = Cardinality(DoneSegments(On(sv), have[sv], t))
  /\ table_cnt[sv] = Cardinality(DoneTables(On(sv), have[sv]))

Counted ==
  /\ \A sv \in ServiceSet : ServiceCounted(sv)
  /\ tmp_cnt = Cardinality(DoneServices)

\* As long as no schedule has changed since the download began: the counters
\* count while sections are collected, everything is there when they are parsed,
\* and the events saved are those of all sections.
GuideInv ==
  steady =>
    /\ worker = "collect" => Counted
    /\ worker = "parse" => \A sv \in ServiceSet : have[sv] = On(sv)
    /\ GuideWhole

LEMMA ServicesFinite == IsFiniteSet(ServiceSet) /\ Len(Services) \in Nat
                        /\ Cardinality(ServiceSet) <= Len(Services)
<1>1. Len(Services) \in Nat /\ DOMAIN Services = 1 .. Len(Services)
  BY ScheduleAssumption
<1>2. IsFiniteSet(1 .. Len(Services)) /\ Cardinality(1 .. Len(Services)) = Len(Services)
  <2> DEFINE n == Len(Services)
  <2>1. n \in Nat
    BY <1>1
  <2> HIDE DEF n
  <2>2. IsFiniteSet(1 .. n) /\ Cardinality(1 .. n) = IF 1 > n THEN 0 ELSE (n - 1) + 1
    BY <2>1, FS_Interval
  <2>3. Cardinality(1 .. n) = n
    BY <2>1, <2>2
  <2> QED
    BY <2>2, <2>3 DEF n
<1> DEFINE h == [i \in 1 .. Len(Services) |-> Services[i]]
<1>3. h \in Surjection(1 .. Len(Services), ServiceSet)
  BY <1>1 DEF Surjection, ServiceSet
<1> QED
  BY <1>1, <1>2, <1>3, FS_Surjection

LEMMA OnFinite == FrameInv => \A sv \in ServiceSet : IsFiniteSet(On(sv)) /\ TableSet(On(sv)) \subseteq Tables
BY ScheduleAssumption DEF FrameInv, On, Tables, TableSet

LEMMA InitFrame == Init => FrameInv
BY ScheduleAssumption DEF Init, Nothing, FrameInv

LEMMA ResetFrame ==
  ResetDownload => /\ DOMAIN have' = ServiceSet
                   /\ table_usage' \in [ServiceSet -> [Tables -> Nat]]
                   /\ table_cnt' \in [ServiceSet -> Nat]
                   /\ tmp_cnt' \in Nat
BY DEF ResetDownload, Nothing

LEMMA FrameStep == FrameInv /\ [Next]_vars => FrameInv'
<1> SUFFICES ASSUME FrameInv, [Next]_vars
             PROVE  FrameInv'
  OBVIOUS
<1>1. CASE StartUpdate
  BY <1>1, ResetFrame DEF FrameInv, StartUpdate
<1>2. ASSUME NEW sv \in ServiceSet, NEW s \in On(sv), CollectSection(sv, s)
      PROVE  FrameInv'
  <2>1. worker' \in {"collect", "parse"} /\ steady' = steady /\ air' = air
    BY <1>2 DEF CollectSection
  <2>2. s[1] \in Tables
    BY OnFinite DEF TableSet
  <2>3. DOMAIN have' = ServiceSet
    BY <1>2 DEF CollectSection, FrameInv
  <2>4. table_usage' \in [ServiceSet -> [Tables -> Nat]]
    <3> DEFINE x == IF SegmentDone(sv, s) THEN table_usage[sv][s[1]] + 1 ELSE table_usage[sv][s[1]]
    <3>1. table_usage' = [table_usage EXCEPT ![sv][s[1]] = x]
      BY <1>2 DEF CollectSection
    <3>2. x \in Nat
      BY <2>2 DEF FrameInv
    <3> HIDE DEF x
    <3> QED
      BY <2>2, <3>1, <3>2 DEF FrameInv
  <2>5. table_cnt' \in [ServiceSet -> Nat] /\ tmp_cnt' \in Nat
    <3>1. PICK x \in {table_cnt[sv], table_cnt[sv] + 1} : table_cnt' = [table_cnt EXCEPT ![sv] = x]
      BY <1>2 DEF CollectSection
    <3>2. tmp_cnt' \in {tmp_cnt, tmp_cnt + 1}
      BY <1>2 DEF CollectSection
    <3>3. x \in Nat
      BY <3>1 DEF FrameInv
    <3> QED
      BY <3>1, <3>2, <3>3 DEF FrameInv
  <2> QED
    BY <2>1, <2>3, <2>4, <2>5 DEF FrameInv
<1>3. CASE parse_eit_sections_for_epg
  BY <1>3 DEF parse_eit_sections_for_epg, counts, FrameInv
<1>4. CASE Save \/ SelectService \/ Midnight
  BY <1>4 DEF Save, SkipService, SaveOpen, SaveRefused, SaveClose, SaveEnd, SelectService, UpdateExit, Midnight, counts, FrameInv
<1>5. CASE CrashRestart
  BY <1>5, ResetFrame DEF CrashRestart, FrameInv
<1>6. CASE ScheduleChanges
  <2>1. PICK sv \in ServiceSet : air[sv] < Len(Schedules[sv]) /\ air' = [air EXCEPT ![sv] = @ + 1]
    BY <1>6 DEF ScheduleChanges
  <2>2. air[sv] \in Nat /\ air[sv] + 1 \in DOMAIN Schedules[sv]
    BY <2>1, ScheduleAssumption DEF FrameInv
  <2>3. air' \in [ServiceSet -> Nat] /\ \A q \in ServiceSet : air'[q] \in DOMAIN Schedules[q]
    BY <2>1, <2>2 DEF FrameInv
  <2> QED
    BY <1>6, <2>3 DEF ScheduleChanges, counts, FrameInv
<1>7. ASSUME NEW sv \in ServiceSet, ReadDay(sv) \/ ReadPastEnd(sv)
      PROVE  FrameInv'
  BY <1>7 DEF ReadDay, ReadPastEnd, counts, FrameInv
<1>8. CASE UNCHANGED vars
  BY <1>8 DEF vars, counts, FrameInv
<1> QED
  BY <1>1, <1>2, <1>3, <1>4, <1>5, <1>6, <1>7, <1>8 DEF Next, Collect

-----------------------------------------------------------------------------
(* The counters *)

\* At the beginning nothing is there and every counter is 0.
LEMMA NothingCounted ==
  ASSUME NEW all
  PROVE  (\A t : DoneSegments(all, {}, t) = {}) /\ DoneTables(all, {}) = {}
BY DEF DoneSegments, DoneTables, SegmentSet, TableSet

\* A download starts with every counter at zero and no section.
LEMMA StartCounted == FrameInv /\ StartUpdate => Counted'
<1> SUFFICES ASSUME FrameInv, StartUpdate
             PROVE  Counted'
  OBVIOUS
<1>1. air' = air /\ \A sv \in ServiceSet : have'[sv] = {} /\ table_cnt'[sv] = 0
                     /\ \A t \in Tables : table_usage'[sv][t] = 0
  BY DEF StartUpdate, ResetDownload, Nothing
<1>2. \A sv \in ServiceSet : On(sv)' = On(sv)
  BY <1>1 DEF On
<1>3. ASSUME NEW sv \in ServiceSet
      PROVE  ServiceCounted(sv)'
  BY <1>1, <1>2, OnFinite, NothingCounted, FS_EmptySet DEF ServiceCounted
<1>4. DoneServices' = {}
  BY <1>1 DEF DoneServices
<1>5. tmp_cnt' = 0
  BY DEF StartUpdate, ResetDownload
<1> QED
  BY <1>3, <1>4, <1>5, FS_EmptySet DEF Counted

\* One section counted: the counters stay right, and the collection ends only
\* with everything there.
LEMMA CollectCounted ==
  ASSUME FrameInv, Counted, NEW sv \in ServiceSet, NEW s \in On(sv), CollectSection(sv, s)
  PROVE  Counted' /\ (worker' = "parse" => \A q \in ServiceSet : have'[q] = On(q)')
<1> DEFINE all == On(sv)
           got == have[sv]
           full == Completes(all, got, s)
           ends == full /\ s[1] \in DoneTables(all, got \cup {s})
<1>1. IsFiniteSet(all) /\ got \in SUBSET all /\ s \in all /\ s \notin got /\ s[1] \in TableSet(all)
      /\ TableSet(all) \subseteq Tables
  BY OnFinite DEF Counted, ServiceCounted, CollectSection, SameSlot, SameSegment, TableSet
<1>2. air' = air /\ \A q \in ServiceSet : On(q)' = On(q)
  BY DEF CollectSection, On
<1>3. have'[sv] = got \cup {s} /\ \A q \in ServiceSet : q # sv => have'[q] = have[q]
  BY DEF CollectSection, FrameInv
<1>4. full <=> SegmentDone(sv, s)
  <2>1. SegmentDone(sv, s) <=> SegmentFilled(all, got, s)
    BY DEF SegmentFilled, Segment, SegmentDone
  <2> QED
    BY <1>1, <2>1, FilledIsComplete
<1>6. /\ \A t : DoneSegments(all, got \cup {s}, t) =
                  IF full /\ t = s[1] THEN DoneSegments(all, got, t) \cup {s[2]}
                  ELSE DoneSegments(all, got, t)
      /\ s[2] \notin DoneSegments(all, got, s[1])
      /\ s[1] \notin DoneTables(all, got)
      /\ DoneTables(all, got \cup {s}) =
           IF ends THEN DoneTables(all, got) \cup {s[1]} ELSE DoneTables(all, got)
  <2> HIDE DEF all, got
  <2> QED
    BY <1>1, OneMoreSection
<1>7. table_usage' = [table_usage EXCEPT ![sv][s[1]] = IF full THEN @ + 1 ELSE @]
  BY <1>4 DEF CollectSection
<1>8. /\ \A t \in TableSet(all) :
           table_usage'[sv][t] = Cardinality(DoneSegments(all, got \cup {s}, t))
      /\ \A q \in ServiceSet : q # sv => table_usage'[q] = table_usage[q]
  <2>1. ASSUME NEW t \in TableSet(all)
        PROVE  table_usage'[sv][t] = IF full /\ t = s[1] THEN table_usage[sv][t] + 1
                                     ELSE table_usage[sv][t]
    <3> HIDE DEF full, all
    <3> QED
      BY <1>1, <1>7, <2>1 DEF FrameInv
  <2>2. ASSUME NEW t \in TableSet(all)
        PROVE  table_usage[sv][t] = Cardinality(DoneSegments(all, got, t))
    BY <2>2 DEF Counted, ServiceCounted
  <2>3. Cardinality(DoneSegments(all, got, s[1]) \cup {s[2]})
          = Cardinality(DoneSegments(all, got, s[1])) + 1
    BY <1>1, <1>6, SectionsFinite, FS_AddElement
  <2>4. \A q \in ServiceSet : q # sv => table_usage'[q] = table_usage[q]
    BY <1>7 DEF FrameInv
  <2> HIDE DEF full, all, got
  <2> QED
    BY <1>6, <2>1, <2>2, <2>3, <2>4
<1>9. TableDone(sv, s[1]) <=> s[1] \in DoneTables(all, got \cup {s})
  <2>1. TableDone(sv, s[1]) <=> table_usage'[sv][s[1]] = Cardinality(SegmentSet(all, s[1]))
    BY DEF TableDone, SegmentSet
  <2> HIDE DEF full, all, got
  <2> QED
    BY <1>1, <1>8, <2>1, AllSegmentsAreATable
<1>10. table_cnt' = [table_cnt EXCEPT ![sv] = IF ends THEN @ + 1 ELSE @]
  BY <1>4, <1>9 DEF CollectSection
<1>11. /\ table_cnt'[sv] = Cardinality(DoneTables(all, got \cup {s}))
       /\ \A q \in ServiceSet : q # sv => table_cnt'[q] = table_cnt[q]
  <2>1. table_cnt'[sv] = IF ends THEN table_cnt[sv] + 1 ELSE table_cnt[sv]
    <3> HIDE DEF ends
    <3> QED
      BY <1>10 DEF FrameInv
  <2>2. table_cnt[sv] = Cardinality(DoneTables(all, got))
    BY DEF Counted, ServiceCounted
  <2>3. Cardinality(DoneTables(all, got) \cup {s[1]}) = Cardinality(DoneTables(all, got)) + 1
    BY <1>1, <1>6, SectionsFinite, FS_AddElement
  <2>4. \A q \in ServiceSet : q # sv => table_cnt'[q] = table_cnt[q]
    BY <1>10 DEF FrameInv
  <2> HIDE DEF ends, all, got
  <2> QED
    BY <1>6, <2>1, <2>2, <2>3, <2>4
<1>12. ServiceDone(sv) <=> all \subseteq got \cup {s}
  <2>1. ServiceDone(sv) <=> table_cnt'[sv] = Cardinality(TableSet(all))
    BY DEF ServiceDone, TableSet
  <2> HIDE DEF full, all, got
  <2> QED
    BY <1>1, <1>11, <2>1, AllTablesAreAService
<1>13. \A q \in ServiceSet : ServiceCounted(q)'
  <2>1. ServiceCounted(sv)'
    <3>1. On(sv)' = all /\ have'[sv] = got \cup {s} /\ got \cup {s} \subseteq all
      BY <1>1, <1>2, <1>3
    <3> HIDE DEF all, got
    <3> QED
      BY <1>8, <1>11, <3>1 DEF ServiceCounted
  <2>2. ASSUME NEW q \in ServiceSet, q # sv
        PROVE  ServiceCounted(q)'
    <3>1. ServiceCounted(q) /\ On(q)' = On(q) /\ have'[q] = have[q]
          /\ table_usage'[q] = table_usage[q] /\ table_cnt'[q] = table_cnt[q]
      BY <1>2, <1>3, <1>8, <1>11, <2>2 DEF Counted
    <3> QED
      BY <3>1 DEF ServiceCounted
  <2> QED
    BY <2>1, <2>2
<1>14. DoneServices' = IF ServiceDone(sv) THEN DoneServices \cup {sv} ELSE DoneServices
  <2>1. DoneServices' = {q \in ServiceSet : On(q) # {} /\ On(q) \subseteq have'[q]}
    BY <1>2 DEF DoneServices
  <2>2. all # {}
    BY <1>1
  <2>3. sv \in DoneServices' <=> ServiceDone(sv)
    BY <1>3, <1>12, <2>1, <2>2
  <2>4. sv \notin DoneServices
    BY <1>1 DEF DoneServices
  <2>5. \A q \in ServiceSet : q # sv => (q \in DoneServices' <=> q \in DoneServices)
    BY <1>3, <2>1 DEF DoneServices
  <2>6. DoneServices \subseteq ServiceSet /\ DoneServices' \subseteq ServiceSet
    BY DEF DoneServices
  <2> QED
    BY <2>3, <2>4, <2>5, <2>6
<1>15. tmp_cnt' = Cardinality(DoneServices')
  <2>1. sv \notin DoneServices
    BY <1>1 DEF DoneServices
  <2>2. IsFiniteSet(DoneServices)
    <3>1. DoneServices \in SUBSET ServiceSet
      BY DEF DoneServices
    <3> QED
      BY <3>1, ServicesFinite, FS_Subset
  <2>3. Cardinality(DoneServices \cup {sv}) = Cardinality(DoneServices) + 1
    BY <2>1, <2>2, FS_AddElement
  <2>4. tmp_cnt' = IF ServiceDone(sv) THEN tmp_cnt + 1 ELSE tmp_cnt
    BY DEF CollectSection
  <2> QED
    BY <1>14, <2>3, <2>4 DEF Counted
<1>16. ASSUME worker' = "parse"
       PROVE  \A q \in ServiceSet : have'[q] = On(q)'
  <2>1. tmp_cnt' = Len(Services)
    BY <1>16 DEF CollectSection
  <2>2. DoneServices' \in SUBSET ServiceSet
    BY DEF DoneServices
  <2>3. Cardinality(DoneServices') <= Cardinality(ServiceSet) /\ Cardinality(ServiceSet) \in Nat
    BY <2>2, ServicesFinite, FS_Subset, FS_CardinalityType
  <2>4. Cardinality(DoneServices') = Cardinality(ServiceSet)
    BY <1>15, <2>1, <2>3, ServicesFinite
  <2>5. DoneServices' = ServiceSet
    BY <2>2, <2>4, ServicesFinite, SameSize
  <2> QED
    BY <1>13, <2>5 DEF DoneServices, ServiceCounted
<1> QED
  BY <1>13, <1>15, <1>16 DEF Counted

LEMMA GuideStep == FrameInv /\ GuideInv /\ [Next]_vars => GuideInv'
<1> SUFFICES ASSUME FrameInv, GuideInv, [Next]_vars
             PROVE  GuideInv'
  OBVIOUS
<1> DEFINE Right(E) == \A sv \in ServiceSet :
             E[sv] = Ordered({s \in On(sv) : s[1] < ParsedTables})
<1>1. CASE StartUpdate
  <2>1. worker' = "collect"
    BY <1>1 DEF StartUpdate
  <2> QED
    BY <1>1, <2>1, StartCounted DEF GuideInv, GuideWhole, Saving
<1>2. ASSUME NEW sv \in ServiceSet, NEW s \in On(sv), CollectSection(sv, s)
      PROVE  GuideInv'
  <2>1. worker = "collect" /\ steady' = steady /\ worker' \in {"collect", "parse"}
    BY <1>2 DEF CollectSection
  <2>2. steady' => Counted
    BY <2>1 DEF GuideInv
  <2> QED
    BY <1>2, <2>1, <2>2, CollectCounted DEF GuideInv, GuideWhole, Saving
<1>3. CASE parse_eit_sections_for_epg
  <2>1. worker = "parse" /\ steady' = steady /\ worker' = "save" /\ air' = air
        /\ events' = [sv \in ServiceSet |->
                        Ordered({s \in have[sv] : s[1] < ParsedTables})]
    BY <1>3 DEF parse_eit_sections_for_epg
  <2>2. steady' => \A sv \in ServiceSet : have[sv] = On(sv)
    BY <2>1 DEF GuideInv
  <2>3. steady' => Right(events')
    BY <2>1, <2>2
  <2>4. \A sv \in ServiceSet : On(sv)' = On(sv)
    BY <2>1 DEF On
  <2>5. steady' => GuideWhole'
    BY <2>3, <2>4 DEF GuideWhole, Guide
  <2> QED
    BY <2>1, <2>5 DEF GuideInv
<1>4. CASE Save
  <2>1. worker \in {"save", "write"} /\ worker' \in {"save", "write", "idle"}
        /\ steady' = steady /\ air' = air /\ events' = events
    BY <1>4 DEF Save, SkipService, SaveOpen, SaveRefused, SaveClose, SaveEnd
  <2>2. \A sv \in ServiceSet : On(sv)' = On(sv)
    BY <2>1 DEF On
  <2> QED
    BY <2>1, <2>2 DEF GuideInv, GuideWhole, Saving
<1>5. CASE SelectService \/ CrashRestart
  <2>1. worker' = "idle"
    BY <1>5 DEF SelectService, UpdateExit, CrashRestart
  <2> QED
    BY <2>1 DEF GuideInv, GuideWhole, Saving
<1>6. CASE ScheduleChanges
  <2>1. steady' => worker' = "idle"
    BY <1>6 DEF ScheduleChanges
  <2> QED
    BY <2>1 DEF GuideInv, GuideWhole, Saving
<1>7. CASE Midnight \/ (\E sv \in ServiceSet : ReadDay(sv) \/ ReadPastEnd(sv)) \/ UNCHANGED vars
  <2>1. UNCHANGED << worker, steady, air, have, table_usage, table_cnt, tmp_cnt, events >>
    BY <1>7 DEF Midnight, ReadDay, ReadPastEnd, vars, counts
  <2>2. \A sv \in ServiceSet : On(sv)' = On(sv)
    BY <2>1 DEF On
  <2>3. Counted => Counted'
    BY <2>1, <2>2 DEF Counted, ServiceCounted, DoneServices
  <2>4. GuideWhole => GuideWhole'
    BY <2>1, <2>2 DEF GuideWhole, Saving
  <2> QED
    BY <2>1, <2>2, <2>3, <2>4 DEF GuideInv
<1> QED
  BY <1>1, <1>2, <1>3, <1>4, <1>5, <1>6, <1>7 DEF Next, Collect

\* What is parsed and saved is the whole guide, for every set of services and
\* every schedule, in whatever order the sections come and however often the
\* process dies: the counters of segments, tables and services end the
\* collection when everything is there and not before (eit.cpp:240-263).
THEOREM GuideAlwaysWhole == Spec => []GuideWhole
<1>1. Init => FrameInv /\ GuideInv
  <2>1. Init => GuideInv
    BY DEF Init, GuideInv, GuideWhole, Saving
  <2> QED
    BY <2>1, InitFrame
<1>2. FrameInv /\ GuideInv /\ [Next]_vars => FrameInv' /\ GuideInv'
  BY FrameStep, GuideStep
<1>3. FrameInv /\ GuideInv => GuideWhole
  BY DEF GuideInv, GuideWhole, Saving, FrameInv
<1> QED
  BY <1>1, <1>2, <1>3, PTL DEF Spec

-----------------------------------------------------------------------------
(* The index of a file *)

IsList(E) == \E S : E \in Seq(S)

\* The parts of a list of events that the index is made from.
LEMMA ListShape ==
  ASSUME NEW E, IsList(E)
  PROVE  Len(E) \in Nat /\ DOMAIN E = 1 .. Len(E) /\ (E = << >> <=> Len(E) = 0)
BY LenProperties, EmptySeq DEF IsList

\* The indexes after each of the events: a recursive function.
IsAfter(g, E, n) ==
  g = [k \in 0 .. n |-> IF k = 0 THEN << >> ELSE AddToIndex(g[k - 1], E[k])]

\* The index after each event of a list, from the first on.
LEMMA AfterExists ==
  ASSUME NEW E, NEW L \in Nat
  PROVE  \E g : IsAfter(g, E, L)
<1> DEFINE Without == {n \in 0 .. L : ~ \E g : IsAfter(g, E, n)}
<1>1. SUFFICES ASSUME Without # {}
               PROVE  FALSE
  OBVIOUS
<1>2. Without \subseteq Nat
  OBVIOUS
<1>3. PICK m \in Without : \A j \in Without : m <= j
  <2> HIDE DEF Without
  <2> QED
    BY <1>1, <1>2, HasFirst
<1>4. m # 0
  <2>1. SUFFICES ASSUME m = 0
                 PROVE  \E g : IsAfter(g, E, m)
    BY <1>3
  <2>2. IsAfter([k \in 0 .. 0 |-> << >>], E, 0)
    BY DEF IsAfter
  <2> QED
    BY <2>1, <2>2
<1>5. m \in Nat /\ m - 1 \in 0 .. L /\ ~ (m <= m - 1) /\ m \in 0 .. L
  BY <1>2, <1>3, <1>4
<1>6. PICK g : IsAfter(g, E, m - 1)
  BY <1>3, <1>5
<1> DEFINE h == [k \in 0 .. m |-> IF k = m THEN AddToIndex(g[m - 1], E[m]) ELSE g[k]]
<1>7. ASSUME NEW k \in 0 .. m
      PROVE  h[k] = IF k = 0 THEN << >> ELSE AddToIndex(h[k - 1], E[k])
  <2>1. CASE k = m
    <3>1. m - 1 \in 0 .. m /\ m - 1 # m
      BY <1>4, <1>5
    <3> QED
      BY <1>4, <2>1, <3>1
  <2>2. CASE k # m
    <3>1. k \in 0 .. m - 1 /\ (k # 0 => k - 1 \in 0 .. m /\ k - 1 # m)
      BY <1>5, <2>2
    <3>2. g[k] = IF k = 0 THEN << >> ELSE AddToIndex(g[k - 1], E[k])
      BY <1>6, <3>1 DEF IsAfter
    <3> QED
      BY <2>2, <3>1, <3>2
  <2> QED
    BY <2>1, <2>2
<1>8. IsAfter(h, E, m)
  BY <1>7 DEF IsAfter
<1> QED
  BY <1>3, <1>8

\* IndexOf is the index after the last event, which is counted once more.
LEMMA IndexIsLast ==
  ASSUME NEW E, IsList(E)
  PROVE  \E g : /\ IsAfter(g, E, Len(E))
                /\ IndexOf(E) = [g[Len(E)] EXCEPT ![Len(g[Len(E)])].size = @ + 1]
<1> DEFINE L == Len(E)
           a == CHOOSE g : IsAfter(g, E, L)
<1>1. L \in Nat
  BY ListShape
<1>2. IsAfter(a, E, L)
  BY <1>1, AfterExists
<1>3. IndexOf(E) = [a[L] EXCEPT ![Len(a[L])].size = @ + 1]
  BY DEF IndexOf, IsAfter
<1> HIDE DEF a
<1> QED
  BY <1>2, <1>3

\* The first m of the n events are those of the first day, and there are others.
FirstDay(E, n, m) ==
  /\ m \in 1 .. n
  /\ \A k \in 1 .. m : E[k][4] = E[1][4]
  /\ m < n => E[m + 1][4] # E[1][4]

IsEntry(x, E, m) ==
  /\ DOMAIN x = {"day", "events", "size"}
  /\ x.day = E[1][4] /\ x.events = m /\ x.size = m

\* What an index says of the first day of the n events before the last one is
\* counted a second time: one entry if all are of one day.
IndexRight(index, E, n) ==
  /\ IsList(index)
  /\ \E m \in 1 .. n : /\ FirstDay(E, n, m)
                       /\ IsEntry(index[1], E, m)
                       /\ Len(index) \in Nat \ {0}
                       /\ Len(index) = 1 <=> m = n

\* The first event opens the first entry.
LEMMA FirstEvent ==
  ASSUME NEW E
  PROVE  IndexRight(AddToIndex(<< >>, E[1]), E, 1)
<1> DEFINE index == AddToIndex(<< >>, E[1])
<1> DEFINE e == [day |-> E[1][4], events |-> 1, size |-> 1]
<1>1. index = << e >> /\ IsEntry(e, E, 1)
  BY DEF AddToIndex, IsEntry
<1>2. IsList(index) /\ Len(index) = 1 /\ IsEntry(index[1], E, 1)
  <2> HIDE DEF e
  <2>1. << e >> \in Seq({e}) /\ Len(<< e >>) = 1 /\ << e >>[1] = e
    OBVIOUS
  <2>2. index = << e >>
    BY <1>1
  <2> HIDE DEF index
  <2>3. IsList(index) /\ Len(index) = 1 /\ index[1] = e
    BY <2>1, <2>2 DEF IsList
  <2> QED
    BY <1>1, <2>3
<1>3. FirstDay(E, 1, 1)
  BY DEF FirstDay
<1> HIDE DEF index, e
<1>4. IndexRight(index, E, 1)
  BY <1>2, <1>3 DEF IndexRight
<1> QED
  BY <1>4 DEF index

\* An event of the same day is counted in the last entry, the first of another day opens
\* one.
LEMMA OneMoreEvent ==
  ASSUME NEW E, NEW n \in Nat \ {0}, NEW index, IndexRight(index, E, n)
  PROVE  IndexRight(AddToIndex(index, E[n + 1]), E, n + 1)
<1> DEFINE s == E[n + 1]
           now == AddToIndex(index, s)
           L == Len(index)
<1>1. PICK m \in 1 .. n : FirstDay(E, n, m) /\ IsEntry(index[1], E, m) /\ L \in Nat \ {0}
                          /\ (L = 1 <=> m = n)
  BY DEF IndexRight
<1>2. PICK S : index \in Seq(S)
  BY DEF IndexRight, IsList
<1>3. index # << >> /\ L \in 1 .. L /\ 1 \in 1 .. L
  BY <1>1, <1>2, EmptySeq
<1>4. CASE index[L].day = s[4]
  <2> DEFINE e == [index[L] EXCEPT !.events = @ + 1, !.size = @ + 1]
  <2>1. now = [index EXCEPT ![L] = e]
    <3>1. Last(index) = index[L]
      BY DEF Last
    <3>2. AddToIndex(index, s) = [index EXCEPT ![Len(index)].events = @ + 1, ![Len(index)].size = @ + 1]
      BY <1>3, <1>4, <3>1, Zenon DEF AddToIndex
    <3> QED
      BY <3>2, Zenon
  <2>2. index \in Seq(S \cup {e})
    BY <1>2, SeqMonotonic
  <2>3. now \in Seq(S \cup {e}) /\ Len(now) = L
        /\ \A j \in 1 .. L : now[j] = IF j = L THEN e ELSE index[j]
    <3> HIDE DEF e, now
    <3> QED
      BY <1>3, <2>1, <2>2, ExceptSeq
  <2>4. IsList(now)
    BY <2>3 DEF IsList
  <2>5. CASE L = 1
    <3>1. m = n /\ s[4] = E[1][4]
      BY <1>1, <1>4, <2>5 DEF IsEntry
    <3>2. FirstDay(E, n + 1, n + 1)
      <4>1. \A k \in 1 .. n + 1 : k \in 1 .. n \/ k = n + 1
        OBVIOUS
      <4> QED
        BY <1>1, <3>1, <4>1 DEF FirstDay
    <3>3. IsEntry(e, E, n + 1)
      <4>1. IsEntry(index[L], E, n)
        BY <1>1, <2>5, <3>1
      <4> QED
        BY <4>1 DEF IsEntry
    <3>4. IsEntry(now[1], E, n + 1)
      BY <1>3, <2>3, <2>5, <3>3
    <3>5. n + 1 \in 1 .. n + 1 /\ Len(now) = 1
      BY <2>3, <2>5
    <3> HIDE DEF now
    <3>6. IndexRight(now, E, n + 1)
      BY <2>4, <3>2, <3>4, <3>5 DEF IndexRight
    <3> QED
      BY <3>6 DEF now
  <2>6. CASE L # 1
    <3>1. now[1] = index[1] /\ m < n /\ m < n + 1 /\ m \in 1 .. n + 1 /\ m # n + 1
      <4>1. now[1] = index[1]
        BY <1>3, <2>3, <2>6
      <4>2. m \in 1 .. n /\ m # n
        BY <1>1, <2>6
      <4>3. m < n /\ m < n + 1 /\ m \in 1 .. n + 1 /\ m # n + 1
        BY <4>2
      <4> QED
        BY <4>1, <4>3
    <3>2. FirstDay(E, n + 1, m)
      BY <1>1, <3>1 DEF FirstDay
    <3>3. Len(now) \in Nat \ {0} /\ Len(now) # 1
      BY <1>1, <2>3, <2>6
    <3> HIDE DEF now
    <3>4. IndexRight(now, E, n + 1)
      BY <1>1, <2>4, <3>1, <3>2, <3>3 DEF IndexRight
    <3> QED
      BY <3>4 DEF now
  <2> QED
    BY <2>5, <2>6
<1>5. CASE index[L].day # s[4]
  <2> DEFINE e == [day |-> s[4], events |-> 1, size |-> 1]
  <2>1. now = Append(index, e)
    BY <1>3, <1>5 DEF AddToIndex, Last
  <2>2. index \in Seq(S \cup {e})
    BY <1>2, SeqMonotonic
  <2>3. now \in Seq(S \cup {e}) /\ Len(now) = L + 1 /\ \A j \in 1 .. L : now[j] = index[j]
    <3> HIDE DEF e, now
    <3> QED
      BY <2>1, <2>2, AppendProperties
  <2>4. IsList(now) /\ IsEntry(now[1], E, m) /\ Len(now) \in Nat \ {0} /\ Len(now) # 1
    BY <1>1, <1>3, <2>3 DEF IsList
  <2>5. FirstDay(E, n + 1, m) /\ m \in 1 .. n + 1 /\ m # n + 1
    <3>1. m = n => s[4] # E[1][4]
      <4>1. SUFFICES ASSUME m = n
                     PROVE  s[4] # E[1][4]
        OBVIOUS
      <4>2. IsEntry(index[L], E, m)
        BY <1>1, <4>1
      <4> QED
        BY <1>5, <4>2 DEF IsEntry
    <3>2. m # n => m < n
      OBVIOUS
    <3>3. m \in 1 .. n + 1 /\ m # n + 1
      OBVIOUS
    <3> QED
      BY <1>1, <3>1, <3>2, <3>3 DEF FirstDay
  <2> HIDE DEF now
  <2>6. IndexRight(now, E, n + 1)
    BY <2>4, <2>5 DEF IndexRight
  <2> QED
    BY <2>6 DEF now
<1> QED
  BY <1>4, <1>5

\* The sizes in the index of a file: those of the first day, and one more if it is
\* the only one, since the last event is counted twice.
LEMMA IndexOfFirstDay ==
  ASSUME NEW E, IsList(E), E # << >>
  PROVE  \E m \in 1 .. Len(E) :
            /\ FirstDay(E, Len(E), m)
            /\ IndexOf(E)[1].events = m
            /\ IndexOf(E)[1].size = IF m = Len(E) THEN m + 1 ELSE m
<1> DEFINE L == Len(E)
<1>1. L \in Nat \ {0}
  BY ListShape
<1>2. PICK g : /\ IsAfter(g, E, L)
               /\ IndexOf(E) = [g[L] EXCEPT ![Len(g[L])].size = @ + 1]
  BY IndexIsLast
<1>3. g[0] = << >> /\ \A n \in 1 .. L : g[n] = AddToIndex(g[n - 1], E[n])
  <2>1. \A n \in 1 .. L : n \in 0 .. L /\ n # 0
    BY <1>1
  <2>2. 0 \in 0 .. L
    BY <1>1
  <2> QED
    BY <1>2, <2>1, <2>2 DEF IsAfter
<1>4. IndexRight(g[L], E, L)
  <2> DEFINE Wrong == {n \in 1 .. L : ~ IndexRight(g[n], E, n)}
  <2>1. SUFFICES ASSUME Wrong # {}
                 PROVE  FALSE
    <3>1. L \in 1 .. L
      BY <1>1
    <3> QED
      BY <3>1
  <2>2. Wrong \subseteq Nat
    OBVIOUS
  <2>3. PICK n \in Wrong : \A j \in Wrong : n <= j
    <3> HIDE DEF Wrong
    <3> QED
      BY <2>1, <2>2, HasFirst
  <2>4. CASE n = 1
    <3>1. 1 \in 1 .. L /\ 1 - 1 = 0
      BY <1>1
    <3>2. g[1] = AddToIndex(<< >>, E[1])
      BY <1>3, <3>1
    <3> QED
      BY <2>3, <2>4, <3>2, FirstEvent
  <2>5. CASE n # 1
    <3> DEFINE b == n - 1
    <3>1. b \in Nat \ {0} /\ b \in 1 .. L /\ b + 1 = n /\ ~ (n <= b) /\ n \in 1 .. L
      BY <1>1, <2>3, <2>5
    <3>2. IndexRight(g[b], E, b)
      BY <2>3, <3>1
    <3>3. g[n] = AddToIndex(g[b], E[n])
      BY <1>3, <3>1
    <3> HIDE DEF b
    <3>4. IndexRight(AddToIndex(g[b], E[b + 1]), E, b + 1)
      BY <3>1, <3>2, OneMoreEvent
    <3> QED
      BY <2>3, <3>1, <3>3, <3>4
  <2> QED
    BY <2>4, <2>5
<1> DEFINE index == g[L]
           N == Len(index)
<1>5. PICK m \in 1 .. L : FirstDay(E, L, m) /\ IsEntry(index[1], E, m) /\ N \in Nat \ {0}
                          /\ (N = 1 <=> m = L)
  BY <1>4 DEF IndexRight
<1>6. DOMAIN index = 1 .. N /\ 1 \in 1 .. N
  BY <1>4, <1>5, ListShape DEF IndexRight
<1>7. IndexOf(E)[1] = IF N = 1 THEN [index[1] EXCEPT !.size = @ + 1] ELSE index[1]
  <2> HIDE DEF index, N
  <2>1. IndexOf(E) = [index EXCEPT ![N].size = @ + 1]
    BY <1>2 DEF index, N
  <2> QED
    BY <1>5, <1>6, <2>1
<1>8. IndexOf(E)[1].events = m /\ IndexOf(E)[1].size = IF m = L THEN m + 1 ELSE m
  <2> HIDE DEF index, N
  <2> QED
    BY <1>5, <1>7 DEF IsEntry
<1> QED
  BY <1>5, <1>8

-----------------------------------------------------------------------------
(* What a read of the first day gives *)

\* A file that can be read has the index of a whole list of events, and the
\* beginning of that list, or all of it if it was closed.
FileOf(f) ==
  \E E : /\ IsList(E) /\ E # << >>
         /\ f.index = IndexOf(E)
         /\ \E k \in 0 .. Len(E) : f.data = SubSeq(E, 1, k)
         /\ f.state = "whole" => f.data = E

IsFile(f) == DOMAIN f = {"state", "mtime", "index", "data"}

FilesInv ==
  /\ DOMAIN file = ServiceSet /\ DOMAIN events = ServiceSet
  /\ \A sv \in ServiceSet :
        /\ IsFile(file[sv])
        /\ IsList(events[sv])
        /\ file[sv].state \in {"whole", "cut"} => FileOf(file[sv])
  /\ worker = "write" => Services[next] \in ServiceSet /\ events[Services[next]] # << >>

\* What is collected stays finite.
HaveInv == DOMAIN have = ServiceSet /\ \A sv \in ServiceSet : IsFiniteSet(have[sv])

LEMMA HaveStep == HaveInv /\ [Next]_vars => HaveInv'
<1> SUFFICES ASSUME HaveInv, [Next]_vars
             PROVE  HaveInv'
  OBVIOUS
<1>1. CASE StartUpdate \/ CrashRestart
  BY <1>1, FS_EmptySet DEF StartUpdate, CrashRestart, ResetDownload, Nothing, HaveInv
<1>2. ASSUME NEW sv \in ServiceSet, NEW s \in On(sv), CollectSection(sv, s)
      PROVE  HaveInv'
  <2>1. have' = [have EXCEPT ![sv] = have[sv] \cup {s}]
    BY <1>2 DEF CollectSection
  <2>2. IsFiniteSet(have[sv] \cup {s})
    BY FS_AddElement DEF HaveInv
  <2> QED
    BY <2>1, <2>2 DEF HaveInv
<1>3. CASE parse_eit_sections_for_epg
  BY <1>3, FS_EmptySet DEF parse_eit_sections_for_epg, HaveInv
<1>4. CASE Save \/ SelectService \/ Midnight \/ ScheduleChanges \/ UNCHANGED vars
           \/ (\E sv \in ServiceSet : ReadDay(sv) \/ ReadPastEnd(sv))
  <2>1. have' = have
    BY <1>4 DEF Save, SkipService, SaveOpen, SaveRefused, SaveClose, SaveEnd, SelectService, UpdateExit, Midnight,
                ScheduleChanges, ReadDay, ReadPastEnd, vars
  <2> QED
    BY <2>1 DEF HaveInv
<1> QED
  BY <1>1, <1>2, <1>3, <1>4 DEF Next, Collect

LEMMA EmptyList == IsList(<< >>)
<1>1. << >> \in Seq({})
  BY EmptySeq
<1> QED
  BY <1>1 DEF IsList

\* Finitely many sections can be put in order.
LEMMA OrderedIsList == ASSUME NEW S, IsFiniteSet(S)
                       PROVE  IsList(Ordered(S))
<1> DEFINE n == Cardinality(S)
           nth(i) == CHOOSE s \in S : Cardinality({r \in S : InOrder(r, s)}) = i - 1
           T == {nth(i) : i \in 1 .. n}
<1>1. n \in Nat
  BY FS_CardinalityType
<1>2. \A i \in 1 .. n : nth(i) \in T
  OBVIOUS
<1>3. Ordered(S) = [i \in 1 .. n |-> nth(i)]
  BY DEF Ordered
<1> HIDE DEF n, nth, T
<1>4. [i \in 1 .. n |-> nth(i)] \in Seq(T)
  BY <1>1, <1>2, IsASeq
<1> QED
  BY <1>3, <1>4 DEF IsList

LEMMA NoFileFits == IsFile(NoFile) /\ NoFile.state = "none"
BY DEF NoFile, IsFile

\* Every file that can be read is one of those SaveOpen and SaveClose write.
LEMMA FilesStep == HaveInv /\ FilesInv /\ [Next]_vars => FilesInv'
<1> SUFFICES ASSUME HaveInv, FilesInv, [Next]_vars
             PROVE  FilesInv'
  OBVIOUS
<1>1. CASE StartUpdate
  BY <1>1, EmptyList DEF StartUpdate, ResetDownload, Nothing, FilesInv
<1>2. ASSUME NEW sv \in ServiceSet, NEW s \in On(sv), CollectSection(sv, s)
      PROVE  FilesInv'
  <2>1. UNCHANGED << file, events >> /\ worker' # "write"
    BY <1>2 DEF CollectSection
  <2> QED
    BY <2>1 DEF FilesInv
<1>3. CASE parse_eit_sections_for_epg
  <2>1. file' = file /\ worker' = "save"
        /\ events' = [sv \in ServiceSet |-> Ordered({s \in have[sv] : s[1] < ParsedTables})]
    BY <1>3 DEF parse_eit_sections_for_epg
  <2>2. ASSUME NEW sv \in ServiceSet
        PROVE  IsList(events'[sv])
    <3>1. IsFiniteSet({s \in have[sv] : s[1] < ParsedTables})
      BY FS_Subset DEF HaveInv
    <3> QED
      BY <2>1, <3>1, OrderedIsList
  <2> QED
    BY <2>1, <2>2 DEF FilesInv
<1>4. CASE SkipService \/ SaveRefused \/ SaveEnd \/ SelectService
  <2>1. UNCHANGED << file, events >> /\ worker' # "write"
    BY <1>4 DEF SkipService, SaveRefused, SaveEnd, SelectService, UpdateExit
  <2> QED
    BY <2>1 DEF FilesInv
<1>5. CASE SaveOpen
  <2> DEFINE x == [NoFile EXCEPT !.state = "empty", !.mtime = today]
             sv == Services[next]
  <2>1. file' = [file EXCEPT ![sv] = x] /\ events' = events /\ next' = next
        /\ sv \in ServiceSet /\ events[sv] # << >>
    BY <1>5 DEF SaveOpen, ServiceSet
  <2>2. IsFile(x) /\ x.state = "empty"
    BY DEF IsFile, NoFile
  <2> HIDE DEF x
  <2> QED
    BY <2>1, <2>2 DEF FilesInv
<1>6. CASE SaveClose
  <2>1. PICK sv \in ServiceSet : sv = Services[next] /\ worker = "write" /\ events[sv] # << >>
    BY <1>6 DEF SaveClose, FilesInv
  <2> DEFINE x == [state |-> "whole", mtime |-> today, index |-> IndexOf(events[sv]),
                   data |-> events[sv]]
  <2>2. file' = [file EXCEPT ![sv] = x] /\ events' = events /\ worker' = "save"
    BY <1>6, <2>1 DEF SaveClose
  <2>3. FileOf(x)
    <3>1. IsList(events[sv])
      BY DEF FilesInv
    <3>2. Len(events[sv]) \in 0 .. Len(events[sv])
      BY <3>1, ListShape
    <3>3. events[sv] = SubSeq(events[sv], 1, Len(events[sv]))
      BY <3>1, SubSeqFull DEF IsList
    <3> QED
      BY <2>1, <3>1, <3>2, <3>3 DEF FileOf
  <2>4. IsFile(x)
    BY DEF IsFile
  <2> HIDE DEF x
  <2> QED
    BY <2>2, <2>3, <2>4 DEF FilesInv
<1>7. CASE CrashRestart
  <2>1. events' = Nothing(<< >>) /\ worker' = "idle"
    BY <1>7 DEF CrashRestart, ResetDownload
  <2>2. CASE file' = file
    BY <2>1, <2>2, EmptyList DEF FilesInv, Nothing
  <2>3. CASE worker = "write" /\ \E f \in CutFiles(Services[next]) :
                                    file' = [file EXCEPT ![Services[next]] = f]
    <3>1. PICK sv \in ServiceSet : sv = Services[next] /\ events[sv] # << >>
      BY <2>3 DEF FilesInv
    <3>2. PICK k \in 0 .. Len(events[sv]) - 1 :
             file' = [file EXCEPT ![sv] = [file[sv] EXCEPT !.state = "cut",
                                             !.index = IndexOf(events[sv]),
                                             !.data = SubSeq(events[sv], 1, k)]]
      BY <2>3, <3>1 DEF CutFiles
    <3> DEFINE x == [file[sv] EXCEPT !.state = "cut", !.index = IndexOf(events[sv]),
                                     !.data = SubSeq(events[sv], 1, k)]
    <3>3. IsList(events[sv]) /\ IsFile(file[sv])
      BY DEF FilesInv
    <3>4. k \in 0 .. Len(events[sv])
      BY <3>3, ListShape
    <3>5. IsFile(x) /\ x.state = "cut" /\ x.index = IndexOf(events[sv]) /\ x.data = SubSeq(events[sv], 1, k)
      BY <3>3 DEF IsFile
    <3>6. FileOf(x)
      BY <3>1, <3>3, <3>4, <3>5 DEF FileOf
    <3>7. file' = [file EXCEPT ![sv] = x]
      BY <3>2
    <3> HIDE DEF x
    <3> QED
      BY <2>1, <3>5, <3>6, <3>7, EmptyList DEF FilesInv, Nothing
  <2> QED
    BY <1>7, <2>2, <2>3 DEF CrashRestart
<1>8. ASSUME NEW sv \in ServiceSet, ReadPastEnd(sv)
      PROVE  FilesInv'
  <2>1. file' = [file EXCEPT ![sv] = NoFile] /\ events' = events /\ worker' = "idle"
    BY <1>8 DEF ReadPastEnd, Readable
  <2> QED
    BY <2>1, NoFileFits DEF FilesInv
<1>9. CASE Midnight \/ ScheduleChanges \/ UNCHANGED vars \/ (\E sv \in ServiceSet : ReadDay(sv))
  <2>1. UNCHANGED << file, events, worker, next >>
    BY <1>9 DEF Midnight, ScheduleChanges, ReadDay, vars
  <2> QED
    BY <2>1 DEF FilesInv
<1> QED
  BY <1>1, <1>2, <1>3, <1>4, <1>5, <1>6, <1>7, <1>8, <1>9 DEF Next, Collect, Save

\* A read that the size in the index lets through gives the first day.
LEMMA ReadGivesDay ==
  ASSUME NEW sv \in ServiceSet, FilesInv, ReadDay(sv)
  PROVE  FirstDayRead'
<1> DEFINE f == file[sv]
           n == f.index[1].size
           list == SubSeq(f.data, 1, n)
<1>1. lastRead' = [from |-> f, list |-> list] /\ n <= Len(f.data) /\ FileOf(f)
  BY DEF ReadDay, Readable, DaySize, FilesInv
<1>2. PICK E : IsList(E) /\ E # << >> /\ f.index = IndexOf(E)
               /\ \E k \in 0 .. Len(E) : f.data = SubSeq(E, 1, k)
  BY <1>1 DEF FileOf
<1>3. PICK k \in 0 .. Len(E) : f.data = SubSeq(E, 1, k)
  BY <1>2
<1>4. PICK m \in 1 .. Len(E) : FirstDay(E, Len(E), m) /\ f.index[1].events = m
                               /\ n = IF m = Len(E) THEN m + 1 ELSE m
  BY <1>2, IndexOfFirstDay
<1>5. PICK S : E \in Seq(S)
  BY <1>2 DEF IsList
<1>6. Len(E) \in Nat /\ \A i \in 1 .. k : E[i] \in S
  BY <1>5, LenProperties, ElementOfSeq
<1> HIDE DEF f
<1>7. f.data \in Seq(S) /\ Len(f.data) = k /\ \A i \in 1 .. k : f.data[i] = E[i]
  <2> DEFINE d == SubSeq(E, 1, k)
  <2>1. 1 \in Int /\ k \in Int
    BY <1>6
  <2>2. d \in Seq(S) /\ Len(d) = (IF 1 <= k THEN k - 1 + 1 ELSE 0)
        /\ \A i \in 1 .. k - 1 + 1 : d[i] = E[1 + i - 1]
    BY <1>6, <2>1, SubSeqProperties
  <2>3. Len(d) = k /\ \A i \in 1 .. k : i \in 1 .. k - 1 + 1 /\ 1 + i - 1 = i
    BY <1>6, <2>2
  <2> HIDE DEF d
  <2>4. \A i \in 1 .. k : d[i] = E[i]
    BY <2>2, <2>3
  <2> QED
    BY <1>3, <2>2, <2>3, <2>4 DEF d
<1> HIDE DEF n
<1>8. n = m /\ m < Len(E) /\ m <= k
  BY <1>1, <1>4, <1>6, <1>7
<1>9. Len(list) = m
  <2> DEFINE D == f.data
  <2>1. \A i \in 1 .. m : D[i] \in S
    BY <1>6, <1>7, <1>8
  <2> HIDE DEF D
  <2>2. Len(SubSeq(D, 1, m)) = IF 1 <= m THEN m - 1 + 1 ELSE 0
    BY <2>1, SubSeqProperties
  <2>3. Len(SubSeq(D, 1, m)) = m
    BY <2>2
  <2> QED
    BY <1>8, <2>3 DEF D
<1> HIDE DEF list
<1>10. \A i \in 1 .. m : f.data[i][4] = f.data[1][4]
  <2>1. \A i \in 1 .. m : i \in 1 .. k
    BY <1>6, <1>8
  <2>2. 1 \in 1 .. k
    BY <1>6, <1>8
  <2> QED
    BY <1>4, <1>7, <2>1, <2>2 DEF FirstDay
<1>11. m < Len(f.data) => f.data[m + 1][4] # f.data[1][4]
  <2>1. m < k => m + 1 \in 1 .. k /\ 1 \in 1 .. k
    BY <1>6, <1>8
  <2> QED
    BY <1>4, <1>7, <1>8, <2>1 DEF FirstDay
<1> QED
  BY <1>1, <1>4, <1>6, <1>8, <1>9, <1>10, <1>11 DEF FirstDayRead

\* A read that finds a size too large gives nothing, and then the guide was of one day.
LEMMA PastEndIsOneDay ==
  ASSUME NEW sv \in ServiceSet, FilesInv, ReadPastEnd(sv)
  PROVE  FirstDayRead'
<1> DEFINE f == file[sv]
           n == f.index[1].size
<1>1. /\ lastRead' = [from |-> f, list |-> << >>] /\ f.state = "whole"
      /\ n > Len(f.data) /\ FileOf(f)
  BY DEF ReadPastEnd, Readable, DaySize, FilesInv
<1> HIDE DEF f
<1>2. PICK E : IsList(E) /\ E # << >> /\ f.index = IndexOf(E) /\ f.data = E
  BY <1>1 DEF FileOf
<1>3. PICK m \in 1 .. Len(E) : FirstDay(E, Len(E), m)
                               /\ n = IF m = Len(E) THEN m + 1 ELSE m
  BY <1>2, IndexOfFirstDay
<1>4. Len(E) \in Nat
  BY <1>2, ListShape
<1> HIDE DEF n
<1>5. m = Len(E)
  BY <1>1, <1>2, <1>3, <1>4
<1>6. \A k \in 1 .. Len(f.data) : f.data[k][4] = f.data[1][4]
  BY <1>2, <1>3, <1>5 DEF FirstDay
<1>7. Len(<< >>) = 0
  OBVIOUS
<1> QED
  BY <1>1, <1>6, <1>7 DEF FirstDayRead

\* A read gives the events of the first day, all of them and no other, for every
\* list of events that spans more than one, out of a whole file or one that a death of
\* the process cut: though the last event is counted twice in the index (eit.cpp:1221),
\* a size that reaches past the day is never let through (dtv_usr_epg.cpp:225).  Where
\* all events are of one day it is, and the read gives nothing and removes the file.
THEOREM FirstDayAlwaysRead == Spec => []FirstDayRead
<1> DEFINE Inv == HaveInv /\ FilesInv /\ FirstDayRead
<1>1. Init => Inv
  <2>1. Init => HaveInv
    BY FS_EmptySet DEF Init, Nothing, HaveInv
  <2>2. Init => FilesInv
    BY EmptyList, NoFileFits DEF Init, Nothing, FilesInv
  <2>3. Init => FirstDayRead
    BY DEF Init, NoRead, NoFile, FirstDayRead
  <2> QED
    BY <2>1, <2>2, <2>3
<1>2. HaveInv /\ FilesInv /\ FirstDayRead /\ [Next]_vars => FirstDayRead'
  <2> SUFFICES ASSUME FilesInv, FirstDayRead, [Next]_vars
               PROVE  FirstDayRead'
    OBVIOUS
  <2>1. ASSUME NEW sv \in ServiceSet, ReadDay(sv)
        PROVE  FirstDayRead'
    BY <2>1, ReadGivesDay
  <2>2. CASE CrashRestart
    <3>1. lastRead'.from.state = "none"
      BY <2>2 DEF CrashRestart, NoRead, NoFile
    <3> QED
      BY <3>1 DEF FirstDayRead
  <2>3. ASSUME NEW sv \in ServiceSet, ReadPastEnd(sv)
        PROVE  FirstDayRead'
    BY <2>3, PastEndIsOneDay
  <2>4. CASE UNCHANGED lastRead
    BY <2>4 DEF FirstDayRead
  <2>5. CASE StartUpdate \/ Collect \/ parse_eit_sections_for_epg \/ Save \/ SelectService
             \/ ScheduleChanges \/ Midnight \/ UNCHANGED vars
    BY <2>4, <2>5 DEF StartUpdate, Collect, CollectSection, parse_eit_sections_for_epg, Save,
       SkipService, SaveOpen, SaveRefused, SaveClose, SaveEnd, SelectService, ScheduleChanges, Midnight, vars
  <2> QED
    BY <2>1, <2>2, <2>3, <2>5 DEF Next
<1>3. Inv /\ [Next]_vars => Inv'
  BY <1>2, HaveStep, FilesStep
<1>4. Inv => FirstDayRead
  OBVIOUS
<1> QED
  BY <1>1, <1>3, <1>4, PTL DEF Spec

-----------------------------------------------------------------------------
(* The order of a file and the length of its index *)

\* The sections that stand before s.
Before(S, s) == {r \in S : InOrder(r, s)}

\* The order of the sections of a schedule is total.
LEMMA OrderTotal ==
  ASSUME NEW S, IsSchedule(S), NEW s \in S, NEW r \in S
  PROVE  /\ ~ InOrder(s, s)
         /\ InOrder(s, r) \/ s = r \/ InOrder(r, s)
         /\ \A q \in S : InOrder(s, r) /\ InOrder(r, q) => InOrder(s, q)
<1>1. \A q \in S : q[1] \in Nat /\ q[2] \in Nat /\ q[3] \in Nat
  BY DEF IsSchedule
<1>2. ~ InOrder(s, s)
  BY <1>1 DEF InOrder, SameSegment
<1>3. InOrder(s, r) \/ s = r \/ InOrder(r, s)
  <2>1. SameSlot(s, r) => s = r
    BY DEF IsSchedule
  <2> QED
    BY <1>1, <2>1 DEF InOrder, SameSegment, SameSlot
<1>4. \A q \in S : InOrder(s, r) /\ InOrder(r, q) => InOrder(s, q)
  BY <1>1 DEF InOrder, SameSegment
<1> QED
  BY <1>2, <1>3, <1>4

\* A section before another has fewer before it.
LEMMA FewerBefore ==
  ASSUME NEW S, IsSchedule(S), IsFiniteSet(S), NEW s \in S
  PROVE  /\ IsFiniteSet(Before(S, s)) /\ Cardinality(Before(S, s)) \in 0 .. Cardinality(S) - 1
         /\ \A r \in S : InOrder(s, r) => Cardinality(Before(S, s)) < Cardinality(Before(S, r))
<1>1. \A r \in S : IsFiniteSet(Before(S, r)) /\ Cardinality(Before(S, r)) \in Nat
  <2> TAKE r \in S
  <2>1. Before(S, r) \in SUBSET S
    BY DEF Before
  <2> QED
    BY <2>1, FS_Subset, FS_CardinalityType
<1> DEFINE B == Before(S, s)
           up == B \cup {s}
<1>2. s \notin B
  BY OrderTotal DEF Before
<1>3. IsFiniteSet(up) /\ Cardinality(up) = Cardinality(B) + 1
  <2> HIDE DEF B
  <2> QED
    BY <1>1, <1>2, FS_AddElement DEF B
<1>4. up \in SUBSET S
  BY DEF Before
<1>5. Cardinality(up) <= Cardinality(S) /\ Cardinality(S) \in Nat
  <2> HIDE DEF up
  <2> QED
    BY <1>4, FS_Subset, FS_CardinalityType
<1>6. ASSUME NEW r \in S, InOrder(s, r)
      PROVE  Cardinality(B) < Cardinality(Before(S, r))
  <2>1. up \in SUBSET Before(S, r)
    BY <1>6, OrderTotal DEF Before
  <2>2. Cardinality(up) <= Cardinality(Before(S, r))
    <3> HIDE DEF up
    <3> QED
      BY <1>1, <2>1, FS_Subset
  <2> HIDE DEF B, up
  <2> QED
    BY <1>1, <1>3, <2>2 DEF B
<1>7. Cardinality(B) \in 0 .. Cardinality(S) - 1
  <2> HIDE DEF B, up
  <2> QED
    BY <1>1, <1>3, <1>5 DEF B
<1> QED
  BY <1>1, <1>6, <1>7

\* Ordered lists every section of a schedule once, each behind those that come before it.
LEMMA OrderedListsAll ==
  ASSUME NEW S, IsSchedule(S), IsFiniteSet(S)
  PROVE  LET o == Ordered(S)
             n == Cardinality(S)
         IN  /\ o \in Seq(S) /\ Len(o) = n /\ n \in Nat
             /\ \A i, j \in 1 .. n : i < j => InOrder(o[i], o[j])
             /\ \A s \in S : \E i \in 1 .. n : o[i] = s
<1> DEFINE o == Ordered(S)
           n == Cardinality(S)
           rank == [s \in S |-> Cardinality(Before(S, s))]
<1>1. n \in Nat
  BY FS_CardinalityType
<1>2. \A s \in S : rank[s] \in 0 .. n - 1
  BY FewerBefore
<1>3. \A s, r \in S : InOrder(s, r) => rank[s] < rank[r]
  BY FewerBefore
<1>4. \A s, r \in S : rank[s] = rank[r] => s = r
  <2> TAKE s, r \in S
  <2>1. rank[s] \in Int /\ rank[r] \in Int
    BY <1>2
  <2> HIDE DEF rank
  <2> QED
    BY <1>3, <2>1, OrderTotal
<1>5. rank \in Injection(S, 0 .. n - 1)
  <2>1. rank \in [S -> 0 .. n - 1]
    BY <1>2
  <2>2. \A s, r \in DOMAIN rank : rank[s] = rank[r] => s = r
    BY <1>4
  <2> HIDE DEF rank
  <2> QED
    BY <2>1, <2>2 DEF Injection, IsInjective
<1>6. IsFiniteSet(0 .. n - 1) /\ Cardinality(0 .. n - 1) = n
  <2>1. 0 \in Int /\ n - 1 \in Int /\ (IF 0 > n - 1 THEN 0 ELSE n - 1 - 0 + 1) = n
    BY <1>1
  <2> QED
    BY <2>1, FS_Interval
<1>7. rank \in Surjection(S, 0 .. n - 1)
  <2> HIDE DEF rank
  <2> QED
    BY <1>5, <1>6, FS_Injection
<1>8. \A i \in 1 .. n : \E s \in S : rank[s] = i - 1
  <2> TAKE i \in 1 .. n
  <2>1. i - 1 \in 0 .. n - 1
    BY <1>1
  <2> HIDE DEF rank
  <2> QED
    BY <1>7, <2>1 DEF Surjection
<1>9. \A i \in 1 .. n : o[i] \in S /\ rank[o[i]] = i - 1
  <2> TAKE i \in 1 .. n
  <2>1. o[i] = CHOOSE s \in S : Cardinality(Before(S, s)) = i - 1
    BY DEF Ordered, Before
  <2>2. \E s \in S : Cardinality(Before(S, s)) = i - 1
    BY <1>8
  <2>3. o[i] \in S /\ Cardinality(Before(S, o[i])) = i - 1
    BY <2>1, <2>2
  <2> QED
    BY <2>3
<1>10. o \in Seq(S) /\ Len(o) = n
  <2>1. o \in [1 .. n -> S]
    BY <1>9 DEF Ordered
  <2> QED
    BY <1>1, <2>1, SeqDef
<1> HIDE DEF o, n, rank
<1>11. ASSUME NEW i \in 1 .. n, NEW j \in 1 .. n, i < j
       PROVE  InOrder(o[i], o[j])
  <2>1. o[i] # o[j] /\ ~ (rank[o[j]] < rank[o[i]])
    BY <1>1, <1>9, <1>11
  <2> QED
    BY <1>3, <1>9, <2>1, OrderTotal
<1>12. ASSUME NEW s \in S
       PROVE  \E i \in 1 .. n : o[i] = s
  <2> DEFINE i == rank[s] + 1
  <2>1. i \in 1 .. n /\ rank[s] = i - 1
    BY <1>1, <1>2
  <2>2. rank[o[i]] = rank[s] /\ o[i] \in S
    BY <1>9, <2>1
  <2> QED
    BY <1>4, <2>1, <2>2
<1> QED
  BY <1>1, <1>10, <1>11, <1>12 DEF o, n

\* The index of a list in order of time has as many entries as dates were begun:
\* at most those from the date of its first event to that of the last one so far.
IndexGrown(index, E, n) ==
  /\ IsList(index)
  /\ Len(index) \in Nat \ {0}
  /\ DOMAIN index[Len(index)] = {"day", "events", "size"}
  /\ index[Len(index)].day = E[n][4]
  /\ Len(index) <= E[n][4] - E[1][4] + 1

LEMMA FirstEntry ==
  ASSUME NEW E, E[1][4] \in Nat
  PROVE  IndexGrown(AddToIndex(<< >>, E[1]), E, 1)
<1> DEFINE e == [day |-> E[1][4], events |-> 1, size |-> 1]
           index == AddToIndex(<< >>, E[1])
<1>1. index = << e >>
  BY DEF AddToIndex
<1>2. e.day = E[1][4] /\ DOMAIN e = {"day", "events", "size"}
  OBVIOUS
<1> HIDE DEF e, index
<1>3. << e >> \in Seq({e}) /\ Len(<< e >>) = 1 /\ << e >>[1] = e
  OBVIOUS
<1>4. IsList(index) /\ Len(index) = 1 /\ index[1] = e
  BY <1>1, <1>3 DEF IsList
<1>5. 1 <= E[1][4] - E[1][4] + 1 /\ 1 \in Nat \ {0}
  OBVIOUS
<1>6. IndexGrown(index, E, 1)
  BY <1>2, <1>4, <1>5 DEF IndexGrown
<1> QED
  BY <1>6 DEF index

LEMMA NextEntry ==
  ASSUME NEW E, NEW n \in Nat \ {0}, NEW index, IndexGrown(index, E, n),
         E[1][4] \in Nat, E[n][4] \in Nat, E[n + 1][4] \in Nat, E[n][4] <= E[n + 1][4]
  PROVE  IndexGrown(AddToIndex(index, E[n + 1]), E, n + 1)
<1> DEFINE s == E[n + 1]
           now == AddToIndex(index, s)
           L == Len(index)
<1>1. PICK S : index \in Seq(S)
  BY DEF IndexGrown, IsList
<1>2. L \in Nat \ {0} /\ index # << >> /\ L \in 1 .. L
  BY <1>1, EmptySeq DEF IndexGrown
<1>3. DOMAIN index[L] = {"day", "events", "size"} /\ index[L].day = E[n][4]
      /\ L <= E[n][4] - E[1][4] + 1
  BY DEF IndexGrown
<1>4. CASE index[L].day = s[4]
  <2> DEFINE e == [index[L] EXCEPT !.events = @ + 1, !.size = @ + 1]
  <2>1. now = [index EXCEPT ![L] = e]
    <3>1. Last(index) = index[L]
      BY DEF Last
    <3>2. AddToIndex(index, s) = [index EXCEPT ![Len(index)].events = @ + 1, ![Len(index)].size = @ + 1]
      BY <1>2, <1>4, <3>1, Zenon DEF AddToIndex
    <3> QED
      BY <3>2, Zenon
  <2>2. e.day = s[4] /\ DOMAIN e = {"day", "events", "size"}
    BY <1>3, <1>4
  <2>3. index \in Seq(S \cup {e})
    BY <1>1, SeqMonotonic
  <2>4. now \in Seq(S \cup {e}) /\ Len(now) = L /\ now[L] = e
    <3> HIDE DEF e, now
    <3> QED
      BY <1>2, <2>1, <2>3, ExceptSeq
  <2>5. L <= s[4] - E[1][4] + 1
    BY <1>3, <1>4
  <2>6. IsList(now)
    BY <2>4 DEF IsList
  <2> HIDE DEF now, e
  <2>7. IndexGrown(now, E, n + 1)
    BY <1>2, <2>2, <2>4, <2>5, <2>6 DEF IndexGrown
  <2> QED
    BY <2>7 DEF now
<1>5. CASE index[L].day # s[4]
  <2> DEFINE e == [day |-> s[4], events |-> 1, size |-> 1]
  <2>1. now = Append(index, e)
    BY <1>2, <1>5 DEF AddToIndex, Last
  <2>2. e.day = s[4] /\ DOMAIN e = {"day", "events", "size"}
    OBVIOUS
  <2>3. index \in Seq(S \cup {e})
    BY <1>1, SeqMonotonic
  <2>4. now \in Seq(S \cup {e}) /\ Len(now) = L + 1 /\ now[L + 1] = e
    <3> HIDE DEF e, now
    <3> QED
      BY <2>1, <2>3, AppendProperties
  <2>5. L + 1 <= s[4] - E[1][4] + 1 /\ L + 1 \in Nat \ {0}
    <3>1. E[n][4] # s[4]
      BY <1>3, <1>5, Zenon
    <3> HIDE DEF L
    <3>2. L <= E[n][4] - E[1][4] + 1 /\ L \in Nat \ {0}
      BY <1>2, <1>3
    <3> QED
      BY <3>1, <3>2
  <2>6. IsList(now)
    BY <2>4 DEF IsList
  <2> HIDE DEF now, e
  <2>7. IndexGrown(now, E, n + 1)
    BY <2>2, <2>4, <2>5, <2>6 DEF IndexGrown
  <2> QED
    BY <2>7 DEF now
<1> QED
  BY <1>4, <1>5

\* A list in order of time, of at least one event.
IsTimed(E) ==
  /\ IsList(E) /\ E # << >>
  /\ \A n \in 1 .. Len(E) : E[n][4] \in Nat
  /\ \A n \in 1 .. Len(E) - 1 : E[n][4] <= E[n + 1][4]

LEMMA IndexLength ==
  ASSUME NEW E, IsTimed(E)
  PROVE  Len(IndexOf(E)) \in Nat /\ Len(IndexOf(E)) <= E[Len(E)][4] - E[1][4] + 1
<1> DEFINE L == Len(E)
<1>1. L \in Nat \ {0} /\ 1 \in 1 .. L /\ L \in 1 .. L
  BY ListShape DEF IsTimed
<1>2. PICK g : /\ IsAfter(g, E, L)
               /\ IndexOf(E) = [g[L] EXCEPT ![Len(g[L])].size = @ + 1]
  BY IndexIsLast DEF IsTimed
<1>3. g[0] = << >> /\ \A n \in 1 .. L : g[n] = AddToIndex(g[n - 1], E[n])
  <2>1. \A n \in 1 .. L : n \in 0 .. L /\ n # 0
    BY <1>1
  <2>2. 0 \in 0 .. L
    BY <1>1
  <2> QED
    BY <1>2, <2>1, <2>2 DEF IsAfter
<1>4. IndexGrown(g[L], E, L)
  <2> DEFINE Wrong == {n \in 1 .. L : ~ IndexGrown(g[n], E, n)}
  <2>1. SUFFICES ASSUME Wrong # {}
                 PROVE  FALSE
    BY <1>1
  <2>2. Wrong \subseteq Nat
    OBVIOUS
  <2>3. PICK n \in Wrong : \A j \in Wrong : n <= j
    <3> HIDE DEF Wrong
    <3> QED
      BY <2>1, <2>2, HasFirst
  <2>4. CASE n = 1
    <3>1. g[1] = AddToIndex(<< >>, E[1])
      BY <1>1, <1>3
    <3>2. E[1][4] \in Nat
      BY <1>1 DEF IsTimed
    <3> QED
      BY <2>3, <2>4, <3>1, <3>2, FirstEntry
  <2>5. CASE n # 1
    <3> DEFINE b == n - 1
    <3>1. b \in Nat \ {0} /\ b \in 1 .. L - 1 /\ b \in 1 .. L /\ b + 1 = n /\ ~ (n <= b) /\ n \in 1 .. L
      BY <1>1, <2>3, <2>5
    <3>2. IndexGrown(g[b], E, b)
      BY <2>3, <3>1
    <3>3. g[n] = AddToIndex(g[b], E[n])
      BY <1>3, <3>1
    <3> HIDE DEF b
    <3>4. E[1][4] \in Nat /\ E[b][4] \in Nat /\ E[b + 1][4] \in Nat /\ E[b][4] <= E[b + 1][4]
      BY <1>1, <3>1 DEF IsTimed
    <3>5. IndexGrown(AddToIndex(g[b], E[b + 1]), E, b + 1)
      BY <3>1, <3>2, <3>4, NextEntry
    <3> QED
      BY <2>3, <3>1, <3>3, <3>5
  <2> QED
    BY <2>4, <2>5
<1> DEFINE index == g[L]
           N == Len(index)
<1>5. PICK S : index \in Seq(S)
  BY <1>4 DEF IndexGrown, IsList
<1>6. N \in Nat \ {0} /\ N \in 1 .. N /\ N <= E[L][4] - E[1][4] + 1
  BY <1>4 DEF IndexGrown
<1>7. Len(IndexOf(E)) = N
  <2> DEFINE e == [index[N] EXCEPT !.size = @ + 1]
  <2>1. IndexOf(E) = [index EXCEPT ![N] = e]
    BY <1>2, Zenon
  <2>2. index \in Seq(S \cup {e})
    BY <1>5, SeqMonotonic
  <2> HIDE DEF e, index
  <2> QED
    BY <1>6, <2>1, <2>2, ExceptSeq
<1> QED
  BY <1>6, <1>7

\* What is saved of a service: its parsed sections, as a list.
LEMMA SavedInOrder ==
  ASSUME FrameInv, GuideWhole, Saving, NEW sv \in ServiceSet,
         IsSchedule(Schedules[sv][air[sv]])
  PROVE  LET S == {s \in On(sv) : s[1] < ParsedTables}
             o == events[sv]
         IN  /\ IsSchedule(S) /\ o \in Seq(S) /\ Len(o) \in Nat
             /\ \A i, j \in 1 .. Len(o) : i < j => InOrder(o[i], o[j])
             /\ \A s \in S : \E i \in 1 .. Len(o) : o[i] = s
<1> DEFINE S == {s \in On(sv) : s[1] < ParsedTables}
<1>1. IsFiniteSet(S)
  <2>1. S \in SUBSET On(sv)
    OBVIOUS
  <2> QED
    BY <2>1, OnFinite, FS_Subset
<1>2. IsSchedule(S)
  BY DEF IsSchedule, On
<1>3. events[sv] = Ordered(S)
  BY DEF GuideWhole, Guide
<1> HIDE DEF S
<1>4. /\ Ordered(S) \in Seq(S) /\ Len(Ordered(S)) = Cardinality(S) /\ Cardinality(S) \in Nat
      /\ \A i, j \in 1 .. Cardinality(S) : i < j => InOrder(Ordered(S)[i], Ordered(S)[j])
      /\ \A s \in S : \E i \in 1 .. Cardinality(S) : Ordered(S)[i] = s
  BY <1>1, <1>2, OrderedListsAll
<1> QED
  BY <1>2, <1>3, <1>4 DEF S

\* What GuideWhole means for a viewer: while the files of an undisturbed download are
\* written, the events of a service are those of every parsed section it sends and of no
\* other, each once, table by table, segment by segment and slot by slot
\* (get_eit_for_all_service and parse_eit_sections_for_epg), in whatever order the sections
\* were received.
EventsInOrder ==
  Saving => \A sv \in ServiceSet :
              LET S == {s \in On(sv) : s[1] < ParsedTables}
                  o == events[sv]
              IN  /\ o \in Seq(S)
                  /\ \A i, j \in 1 .. Len(o) : i < j => InOrder(o[i], o[j]) /\ o[i] # o[j]
                  /\ \A s \in S : \E i \in 1 .. Len(o) : o[i] = s

THEOREM EventsAlwaysInOrder ==
  ASSUME \A sv \in ServiceSet : \A v \in DOMAIN Schedules[sv] : IsSchedule(Schedules[sv][v])
  PROVE  Spec => []EventsInOrder
<1>1. FrameInv /\ GuideWhole => EventsInOrder
  <2> SUFFICES ASSUME FrameInv, GuideWhole, Saving, NEW sv \in ServiceSet
               PROVE  LET S == {s \in On(sv) : s[1] < ParsedTables}
                          o == events[sv]
                      IN  /\ o \in Seq(S)
                          /\ \A i, j \in 1 .. Len(o) : i < j => InOrder(o[i], o[j]) /\ o[i] # o[j]
                          /\ \A s \in S : \E i \in 1 .. Len(o) : o[i] = s
    BY Zenon DEF EventsInOrder
  <2> DEFINE S == {s \in On(sv) : s[1] < ParsedTables}
             o == events[sv]
  <2>1. IsSchedule(Schedules[sv][air[sv]])
    BY DEF FrameInv
  <2>2. /\ IsSchedule(S) /\ o \in Seq(S) /\ Len(o) \in Nat
        /\ \A i, j \in 1 .. Len(o) : i < j => InOrder(o[i], o[j])
        /\ \A s \in S : \E i \in 1 .. Len(o) : o[i] = s
    BY <2>1, SavedInOrder
  <2> HIDE DEF S, o
  <2>3. \A i \in 1 .. Len(o) : o[i] \in S
    BY <2>2, LenProperties
  <2>4. \A i, j \in 1 .. Len(o) : i < j => InOrder(o[i], o[j]) /\ o[i] # o[j]
    BY <2>2, <2>3, OrderTotal
  <2> QED
    BY <2>2, <2>4 DEF S, o
<1>2. Init => FrameInv
  BY InitFrame
<1>3. FrameInv /\ [Next]_vars => FrameInv'
  BY FrameStep
<1> QED
  BY <1>1, <1>2, <1>3, GuideAlwaysWhole, PTL DEF Spec

\* The index of eight days, which save_service_2epg fills without a test, is long enough for
\* every stream that sends its events in order of time over no more than eight local dates.
THEOREM IndexAlwaysFits ==
  ASSUME SchedulesFit
  PROVE  Spec => []IndexFits
<1>1. FrameInv /\ GuideWhole => IndexFits
  <2> SUFFICES ASSUME FrameInv, GuideWhole, Saving, NEW sv \in ServiceSet, events[sv] # << >>
               PROVE  Len(IndexOf(events[sv])) <= DAYS
    BY DEF IndexFits
  <2> DEFINE S == {s \in On(sv) : s[1] < ParsedTables}
             o == events[sv]
             L == Len(o)
  <2>1. IsSchedule(Schedules[sv][air[sv]]) /\ InTime(S)
    BY DEF FrameInv, SchedulesFit, On
  <2>2. /\ IsSchedule(S) /\ o \in Seq(S) /\ L \in Nat
        /\ \A i, j \in 1 .. L : i < j => InOrder(o[i], o[j])
    BY <2>1, SavedInOrder
  <2> HIDE DEF S, o, L
  <2>3. \A i \in 1 .. L : o[i] \in S /\ o[i][4] \in Nat
    <3>1. \A i \in 1 .. L : o[i] \in S
      BY <2>2, LenProperties DEF L
    <3> QED
      BY <2>2, <3>1 DEF IsSchedule
  <2>4. L \in Nat \ {0} /\ 1 \in 1 .. L /\ L \in 1 .. L
    BY <2>2, EmptySeq DEF o, L
  <2>5. \A n \in 1 .. L - 1 : o[n][4] <= o[n + 1][4]
    <3> TAKE n \in 1 .. L - 1
    <3>1. n \in 1 .. L /\ n + 1 \in 1 .. L /\ n < n + 1
      BY <2>4
    <3>2. InOrder(o[n], o[n + 1])
      BY <2>2, <3>1
    <3> QED
      BY <2>1, <2>3, <3>1, <3>2 DEF InTime
  <2>6. IsTimed(o)
    BY <2>2, <2>3, <2>5 DEF IsTimed, IsList, L, o
  <2>7. Len(IndexOf(o)) \in Nat /\ Len(IndexOf(o)) <= o[L][4] - o[1][4] + 1
    BY <2>6, IndexLength DEF L
  <2>8. o[L][4] < o[1][4] + DAYS /\ o[L][4] \in Nat /\ o[1][4] \in Nat
    BY <2>1, <2>3, <2>4 DEF InTime
  <2>9. DAYS \in Nat
    BY EpgFileAssumption
  <2>10. Len(IndexOf(o)) <= DAYS
    BY <2>7, <2>8, <2>9
  <2> QED
    BY <2>10 DEF o
<1>2. Init => FrameInv
  BY InitFrame
<1>3. FrameInv /\ [Next]_vars => FrameInv'
  BY FrameStep
<1> QED
  BY <1>1, <1>2, <1>3, GuideAlwaysWhole, PTL DEF Spec
=============================================================================
