--------------------------- MODULE DtvCoreProofs ---------------------------
(* What the dtv object promises, for any services, any frequencies, any size *)
(* of the filter and any number of threads.  Its types, the release of its   *)
(* locks and the use of the time buffer hold whatever the callers do; the    *)
(* rest is proved of the object under the calls of a viewer: those of the    *)
(* switch thread, the timer slot, the events and the list of events, and     *)
(* neither the forced stop nor the manual scan.                              *)
EXTENDS DtvCore, WellFoundedInduction, SequenceTheorems, TLAPS

\* A loop over the slots of the filter that has something to find stops at a
\* slot of the set, and at no slot before it.
LEMMA LeastIsFirst ==
  ASSUME NEW S, S \subseteq Nat, S # {}
  PROVE  Least(S) \in S /\ \A j \in S : Least(S) <= j
<1> DEFINE Less == {ss \in Nat \X Nat : ss[1] < ss[2]}
<1>1. IsWellFoundedOn(Less, Nat)
  BY NatLessThanWellFounded DEF OpToRel
<1>2. PICK i \in S : \A j \in S : ~ (<<j, i>> \in Less)
  <2> HIDE DEF Less
  <2> QED
    BY <1>1, WFMin
<1>3. \A j \in S : i <= j
  <2> SUFFICES ASSUME NEW j \in S, ~ (i <= j) PROVE FALSE
    OBVIOUS
  <2>1. <<j, i>> \in Less
    BY <1>2
  <2> QED
    BY <1>2, <2>1
<1> QED
  BY <1>3 DEF Least

-----------------------------------------------------------------------------
(* The filter *)

FilterType(f) == f \in [Slots -> Entries \cup {Free}]

LEMMA SlotsNat == Slots \subseteq Nat
  BY NumSlotsAssumption DEF Slots

\* An entry is added in one slot, which was free, or nowhere.
LEMMA AddedSlot ==
  ASSUME NEW f, FilterType(f), NEW e \in Entries
  PROVE  /\ FilterType(Added(f, e))
         /\ \A i \in Slots : Added(f, e)[i] # f[i] => f[i] = Free /\ Added(f, e)[i] = e
<1> DEFINE free == SlotsIn(f, {Free})
<1>1. CASE free = {}
  BY <1>1 DEF Added
<1>2. CASE free # {}
  <2>1. free \subseteq Nat /\ free \subseteq Slots
    BY SlotsNat DEF SlotsIn, FilterType
  <2>2. Least(free) \in free
    BY <1>2, <2>1, LeastIsFirst
  <2>3. Least(free) \in Slots /\ f[Least(free)] = Free
    BY <2>1, <2>2 DEF SlotsIn
  <2>4. Added(f, e) = [f EXCEPT ![Least(free)] = e]
    BY <1>2 DEF Added
  <2> HIDE DEF free
  <2> QED
    BY <2>3, <2>4 DEF FilterType
<1> QED
  BY <1>1, <1>2

\* A PID is removed from one slot, or from none if no slot has it.
LEMMA RemovedSlot ==
  ASSUME NEW f, FilterType(f), NEW p \in Pids
  PROVE  /\ FilterType(Removed(f, p))
         /\ \A i \in Slots : Removed(f, p)[i] # f[i] =>
               Removed(f, p)[i] = Free /\ \E b \in Buffers : f[i] = Entry(p, b)
         /\ (\E i \in Slots, b \in Buffers : f[i] = Entry(p, b)) =>
               \E i \in Slots : /\ \E b \in Buffers : f[i] = Entry(p, b)
                                /\ Removed(f, p)[i] = Free
<1> DEFINE hit == SlotsIn(f, {Entry(p, b) : b \in Buffers})
<1>0. /\ hit \subseteq Nat /\ hit \subseteq Slots
      /\ \A i \in Slots : i \in hit <=> \E b \in Buffers : f[i] = Entry(p, b)
  BY SlotsNat DEF SlotsIn, FilterType
<1>1. CASE hit = {}
  <2>1. Removed(f, p) = f
    BY <1>1 DEF Removed
  <2> HIDE DEF hit
  <2> QED
    BY <1>0, <1>1, <2>1
<1>2. CASE hit # {}
  <2>1. Least(hit) \in hit
    BY <1>0, <1>2, LeastIsFirst
  <2>2. Removed(f, p) = [f EXCEPT ![Least(hit)] = Free]
    BY <1>2 DEF Removed
  <2> HIDE DEF hit
  <2> QED
    BY <1>0, <2>1, <2>2 DEF FilterType
<1> QED
  BY <1>1, <1>2

LEMMA PidsTyped ==
  /\ EIT \in Pids /\ TOT \in Pids /\ PAT \in Pids
  /\ \A s \in Services : Pid("pmt", s) \in Pids /\ Pid("video", s) \in Pids /\ Pid("audio", s) \in Pids
  /\ \A s \in Services \cup {NoService} :
       /\ Pid("pmt", s) \in Pids \ {EIT, TOT, PAT}
       /\ \A t \in Services : Pid("pmt", s) \notin {Pid("video", t), Pid("audio", t)}
  /\ \A p \in Pids, b \in Buffers : Entry(p, b) \in Entries
  BY DEF EIT, TOT, PAT, Pid, Pids, Entry, Entries

LEMMA EmptyTyped == FilterType(EmptyFilter)
  BY DEF FilterType, EmptyFilter

\* Whatever a read through the pointer finds is a service or none.
LEMMA FoundTyped ==
  ASSUME current_service \in Services \cup {NoService}
  PROVE  Found \subseteq Services \cup {NoService}
  BY DEF Found

-----------------------------------------------------------------------------
(* Control flow *)

\* The steps functions return to.
Backs == {"stop_gst", "force_gst", "sel_check", "sel_index", "pf_start", "scan_spawn", "scan_check"}

StackType == stack \in [Callers -> Seq(Backs)]
PcType == pc \in [Callers -> CallerSteps]

LEMMA BacksAreSteps == Backs \subseteq CallerSteps
  BY DEF Backs, CallerSteps

\* One more step to return to.
LEMMA PushedStep ==
  ASSUME NEW b \in Backs, NEW s \in Seq(Backs)
  PROVE  /\ <<b>> \o s \in Seq(Backs) /\ <<b>> \o s # << >>
         /\ Head(<<b>> \o s) = b /\ Tail(<<b>> \o s) = s
<1>1. <<b>> \in Seq(Backs) /\ Len(<<b>>) = 1 /\ <<b>>[1] = b
  OBVIOUS
<1>2. /\ <<b>> \o s \in Seq(Backs) /\ Len(<<b>> \o s) = Len(s) + 1
      /\ \A i \in 1..Len(s) + 1 : (<<b>> \o s)[i] = IF i <= 1 THEN b ELSE s[i - 1]
  BY <1>1, ConcatProperties
<1>3. Len(s) \in Nat /\ <<b>> \o s # << >>
  BY <1>2, LenProperties, EmptySeq
<1>4. Head(<<b>> \o s) = b
  BY <1>2, <1>3
<1>5. /\ Tail(<<b>> \o s) \in Seq(Backs) /\ Len(Tail(<<b>> \o s)) = Len(s)
      /\ \A i \in 1..Len(s) : Tail(<<b>> \o s)[i] = s[i]
  BY <1>2, <1>3, HeadTailProperties
<1>6. Tail(<<b>> \o s) = s
  BY <1>5, SeqEqual
<1> QED
  BY <1>2, <1>3, <1>4, <1>6

\* One step less.
LEMMA PoppedStep ==
  ASSUME NEW s \in Seq(Backs), s # << >>
  PROVE  Head(s) \in Backs /\ Tail(s) \in Seq(Backs)
  BY HeadTailProperties

LEMMA GotoTyped ==
  ASSUME PcType, StackType, NEW c \in Callers, NEW step \in CallerSteps, Goto(c, step)
  PROVE  PcType' /\ StackType'
  BY DEF PcType, StackType, Goto

LEMMA CallTyped ==
  ASSUME PcType, StackType, NEW c \in Callers, NEW step \in CallerSteps, NEW b \in Backs,
         Call(c, step, b)
  PROVE  PcType' /\ StackType'
<1>1. stack' = [stack EXCEPT ![c] = <<b>> \o stack[c]] /\ <<b>> \o stack[c] \in Seq(Backs)
  BY PushedStep DEF Call, StackType
<1> QED
  BY <1>1 DEF PcType, StackType, Call

LEMMA ReturnTyped ==
  ASSUME PcType, StackType, NEW c \in Callers, Return(c)
  PROVE  /\ PcType' /\ StackType' /\ pc'[c] \in Backs \cup {"idle"}
         /\ \A d \in Callers \ {c} : pc'[d] = pc[d]
<1>1. CASE stack[c] = << >>
  BY <1>1, GotoTyped DEF Return, Goto, CallerSteps, PcType
<1>2. CASE stack[c] # << >>
  <2>1. Head(stack[c]) \in Backs /\ Tail(stack[c]) \in Seq(Backs)
    BY <1>2, PoppedStep DEF StackType
  <2>2. pc' = [pc EXCEPT ![c] = Head(stack[c])] /\ stack' = [stack EXCEPT ![c] = Tail(stack[c])]
    BY <1>2 DEF Return
  <2> QED
    BY <2>1, <2>2, BacksAreSteps DEF PcType, StackType
<1> QED
  BY <1>1, <1>2

-----------------------------------------------------------------------------
(* Types *)

SelSteps == {"sel_tune", "sel_add", "sel_gst", "sel_list", "sel_on"}

\* A selection past its look at the list has a service.
ControlType ==
  PcType /\ StackType /\ (pc["sw"] \in SelSteps => current_service \in Services)
ObjType ==
  /\ current_service \in Services \cup {NoService} /\ target \in Services \cup {NoService}
  /\ curr_freq \in {Freq[s] : s \in Services} \cup {NoFreq}
  /\ lock \in [Locks -> Callers \cup Workers \cup {NoOne}]
FlagType ==
  /\ is_playing \in BOOLEAN /\ is_scanning \in BOOLEAN /\ time_is_set \in BOOLEAN
  /\ selected \in BOOLEAN /\ freed \in BOOLEAN /\ flag \in [Workers -> BOOLEAN]
RunType ==
  /\ tid \in [Workers -> Threads] /\ joining \in [Callers -> Threads]
  /\ wpc \in [Workers -> [Threads -> WorkerSteps]]
  /\ cancelled \in [Workers -> [Threads -> BOOLEAN]]

TypeInv == ControlType /\ ObjType /\ FlagType /\ RunType /\ FilterType(filter)

\* A caller that goes on, anywhere but to the steps of a selection that need a service.
LEMMA MoveTyped ==
  ASSUME ControlType, UNCHANGED current_service, NEW c \in Callers,
         \/ \E step \in CallerSteps \ SelSteps :
               Goto(c, step) \/ \E b \in Backs : Call(c, step, b)
         \/ Return(c)
  PROVE  ControlType'
<1>1. ASSUME NEW step \in CallerSteps \ SelSteps, Goto(c, step)
      PROVE  ControlType'
  <2>1. PcType' /\ StackType'
    BY <1>1, GotoTyped DEF ControlType
  <2>2. pc' = [pc EXCEPT ![c] = step]
    BY <1>1 DEF Goto
  <2> QED
    BY <2>1, <2>2 DEF ControlType, PcType, Callers
<1>2. ASSUME NEW step \in CallerSteps \ SelSteps, NEW b \in Backs, Call(c, step, b)
      PROVE  ControlType'
  <2>1. PcType' /\ StackType'
    BY <1>2, CallTyped DEF ControlType
  <2>2. pc' = [pc EXCEPT ![c] = step]
    BY <1>2 DEF Call
  <2> QED
    BY <2>1, <2>2 DEF ControlType, PcType, Callers
<1>3. CASE Return(c)
  BY <1>3, ReturnTyped DEF ControlType, Backs, SelSteps, Callers
<1> QED
  BY <1>1, <1>2, <1>3

\* The locks and their holders.
LEMMA LockTyped ==
  ASSUME ObjType, NEW m \in Locks, NEW c \in Callers \cup Workers \cup {NoOne}, Lock(m, c),
         UNCHANGED <<current_service, target, curr_freq>>
  PROVE  ObjType'
  BY DEF ObjType, Lock

LEMMA FlagTyped ==
  ASSUME FlagType, NEW w \in Workers, NEW v \in BOOLEAN, SetFlag(w, v),
         UNCHANGED <<is_playing, is_scanning, time_is_set, freed, selected>>
  PROVE  FlagType'
<1>1. flag' \in [Workers -> BOOLEAN]
  BY DEF FlagType, SetFlag
<1> QED
  BY <1>1 DEF FlagType

LEMMA FilterTyped ==
  ASSUME FilterType(filter),
         \/ filter' = filter \/ filter' = EmptyFilter
         \/ \E p \in Pids : filter' = Removed(filter, p)
         \/ \E e \in Entries : filter' = Added(filter, e)
  PROVE  FilterType(filter')
  BY AddedSlot, RemovedSlot, EmptyTyped

-----------------------------------------------------------------------------
(* Threads *)

LEMMA ThreadsNat == Threads \subseteq Nat /\ 1 \in Threads
  BY ThreadsAssumption DEF Threads

\* What pthread_create does when it does anything.
Created(w, g, first) ==
  /\ tid' = [tid EXCEPT ![w] = g]
  /\ wpc' = [wpc EXCEPT ![w][g] = first]
  /\ cancelled' = [cancelled EXCEPT ![w][g] = FALSE]

\* A thread is created in a place that is free, or there was none and nothing changed.
LEMMA CreateCases ==
  ASSUME NEW c \in Callers, NEW w \in Workers, NEW first, NEW next, Create(c, w, first, next)
  PROVE  /\ Goto(c, next) /\ UNCHANGED joining
         /\ \/ UNCHANGED runVars /\ \A g \in Threads :
                  wpc[w][g] \in Ended => \E d \in Callers : At(d, JoinStep[w]) /\ joining[d] = g
            \/ \E g \in Threads : wpc[w][g] \in Ended /\ Created(w, g, first)
<1> DEFINE joined == {joining[d] : d \in {d \in Callers : At(d, JoinStep[w])}}
           room == {g \in Threads \ joined : wpc[w][g] \in Ended}
<1>1. Goto(c, next) /\ UNCHANGED joining
  BY DEF Create
<1>2. CASE room = {}
  <2>1. UNCHANGED runVars
    BY <1>2 DEF Create
  <2> QED
    BY <1>1, <1>2, <2>1
<1>3. CASE room # {}
  <2>1. room \subseteq Nat
    BY ThreadsNat
  <2>2. Least(room) \in room
    BY <1>3, <2>1, LeastIsFirst
  <2>3. Created(w, Least(room), first)
    BY <1>3 DEF Create, Created
  <2>4. Least(room) \in Threads /\ wpc[w][Least(room)] \in Ended
    BY <2>2
  <2> HIDE DEF room, joined
  <2> QED
    BY <1>1, <2>3, <2>4
<1> QED
  BY <1>2, <1>3

\* Threads are created, cancelled, joined and go on to steps of their own.
LEMMA RunTyped ==
  ASSUME RunType,
         \/ UNCHANGED threadVars
         \/ \E c \in Callers, w \in Workers, first \in WorkerSteps : \E next : Create(c, w, first, next)
         \/ \E c \in Callers, w \in Workers : Cancel(c, w) \/ Join(c, w)
         \/ \E w \in Workers, g \in Threads, step \in WorkerSteps : GotoW(w, g, step)
  PROVE  RunType'
<1>1. CASE UNCHANGED threadVars
  BY <1>1 DEF threadVars, runVars, RunType
<1>2. ASSUME NEW c \in Callers, NEW w \in Workers, NEW first \in WorkerSteps, NEW next,
             Create(c, w, first, next)
      PROVE  RunType'
  <2>1. UNCHANGED joining /\ (UNCHANGED runVars \/ \E g \in Threads : Created(w, g, first))
    BY <1>2, CreateCases
  <2>2. ASSUME NEW g \in Threads, Created(w, g, first)
        PROVE  RunType'
    <3>1. tid' \in [Workers -> Threads] /\ joining' \in [Callers -> Threads]
      BY <2>1, <2>2 DEF Created, RunType
    <3>2. wpc' \in [Workers -> [Threads -> WorkerSteps]]
      BY <2>2 DEF Created, RunType
    <3>3. cancelled' \in [Workers -> [Threads -> BOOLEAN]]
      BY <2>2 DEF Created, RunType
    <3> QED
      BY <3>1, <3>2, <3>3 DEF RunType
  <2> QED
    BY <2>1, <2>2 DEF runVars, RunType
<1>3. ASSUME NEW c \in Callers, NEW w \in Workers, Cancel(c, w)
      PROVE  RunType'
  <2>1. cancelled' \in [Workers -> [Threads -> BOOLEAN]]
    BY <1>3 DEF Cancel, RunType
  <2>2. joining' \in [Callers -> Threads] /\ UNCHANGED <<tid, wpc>>
    BY <1>3 DEF Cancel, RunType
  <2> QED
    BY <2>1, <2>2 DEF RunType
<1>4. ASSUME NEW c \in Callers, NEW w \in Workers, Join(c, w)
      PROVE  RunType'
  BY <1>4 DEF Join, RunType, WorkerSteps
<1>5. ASSUME NEW w \in Workers, NEW g \in Threads, NEW step \in WorkerSteps, GotoW(w, g, step)
      PROVE  RunType'
  BY <1>5 DEF GotoW, RunType
<1> QED
  BY <1>1, <1>2, <1>3, <1>4, <1>5

-----------------------------------------------------------------------------
(* Every step keeps the types *)

LEMMA FilterStep == TypeInv /\ [Next]_vars => FilterType(filter)'
<1> SUFFICES ASSUME TypeInv, [Next]_vars
             PROVE  FilterType(filter')
  OBVIOUS
<1>a. FilterType(filter)
  BY DEF TypeInv
<1>1. ASSUME NEW c \in Callers, Exit(c) PROVE FilterType(filter')
  BY <1>1, <1>a, FilterTyped, PidsTyped DEF Exit, EpgExit, EpgJoin, PfExit, PfJoin, TimeExit, TimeJoin
<1>2. ASSUME NEW c \in Callers, Stop(c) PROVE FilterType(filter')
  BY <1>2, <1>a, FilterTyped DEF Stop, StopTest, StopLock, StopGst, StopClear
<1>3. ASSUME NEW c \in Callers, Event(c) PROVE FilterType(filter')
  BY <1>3, <1>a DEF Event, EventNone, EventUnlocks, EventLock, EventRead
<1>4. CASE SelAdd
  <2>1. current_service \in Services
    BY <1>4 DEF TypeInv, ControlType, SelAdd, At, SelSteps
  <2>2. /\ OwnPid("pmt") \in Entries /\ Entry(PAT, "media") \in Entries
        /\ OwnPid("video") \in Entries /\ OwnPid("audio") \in Entries
    BY <2>1, PidsTyped DEF OwnPid, Buffers
  <2>3. FilterType(Added(filter, OwnPid("pmt")))
    BY <1>a, <2>2, AddedSlot
  <2>4. FilterType(Added(Added(filter, OwnPid("pmt")), Entry(PAT, "media")))
    BY <2>2, <2>3, AddedSlot
  <2>5. FilterType(Added(Added(Added(filter, OwnPid("pmt")), Entry(PAT, "media")), OwnPid("video")))
    BY <2>2, <2>4, AddedSlot
  <2> QED
    BY <1>4, <2>2, <2>5, AddedSlot DEF SelAdd
<1>5. CASE SelList
  <2>1. PICK s \in Found : filter' = Removed(Removed(filter, Pid("pmt", s)), PAT)
    BY <1>5 DEF SelList
  <2>2. Pid("pmt", s) \in Pids /\ PAT \in Pids
    BY <2>1, PidsTyped, FoundTyped DEF TypeInv, ObjType
  <2>3. FilterType(Removed(filter, Pid("pmt", s)))
    BY <1>a, <2>2, RemovedSlot
  <2> QED
    BY <2>1, <2>2, <2>3, RemovedSlot
<1>6. ASSUME Selecting, ~SelAdd, ~SelList PROVE FilterType(filter')
  BY <1>6, <1>a, FilterTyped
  DEF Selecting, Select, SelStop, SelCheck, SelIndex, SelNoPids, SelTune, SelGst, SelGstFails, SelOn,
      PfStart, PfFlag
<1>7. ASSUME Start \/ Gui \/ Scanning PROVE FilterType(filter')
  BY <1>7, <1>a, FilterTyped
  DEF Start, StartSelect, ForceStart, EventStart, ListLock, ScanStart, Ticking, TickStop, TickEpg,
      TickTime, Gui, EpgFlag, TimeFlag, ListRead, ForceOff, ForceGst, ScanSpawn,
      Scanning, Scan, ScanCheck, ScanOn, ScanTune
<1>8. ASSUME NEW g \in Threads,
             EpgMust(g) \/ PfMust(g) \/ TimeMust(g) \/ WorkerMay(g) \/ \E w \in Workers : Die(w, g)
      PROVE  FilterType(filter')
  <2>1. Entry(EIT, "time") \in Entries /\ Entry(EIT, "epg") \in Entries /\ Entry(TOT, "time") \in Entries
    BY PidsTyped DEF Buffers
  <2> QED
    BY <1>8, <1>a, <2>1, PidsTyped, FilterTyped
    DEF EpgMust, PfMust, TimeMust, WorkerMay, EpgParse, EpgLock, EpgSave, WorkerEnd, PfLoad, PfRelease,
        TimeSet, EpgLoad, EpgComplete, PfLock, PfComplete, TimeLoad, TimeComplete, Die
<1>9. CASE NullDereference
  BY <1>9, <1>a DEF NullDereference
<1>10. CASE UNCHANGED vars
  BY <1>10, <1>a DEF vars
<1> QED
  BY <1>1, <1>2, <1>3, <1>4, <1>5, <1>6, <1>7, <1>8, <1>9, <1>10
  DEF Next, SwStep, GuiStep, ScanStep, Callers

LEMMA RunStep == TypeInv /\ [Next]_vars => RunType'
<1> SUFFICES ASSUME TypeInv, [Next]_vars
             PROVE  RunType'
  OBVIOUS
<1>a. RunType
  BY DEF TypeInv
<1>1. ASSUME NEW c \in Callers, Exit(c) PROVE RunType'
  BY <1>1, <1>a, RunTyped DEF Workers, Exit, EpgExit, EpgJoin, PfExit, PfJoin, TimeExit, TimeJoin
<1>2. ASSUME NEW c \in Callers, Stop(c) PROVE RunType'
  BY <1>2, <1>a, RunTyped DEF Stop, StopTest, StopLock, StopGst, StopClear
<1>3. ASSUME NEW c \in Callers, Event(c) PROVE RunType'
  BY <1>3, <1>a, RunTyped DEF Event, EventNone, EventUnlocks, EventLock, EventRead
<1>4. ASSUME PfStart \/ TickEpg \/ TickTime
      PROVE  RunType'
  BY <1>4, <1>a, RunTyped DEF PfStart, TickEpg, TickTime, Callers, Workers, WorkerSteps
<1>5. ASSUME Selecting, ~PfStart PROVE RunType'
  BY <1>5, <1>a, RunTyped
  DEF Selecting, Select, SelStop, SelCheck, SelIndex, SelNoPids, SelTune, SelAdd, SelGst, SelList, SelGstFails,
      SelOn, PfFlag
<1>6. ASSUME Start \/ Gui \/ Scanning PROVE RunType'
  BY <1>4, <1>6, <1>a, RunTyped
  DEF Start, StartSelect, ForceStart, EventStart, ListLock, ScanStart, Ticking, TickStop, Gui,
      EpgFlag, TimeFlag, ListRead, ForceOff, ForceGst, ScanSpawn, Scanning, Scan, ScanCheck, ScanOn,
      ScanTune
<1>7. ASSUME NEW g \in Threads,
             EpgMust(g) \/ PfMust(g) \/ TimeMust(g) \/ WorkerMay(g) \/ \E w \in Workers : Die(w, g)
      PROVE  RunType'
  BY <1>7, <1>a, RunTyped
  DEF EpgMust, PfMust, TimeMust, WorkerMay, EpgParse, EpgLock, EpgSave, WorkerEnd, PfLoad, PfRelease,
      TimeSet, EpgLoad, EpgComplete, PfLock, PfComplete, TimeLoad, TimeComplete, Die, Workers,
      WorkerSteps
<1>8. CASE NullDereference
  BY <1>8, <1>a DEF NullDereference, RunType, WorkerSteps
<1>9. CASE UNCHANGED vars
  BY <1>9, <1>a, RunTyped DEF vars
<1> QED
  BY <1>1, <1>2, <1>3, <1>4, <1>5, <1>6, <1>7, <1>8, <1>9
  DEF Next, SwStep, GuiStep, ScanStep, Callers, Selecting

LEMMA ObjStep == TypeInv /\ [Next]_vars => ObjType'
<1> SUFFICES ASSUME TypeInv, [Next]_vars
             PROVE  ObjType'
  OBVIOUS
<1>a. ObjType
  BY DEF TypeInv
<1>b. \A s \in Services : Freq[s] \in {Freq[t] : t \in Services}
  OBVIOUS
<1> USE DEF Locks
<1>1. ASSUME NEW c \in Callers, Exit(c) PROVE ObjType'
  BY <1>1, <1>a, LockTyped
  DEF Exit, EpgExit, EpgJoin, PfExit, PfJoin, TimeExit, TimeJoin, objVars, selVars, ObjType
<1>2. ASSUME NEW c \in Callers, Stop(c) PROVE ObjType'
  BY <1>2, <1>a DEF Stop, StopTest, StopLock, StopGst, StopClear, objVars, selVars, ObjType, Lock
<1>3. ASSUME NEW c \in Callers, Event(c) PROVE ObjType'
  BY <1>3, <1>a, LockTyped
  DEF Event, EventNone, EventUnlocks, EventLock, EventRead, objVars, selVars, ObjType
<1>4. CASE SelTune
  <2>1. current_service \in Services
    BY <1>4 DEF TypeInv, ControlType, SelTune, At, SelSteps
  <2> QED
    BY <1>4, <1>a, <1>b, <2>1 DEF SelTune, SelectEnd, Lock, ObjType, selVars
<1>5. ASSUME Selecting, ~SelTune PROVE ObjType'
  BY <1>5, <1>a
  DEF Selecting, Select, SelStop, SelCheck, SelIndex, SelNoPids, SelAdd, SelGst, SelList, SelGstFails,
      SelOn, PfStart, PfFlag, SelectEnd, Lock, ObjType, objVars, selVars, Callers
<1>6. ASSUME Start \/ Gui \/ Scanning PROVE ObjType'
  BY <1>6, <1>a
  DEF Start, StartSelect, ForceStart, EventStart, ListLock, ScanStart, Ticking, TickStop, TickEpg,
      TickTime, Gui, EpgFlag, TimeFlag, ListRead, ForceOff, ForceGst, ScanSpawn,
      Scanning, Scan, ScanCheck, ScanOn, ScanTune, Lock, ObjType, objVars, selVars, Callers
<1>7. ASSUME NEW g \in Threads,
             EpgMust(g) \/ PfMust(g) \/ TimeMust(g) \/ WorkerMay(g) \/ \E w \in Workers : Die(w, g)
      PROVE  ObjType'
  <2>1. UNCHANGED <<current_service, target, curr_freq>>
    BY <1>7
    DEF EpgMust, PfMust, TimeMust, WorkerMay, EpgParse, EpgLock, EpgSave, WorkerEnd, PfLoad, PfRelease,
        TimeSet, EpgLoad, EpgComplete, PfLock, PfComplete, TimeLoad, TimeComplete, Die, objVars, selVars
  <2>2. lock' = lock \/ \E m \in Locks, h \in Callers \cup Workers \cup {NoOne} : Lock(m, h)
    <3>1. CASE EpgLock(g) \/ EpgSave(g)
      BY <3>1 DEF EpgLock, EpgSave, Workers
    <3>2. CASE PfLock(g) \/ PfRelease(g)
      BY <3>2 DEF PfLock, PfRelease, Workers
    <3>3. CASE ~(EpgLock(g) \/ EpgSave(g) \/ PfLock(g) \/ PfRelease(g))
      BY <1>7, <3>3
      DEF EpgMust, PfMust, TimeMust, WorkerMay, EpgParse, WorkerEnd, PfLoad, TimeSet, EpgLoad,
          EpgComplete, PfComplete, TimeLoad, TimeComplete, Die
    <3> QED
      BY <3>1, <3>2, <3>3
  <2> QED
    BY <1>a, <2>1, <2>2, LockTyped DEF ObjType
<1>8. CASE NullDereference
  BY <1>8, <1>a DEF NullDereference, ObjType, objVars, selVars
<1>9. CASE UNCHANGED vars
  BY <1>9, <1>a DEF vars, ObjType, objVars, selVars
<1> QED
  BY <1>1, <1>2, <1>3, <1>4, <1>5, <1>6, <1>7, <1>8, <1>9
  DEF Next, SwStep, GuiStep, ScanStep, Callers

LEMMA FlagStep == TypeInv /\ [Next]_vars => FlagType'
<1> SUFFICES ASSUME TypeInv, [Next]_vars
             PROVE  FlagType'
  OBVIOUS
<1>a. FlagType
  BY DEF TypeInv
<1> USE DEF Workers
<1>1. ASSUME NEW c \in Callers, Exit(c) PROVE FlagType'
  BY <1>1, <1>a, FlagTyped
  DEF Exit, EpgExit, EpgJoin, PfExit, PfJoin, TimeExit, TimeJoin, objVars, selVars, FlagType
<1>2. ASSUME NEW c \in Callers, Stop(c) PROVE FlagType'
  BY <1>2, <1>a DEF Stop, StopTest, StopLock, StopGst, StopClear, objVars, selVars, FlagType
<1>3. ASSUME NEW c \in Callers, Event(c) PROVE FlagType'
  BY <1>3, <1>a DEF Event, EventNone, EventUnlocks, EventLock, EventRead, objVars, selVars, FlagType
<1>4. ASSUME EpgFlag \/ TimeFlag \/ PfFlag PROVE FlagType'
  BY <1>4, <1>a, FlagTyped DEF EpgFlag, TimeFlag, PfFlag, objVars, selVars, FlagType
<1>5. ASSUME Selecting, ~PfFlag PROVE FlagType'
  BY <1>5, <1>a
  DEF Selecting, Select, SelStop, SelCheck, SelIndex, SelNoPids, SelTune, SelAdd, SelGst, SelList, SelGstFails,
      SelOn, PfStart, SelectEnd, FlagType, objVars, selVars
<1>6. ASSUME Start \/ (Gui /\ ~EpgFlag /\ ~TimeFlag) \/ Scanning PROVE FlagType'
  BY <1>6, <1>a
  DEF Start, StartSelect, ForceStart, EventStart, ListLock, ScanStart, Ticking, TickStop, TickEpg,
      TickTime, Gui, ListRead, ForceOff, ForceGst, ScanSpawn, Scanning, Scan, ScanCheck, ScanOn,
      ScanTune, FlagType, objVars, selVars
<1>7. ASSUME NEW g \in Threads, NEW w \in Workers, WorkerEnd(w, g) PROVE FlagType'
  BY <1>7, <1>a, FlagTyped DEF WorkerEnd, objVars, selVars, FlagType
<1>8. ASSUME NEW g \in Threads,
             \/ EpgParse(g) \/ EpgLock(g) \/ EpgSave(g) \/ PfMust(g) \/ TimeSet(g) \/ WorkerMay(g)
             \/ \E w \in Workers : Die(w, g)
      PROVE  FlagType'
  BY <1>8, <1>a
  DEF PfMust, WorkerMay, EpgParse, EpgLock, EpgSave, PfLoad, PfRelease, TimeSet, EpgLoad,
      EpgComplete, PfLock, PfComplete, TimeLoad, TimeComplete, Die, FlagType, objVars, selVars
<1>9. CASE NullDereference
  BY <1>9, <1>a DEF NullDereference, FlagType, objVars, selVars
<1>10. CASE UNCHANGED vars
  BY <1>10, <1>a DEF vars, FlagType, objVars, selVars
<1> QED
  BY <1>1, <1>2, <1>3, <1>4, <1>5, <1>6, <1>7, <1>8, <1>9, <1>10
  DEF Next, SwStep, GuiStep, ScanStep, Callers, EpgMust, TimeMust

LEMMA ControlStep == TypeInv /\ [Next]_vars => ControlType'
<1> SUFFICES ASSUME TypeInv, [Next]_vars
             PROVE  ControlType'
  OBVIOUS
<1>a. ControlType
  BY DEF TypeInv
<1> USE DEF CallerSteps, SelSteps, Backs
<1>1. ASSUME NEW c \in Callers, Exit(c) PROVE ControlType'
  BY <1>1, <1>a, MoveTyped
  DEF Exit, EpgExit, EpgJoin, PfExit, PfJoin, TimeExit, TimeJoin, objVars
<1>2. ASSUME NEW c \in Callers, Stop(c) PROVE ControlType'
  BY <1>2, <1>a, MoveTyped DEF Stop, StopTest, StopLock, StopGst, StopClear, objVars
<1>3. ASSUME NEW c \in Callers, Event(c) PROVE ControlType'
  BY <1>3, <1>a, MoveTyped DEF Event, EventNone, EventUnlocks, EventLock, EventRead, objVars
<1>4. ASSUME SelIndex \/ SelTune \/ SelAdd \/ SelGst \/ SelList PROVE ControlType'
  <2>1. PcType' /\ StackType'
    BY <1>4, <1>a, GotoTyped, CallTyped
    DEF SelIndex, SelTune, SelAdd, SelGst, SelList, SelectEnd, ControlType, Callers
  <2>2. CASE SelIndex
    <3>1. target \in Services \/ pc'["sw"] = "event"
      BY <1>a, <2>2 DEF SelIndex, SelectEnd, Call, Callers, TypeInv, ObjType, ControlType, PcType
    <3> QED
      BY <2>1, <2>2, <3>1 DEF SelIndex, ControlType
  <2>3. CASE SelTune \/ SelAdd \/ SelGst \/ SelList
    <3>1. current_service \in Services /\ UNCHANGED current_service
      BY <1>a, <2>3 DEF SelTune, SelAdd, SelGst, SelList, At, ControlType, objVars
    <3> QED
      BY <2>1, <3>1 DEF ControlType
  <2> QED
    BY <1>4, <2>2, <2>3
<1>5. ASSUME Selecting, ~SelIndex, ~SelTune, ~SelAdd, ~SelGst, ~SelList PROVE ControlType'
  <2>1. CASE PfStart
    BY <1>a, <2>1, MoveTyped, CreateCases DEF PfStart, objVars, Callers, Workers
  <2> QED
    BY <1>5, <1>a, <2>1, MoveTyped
    DEF Selecting, Select, SelStop, SelCheck, SelNoPids, SelGstFails, SelOn, PfFlag, SelectEnd,
        objVars, Callers
<1>6. ASSUME NEW s \in Services \cup {NoService}, StartSelect(s) PROVE ControlType'
  <2>1. PcType' /\ StackType' /\ pc'["sw"] = "select"
    BY <1>a, <1>6 DEF StartSelect, ControlType, PcType, StackType, Callers
  <2> QED
    BY <1>a, <1>6, <2>1 DEF ControlType
<1>7. ASSUME TickEpg \/ TickTime PROVE ControlType'
  <2>1. Goto("gui", "epg_flag") \/ Goto("gui", "time_flag")
    BY <1>7, CreateCases DEF TickEpg, TickTime, Callers, Workers
  <2> QED
    BY <1>a, <1>7, <2>1, MoveTyped DEF TickEpg, TickTime, objVars, Callers
<1>8. ASSUME ForceStart \/ EventStart \/ ListLock \/ ScanStart \/ TickStop PROVE ControlType'
  BY <1>8, <1>a, MoveTyped
  DEF ForceStart, EventStart, ListLock, ScanStart, TickStop, objVars, Callers
<1>9. CASE ScanSpawn
  <2>1. PcType' /\ StackType' /\ pc'["sw"] = pc["sw"]
    BY <1>a, <1>9 DEF ScanSpawn, ControlType, PcType, StackType, Callers
  <2> QED
    BY <1>a, <1>9, <2>1 DEF ScanSpawn, objVars, ControlType
<1>10. ASSUME (Gui /\ ~ScanSpawn) \/ Scanning PROVE ControlType'
  BY <1>10, <1>a, MoveTyped
  DEF Gui, EpgFlag, TimeFlag, ListRead, ForceOff, ForceGst, Scanning, Scan, ScanCheck, ScanOn, ScanTune,
      objVars, Callers
<1>11. ASSUME NEW g \in Threads,
              EpgMust(g) \/ PfMust(g) \/ TimeMust(g) \/ WorkerMay(g) \/ \E w \in Workers : Die(w, g)
       PROVE  ControlType'
  BY <1>11, <1>a
  DEF EpgMust, PfMust, TimeMust, WorkerMay, EpgParse, EpgLock, EpgSave, WorkerEnd, PfLoad, PfRelease,
      TimeSet, EpgLoad, EpgComplete, PfLock, PfComplete, TimeLoad, TimeComplete, Die, GotoW,
      ControlType, PcType, StackType, objVars
<1>12. CASE NullDereference
  BY <1>12, <1>a DEF NullDereference, ControlType, PcType, StackType, Callers
<1>13. CASE UNCHANGED vars
  BY <1>13, <1>a DEF vars, objVars, ControlType, PcType, StackType
<1> QED
  BY <1>1, <1>2, <1>3, <1>4, <1>5, <1>6, <1>7, <1>8, <1>9, <1>10, <1>11, <1>12, <1>13
  DEF Next, Start, Ticking, SwStep, GuiStep, ScanStep, Callers

LEMMA InitTypeInv == Init => TypeInv
<1> SUFFICES ASSUME Init
             PROVE  TypeInv
  OBVIOUS
<1>1. ControlType
  <2>1. PcType /\ pc["sw"] = "idle"
    BY DEF Init, PcType, Callers, CallerSteps
  <2>2. StackType
    BY DEF Init, StackType
  <2> QED
    BY <2>1, <2>2 DEF ControlType, SelSteps
<1>2. ObjType
  BY DEF Init, ObjType
<1>3. FlagType
  <2>1. flag \in [Workers -> BOOLEAN]
    BY DEF Init
  <2> QED
    BY <2>1 DEF Init, FlagType
<1>4. RunType
  <2>1. cancelled \in [Workers -> [Threads -> BOOLEAN]]
    BY DEF Init
  <2> QED
    BY <2>1, ThreadsNat DEF Init, RunType, WorkerSteps
<1>5. FilterType(filter)
  BY DEF Init, FilterType
<1> QED
  BY <1>1, <1>2, <1>3, <1>4, <1>5 DEF TypeInv

LEMMA NextTypeInv == TypeInv /\ [Next]_vars => TypeInv'
  BY ControlStep, ObjStep, FlagStep, RunStep, FilterStep DEF TypeInv

\* Whatever is called and however the threads interleave, no variable leaves its domain:
\* a selection always has a service when it tunes to its frequency, functions return only
\* to steps that call them, and no PID but those of a service or a table is ever routed.
THEOREM TypeCorrect == Spec => []TypeOK
<1>1. TypeInv => TypeOK
  <2> SUFFICES ASSUME TypeInv
               PROVE  TypeOK
    OBVIOUS
  <2>1. pc \in [Callers -> CallerSteps] /\ stack \in [Callers -> Seq(CallerSteps)]
    <3>1. ASSUME NEW s \in Seq(Backs) PROVE s \in Seq(CallerSteps)
      BY BacksAreSteps
    <3> QED
      BY <3>1 DEF TypeInv, ControlType, PcType, StackType
  <2> QED
    BY <2>1 DEF TypeInv, ObjType, FlagType, RunType, FilterType, TypeOK
<1> QED
  BY <1>1, InitTypeInv, NextTypeInv, PTL DEF Spec

-----------------------------------------------------------------------------
(* The calls of a viewer *)

ViewerCalls == Calls \cap {"force", "scan"} = {}

Both == {"sw", "gui"}
StopSteps == {"stop", "stop_lock", "stop_gst", "stop_clear"}
ExitSteps == {"epg_exit", "epg_join", "pf_exit", "pf_join", "time_exit", "time_join"}
EventSteps == {"event", "ev_read"}

\* Where the GUI thread and the switch thread are, and where they return to.
GuiPlace ==
  \/ /\ pc["gui"] \in {"idle", "list_read", "epg_flag", "time_flag"} \cup EventSteps \cup StopSteps
     /\ stack["gui"] = << >>
  \/ pc["gui"] \in ExitSteps /\ stack["gui"] = <<"stop_gst">>
SwPlace ==
  \/ /\ pc["sw"] \in {"idle", "select", "sel_stop", "sel_check", "sel_index", "pf_start", "pf_flag"}
                     \cup SelSteps
     /\ stack["sw"] = << >>
  \/ pc["sw"] \in StopSteps /\ stack["sw"] = <<"sel_check">>
  \/ pc["sw"] \in ExitSteps /\ stack["sw"] \in {<<"stop_gst", "sel_check">>, <<"sel_index">>}
  \/ pc["sw"] \in EventSteps /\ stack["sw"] = <<"pf_start">>

\* While the switch thread runs, the GUI thread only reads events: the timer slot does
\* nothing then, and no selection starts while the GUI thread is in it.
PlaceInv ==
  /\ GuiPlace /\ SwPlace /\ pc["scan"] = "idle"
  /\ pc["sw"] # "idle" => pc["gui"] \in {"idle", "list_read"} \cup EventSteps

\* stop_lock is held by a caller inside its stop.
Stopping(c) ==
  \/ pc[c] \in {"stop_gst", "stop_clear"}
  \/ pc[c] \in ExitSteps /\ stack[c] # <<"sel_index">>
StopLockInv == lock["stop_lock"] # NoOne => \E c \in Both : Stopping(c)

\* The one thread of a worker that may be running is the one the object has the id of.
Runs(w) == wpc[w][tid[w]] \notin Ended
Maker == [epg |-> "gui", pf |-> "sw", time |-> "gui"]
FlagOf == [epg |-> "epg_flag", pf |-> "pf_flag", time |-> "time_flag"]
Flagging(w) == pc[Maker[w]] = FlagOf[w]
Joining(w) == \E c \in Both : pc[c] = JoinStep[w]

\* After an exit, the flag of its worker is down until the stop is over.
ExitDone(c) ==
  /\ pc[c] \in {"pf_exit", "pf_join", "time_exit", "time_join", "stop_gst"} => ~flag["epg"]
  /\ pc[c] \in {"pf_join", "time_exit", "time_join", "stop_gst"} => ~flag["pf"]
  /\ pc[c] = "stop_gst" => ~flag["time"]

WorkInv ==
  /\ \A w \in Workers, g \in Threads : g # tid[w] => wpc[w][g] \in Ended
  /\ \A w \in Workers : Runs(w) => flag[w] \/ Flagging(w) \/ (w = "pf" /\ Joining("pf"))
  /\ \A w \in Workers : flag[w] \/ Flagging(w) => wpc[w][tid[w]] # "none"
  /\ \A w \in Workers, c \in Both :
       pc[c] = JoinStep[w] => joining[c] = tid[w] /\ wpc[w][tid[w]] # "none"
  /\ \A w \in Workers : Runs(w) /\ cancelled[w][tid[w]] => Joining(w)
  /\ \A c \in Both : ExitDone(c)

\* What a caller's step says about whether something plays.
PlayAt(c) ==
  /\ c = "sw" =>
       /\ pc[c] \in EventSteps \cup {"pf_start"} /\ selected => is_playing
       /\ pc[c] \in {"sel_check", "sel_index"} \cup SelSteps => ~is_playing
       /\ pc[c] \in ExitSteps /\ stack[c] = <<"sel_index">> => ~is_playing
  /\ pc[c] = "stop_clear" => ~is_playing

\* What does not play has no workers, and without a service nothing plays.
PlayInv ==
  /\ ~is_playing => \A w \in Workers : ~flag[w] /\ ~Runs(w)
  /\ \A w \in Workers : Flagging(w) \/ Joining(w) => is_playing
  /\ current_service = NoService => ~is_playing
  /\ \A c \in Both : PlayAt(c)

ViewerInv == PlaceInv /\ StopLockInv /\ WorkInv /\ PlayInv

-----------------------------------------------------------------------------
(* Where the callers are *)

\* What is on a caller's stack after a call or a return, by name.
LEMMA StackWords ==
  /\ <<"stop_gst">> \o << >> = <<"stop_gst">>
  /\ <<"sel_check">> \o << >> = <<"sel_check">>
  /\ <<"sel_index">> \o << >> = <<"sel_index">>
  /\ <<"pf_start">> \o << >> = <<"pf_start">>
  /\ <<"stop_gst">> \o <<"sel_check">> = <<"stop_gst", "sel_check">>
  /\ Head(<<"stop_gst", "sel_check">>) = "stop_gst" /\ Tail(<<"stop_gst", "sel_check">>) = <<"sel_check">>
  /\ \A b \in Backs : Head(<<b>>) = b /\ Tail(<<b>>) = << >> /\ <<b>> # << >>
  /\ <<"stop_gst", "sel_check">> # << >>
<1>1. \A b \in Backs : <<b>> \in Seq(Backs) /\ <<b>> \o << >> = <<b>>
  BY ConcatEmptySeq
<1>2. <<"stop_gst">> \o <<"sel_check">> = <<"stop_gst", "sel_check">>
  <2> DEFINE both == <<"stop_gst">> \o <<"sel_check">>
             words == <<"stop_gst", "sel_check">>
  <2>1. <<"stop_gst">> \in Seq(Backs) /\ <<"sel_check">> \in Seq(Backs)
    BY DEF Backs
  <2>2. both \in Seq(Backs) /\ Len(both) = 2 /\ both[1] = "stop_gst" /\ both[2] = "sel_check"
    BY <2>1, ConcatProperties
  <2>3. words \in Seq(Backs) /\ Len(words) = 2 /\ words[1] = "stop_gst" /\ words[2] = "sel_check"
    BY DEF Backs
  <2> HIDE DEF both, words
  <2>4. \A i \in 1..Len(both) : both[i] = words[i]
    BY <2>2, <2>3
  <2>5. both = words
    BY <2>2, <2>3, <2>4, SeqEqual
  <2> QED
    BY <2>5 DEF both, words
<1>3. Head(<<"stop_gst", "sel_check">>) = "stop_gst" /\ <<"stop_gst", "sel_check">> # << >>
  OBVIOUS
<1>4. Tail(<<"stop_gst", "sel_check">>) = <<"sel_check">>
  BY <1>2, PushedStep, <1>1 DEF Backs
<1>5. \A b \in Backs : Head(<<b>>) = b /\ Tail(<<b>>) = << >> /\ <<b>> # << >>
  BY <1>1, PushedStep
<1> QED
  BY <1>1, <1>2, <1>3, <1>4, <1>5 DEF Backs

\* A caller goes to step, and returns to what back says from there.
Moves(c, step, back) == pc' = [pc EXCEPT ![c] = step] /\ stack' = [stack EXCEPT ![c] = back]

\* Where the GUI thread may go with the switch thread idle, and with it at work.
LEMMA MovesGui ==
  ASSUME TypeInv, PlaceInv, NEW step, NEW back, Moves("gui", step, back),
         \/ step \in {"idle", "list_read"} \cup EventSteps /\ back = << >>
         \/ /\ pc["sw"] = "idle"
            /\ \/ step \in {"epg_flag", "time_flag"} \cup StopSteps /\ back = << >>
               \/ step \in ExitSteps /\ back = <<"stop_gst">>
  PROVE  PlaceInv'
  BY DEF Moves, TypeInv, ControlType, PcType, StackType, Callers, PlaceInv, GuiPlace, SwPlace

\* The three ways to go on leave the stack alone, push a step and pop one.
LEMMA GotoMoves ==
  ASSUME TypeInv, NEW c \in Callers, NEW step, Goto(c, step)
  PROVE  Moves(c, step, stack[c])
  BY DEF Moves, Goto, TypeInv, ControlType, StackType

LEMMA CallMoves ==
  ASSUME NEW c \in Callers, NEW step, NEW b, Call(c, step, b)
  PROVE  Moves(c, step, <<b>> \o stack[c])
  BY DEF Moves, Call

LEMMA ReturnMoves ==
  ASSUME TypeInv, NEW c \in Callers, Return(c)
  PROVE  /\ stack[c] = << >> => Moves(c, "idle", << >>)
         /\ stack[c] # << >> => Moves(c, Head(stack[c]), Tail(stack[c]))
<1>1. CASE stack[c] = << >>
  BY <1>1, GotoMoves DEF Return
<1>2. CASE stack[c] # << >>
  BY <1>2 DEF Return, Moves
<1> QED
  BY <1>1, <1>2

\* Only the pc of the caller that moves changes.
LEMMA MovedPc ==
  ASSUME TypeInv, NEW c \in Callers, NEW step, NEW back, Moves(c, step, back)
  PROVE  pc'[c] = step /\ \A d \in Callers : d # c => pc'[d] = pc[d]
  BY DEF Moves, TypeInv, ControlType, PcType

\* Only the stack of the caller that moves changes.
LEMMA MovedStack ==
  ASSUME TypeInv, NEW c \in Callers, NEW step, NEW back, Moves(c, step, back)
  PROVE  stack'[c] = back /\ \A d \in Callers : d # c => stack'[d] = stack[d]
  BY DEF Moves, TypeInv, ControlType, StackType

\* Only this caller moves.
OnlyMoves(c) == \A d \in Callers \ {c} : pc'[d] = pc[d] /\ stack'[d] = stack[d]

\* The steps of the workers move no caller.
WorkerStep(g) == EpgMust(g) \/ PfMust(g) \/ TimeMust(g) \/ WorkerMay(g) \/ \E w \in Workers : Die(w, g)

\* Every step is a caller's, or a worker's, which moves no caller.
LEMMA GoesOn ==
  ASSUME TypeInv, NEW c \in Callers,
         \/ \E step : Goto(c, step)
         \/ \E step, b : Call(c, step, b)
         \/ Return(c)
  PROVE  OnlyMoves(c)
<1>1. \A d \in Callers \ {c} : \A step, back :
         Moves(c, step, back) => pc'[d] = pc[d] /\ stack'[d] = stack[d]
  BY MovedPc, MovedStack
<1>2. \E step, back : Moves(c, step, back)
  BY GotoMoves, CallMoves, ReturnMoves
<1> QED
  BY <1>1, <1>2 DEF OnlyMoves

ExitsOf(c) == Exit(c) \/ Stop(c) \/ Event(c)
GuiOnly ==
  \/ ForceStart \/ EventStart \/ ListLock \/ ScanStart \/ Ticking
  \/ EpgFlag \/ TimeFlag \/ ListRead \/ ForceOff \/ ForceGst

LEMMA WhoMoves ==
  ASSUME TypeInv
  PROVE  /\ \A c \in Callers : ExitsOf(c) => OnlyMoves(c)
         /\ Selecting \/ (\E s \in Services \cup {NoService} : StartSelect(s)) => OnlyMoves("sw")
         /\ GuiOnly => OnlyMoves("gui")
         /\ Scanning => OnlyMoves("scan")
<1> USE DEF Callers
<1>1. ASSUME NEW c \in Callers, ExitsOf(c) PROVE OnlyMoves(c)
  BY <1>1, GoesOn
  DEF ExitsOf, Exit, EpgExit, EpgJoin, PfExit, PfJoin, TimeExit, TimeJoin, Stop, StopTest, StopLock,
      StopGst, StopClear, Event, EventNone, EventUnlocks, EventLock, EventRead
<1>2. Selecting => OnlyMoves("sw")
  <2>1. PfStart => \E step : Goto("sw", step)
    BY CreateCases DEF PfStart, Workers
  <2> QED
    BY <2>1, GoesOn
    DEF Selecting, Select, SelStop, SelCheck, SelIndex, SelNoPids, SelTune, SelAdd, SelGst, SelList,
        SelGstFails, SelOn, PfFlag, SelectEnd
<1>3. \A s \in Services \cup {NoService} : StartSelect(s) => OnlyMoves("sw")
  BY DEF StartSelect, OnlyMoves, TypeInv, ControlType, PcType
<1>4. GuiOnly => OnlyMoves("gui")
  <2>1. TickEpg \/ TickTime => \E step : Goto("gui", step)
    BY CreateCases DEF TickEpg, TickTime, Workers
  <2> QED
    BY <2>1, GoesOn
    DEF GuiOnly, ForceStart, EventStart, ListLock, ScanStart, Ticking, TickStop, EpgFlag, TimeFlag,
        ListRead, ForceOff, ForceGst
<1>5. Scanning => OnlyMoves("scan")
  BY GoesOn DEF Scanning, Scan, ScanCheck, ScanOn, ScanTune
<1> QED
  BY <1>1, <1>2, <1>3, <1>4, <1>5

LEMMA NextCases ==
  ASSUME [Next]_vars
  PROVE  \/ \E c \in Callers : ExitsOf(c)
         \/ Selecting \/ (\E s \in Services \cup {NoService} : StartSelect(s))
         \/ GuiOnly \/ ScanSpawn \/ Scanning
         \/ \E g \in Threads : WorkerStep(g)
         \/ NullDereference \/ UNCHANGED vars
  BY DEF Next, Start, SwStep, GuiStep, ScanStep, Gui, GuiOnly, ExitsOf, WorkerStep, Callers

LEMMA WorkersMoveNone ==
  ASSUME NEW g \in Threads, WorkerStep(g)
  PROVE  UNCHANGED <<pc, stack, joining, cancelled, tid>>
  BY
  DEF WorkerStep, EpgMust, PfMust, TimeMust, WorkerMay, EpgParse, EpgLock, EpgSave, WorkerEnd,
      PfLoad, PfRelease, TimeSet, EpgLoad, EpgComplete, PfLock, PfComplete, TimeLoad,
      TimeComplete, Die, GotoW

\* Where the switch thread is does not depend on what else is called.
LEMMA SwGoes ==
  ASSUME TypeInv, SwPlace, \/ ExitsOf("sw") \/ Selecting
                           \/ \E s \in Services \cup {NoService} : StartSelect(s)
  PROVE  SwPlace'
<1> USE DEF Callers
<1>0. \A step, back : Moves("sw", step, back) => pc'["sw"] = step /\ stack'["sw"] = back
  BY MovedPc, MovedStack
<1>1. CASE Exit("sw")
  <2>1. pc["sw"] \in ExitSteps /\ stack["sw"] \in {<<"stop_gst", "sel_check">>, <<"sel_index">>}
    BY <1>1 DEF SwPlace, Exit, EpgExit, EpgJoin, PfExit, PfJoin, TimeExit, TimeJoin, At,
                ExitSteps, StopSteps, EventSteps, SelSteps
  <2>2. \/ \E step \in ExitSteps : Moves("sw", step, stack["sw"])
        \/ Moves("sw", "stop_gst", <<"sel_check">>)
        \/ Moves("sw", "sel_index", << >>)
    BY <1>1, <2>1, StackWords, GotoMoves, ReturnMoves
    DEF Exit, EpgExit, EpgJoin, PfExit, PfJoin, TimeExit, TimeJoin, ExitSteps, Backs
  <2> QED
    BY <1>0, <2>1, <2>2 DEF SwPlace, StopSteps
<1>2. CASE Stop("sw")
  <2>1. pc["sw"] \in StopSteps /\ stack["sw"] = <<"sel_check">>
    BY <1>2 DEF SwPlace, Stop, StopTest, StopLock, StopGst, StopClear, At,
                ExitSteps, StopSteps, EventSteps, SelSteps
  <2>2. \/ \E step \in StopSteps : Moves("sw", step, <<"sel_check">>)
        \/ Moves("sw", "sel_check", << >>)
        \/ Moves("sw", "epg_exit", <<"stop_gst", "sel_check">>)
    BY <1>2, <2>1, StackWords, GotoMoves, ReturnMoves, CallMoves
    DEF Stop, StopTest, StopLock, StopGst, StopClear, StopSteps, Backs
  <2> QED
    BY <1>0, <2>2 DEF SwPlace, ExitSteps
<1>3. CASE Event("sw")
  <2>1. pc["sw"] \in EventSteps /\ stack["sw"] = <<"pf_start">>
    BY <1>3 DEF SwPlace, Event, EventNone, EventUnlocks, EventLock, EventRead, At,
                ExitSteps, StopSteps, EventSteps, SelSteps
  <2>2. Moves("sw", "ev_read", <<"pf_start">>) \/ Moves("sw", "pf_start", << >>)
    BY <1>3, <2>1, StackWords, GotoMoves, ReturnMoves
    DEF Event, EventNone, EventUnlocks, EventLock, EventRead, Backs
  <2> QED
    BY <1>0, <2>2 DEF SwPlace, EventSteps
<1>4. CASE Selecting
  <2>1. stack["sw"] = << >>
    BY <1>4
    DEF SwPlace, Selecting, Select, SelStop, SelCheck, SelIndex, SelNoPids, SelTune, SelAdd, SelGst, SelList,
        SelGstFails, SelOn, PfStart, PfFlag, At, ExitSteps, StopSteps, EventSteps, SelSteps
  <2>2. \A step : Goto("sw", step) => Moves("sw", step, << >>)
    BY <2>1, GotoMoves
  <2>3. \A step, b : Call("sw", step, b) /\ b \in {"sel_check", "sel_index", "pf_start"} =>
                        Moves("sw", step, <<b>>)
    <3>1. \A b \in {"sel_check", "sel_index", "pf_start"} : <<b>> \o << >> = <<b>>
      BY StackWords
    <3> QED
      BY <2>1, <3>1, CallMoves
  <2>4. PfStart => Goto("sw", "pf_flag") \/ Goto("sw", "idle")
    BY CreateCases DEF PfStart, Workers
  <2>5. \/ \E step \in {"idle", "pf_flag", "sel_stop", "sel_check"} \cup SelSteps : Moves("sw", step, << >>)
        \/ Moves("sw", "stop", <<"sel_check">>) \/ Moves("sw", "epg_exit", <<"sel_index">>)
        \/ Moves("sw", "event", <<"pf_start">>)
    BY <1>4, <2>2, <2>3, <2>4
    DEF Selecting, Select, SelStop, SelCheck, SelIndex, SelNoPids, SelTune, SelAdd, SelGst, SelList,
        SelGstFails, SelOn, PfFlag, SelectEnd, SelSteps
  <2> QED
    BY <1>0, <2>5 DEF SwPlace, ExitSteps, StopSteps, EventSteps
<1>5. ASSUME NEW s \in Services \cup {NoService}, StartSelect(s) PROVE SwPlace'
  <2>1. pc'["sw"] = "select" /\ stack'["sw"] = << >>
    BY <1>5 DEF StartSelect, At, SwPlace, TypeInv, ControlType, PcType, ExitSteps, StopSteps, EventSteps
  <2> QED
    BY <2>1 DEF SwPlace
<1> QED
  BY <1>1, <1>2, <1>3, <1>4, <1>5 DEF ExitsOf

\* A viewer makes no call of the other two kinds.
LEMMA NoOtherCalls ==
  ASSUME ViewerCalls, PlaceInv
  PROVE  ~ForceStart /\ ~ForceOff /\ ~ForceGst /\ ~ScanStart /\ ~ScanSpawn /\ ~ScanStep
  BY
  DEF ViewerCalls, PlaceInv, GuiPlace, ForceStart, ForceOff, ForceGst, ScanStart, ScanSpawn, ScanStep,
         Exit, EpgExit, EpgJoin, PfExit, PfJoin, TimeExit, TimeJoin, Stop, StopTest, StopLock, StopGst,
         StopClear, Scanning, Scan, ScanCheck, ScanOn, ScanTune, At, ExitSteps, StopSteps, EventSteps

LEMMA PlaceStep ==
  ASSUME ViewerCalls, TypeInv, PlaceInv, [Next]_vars, ~NullDereference
  PROVE  PlaceInv'
<1> USE DEF Callers
<1>1. ASSUME Exit("gui") PROVE PlaceInv'
  <2>1. pc["gui"] \in ExitSteps /\ stack["gui"] = <<"stop_gst">> /\ pc["sw"] = "idle"
    BY <1>1 DEF PlaceInv, GuiPlace, Exit, EpgExit, EpgJoin, PfExit, PfJoin, TimeExit, TimeJoin, At,
                ExitSteps, StopSteps, EventSteps
  <2>2. \/ \E step \in ExitSteps : Moves("gui", step, <<"stop_gst">>)
        \/ Moves("gui", "stop_gst", << >>)
    BY <1>1, <2>1, StackWords, GotoMoves, ReturnMoves
    DEF Exit, EpgExit, EpgJoin, PfExit, PfJoin, TimeExit, TimeJoin, ExitSteps, Backs
  <2> QED
    BY <2>1, <2>2, MovesGui DEF StopSteps
<1>2. ASSUME Stop("gui") PROVE PlaceInv'
  <2>1. pc["gui"] \in StopSteps /\ stack["gui"] = << >> /\ pc["sw"] = "idle"
    BY <1>2 DEF PlaceInv, GuiPlace, Stop, StopTest, StopLock, StopGst, StopClear, At,
                ExitSteps, StopSteps, EventSteps
  <2>2. \/ \E step \in {"idle"} \cup StopSteps : Moves("gui", step, << >>)
        \/ Moves("gui", "epg_exit", <<"stop_gst">>)
    <3>1. "gui" \in Callers /\ <<"stop_gst">> \o << >> = <<"stop_gst">>
      BY StackWords
    <3>2. CASE StopTest("gui") \/ StopGst("gui") \/ StopClear("gui")
      BY <2>1, <3>1, <3>2, GotoMoves, ReturnMoves DEF StopTest, StopGst, StopClear, StopSteps
    <3>3. CASE StopLock("gui")
      BY <2>1, <3>1, <3>3, CallMoves, ReturnMoves DEF StopLock
    <3> QED
      BY <1>2, <3>2, <3>3 DEF Stop
  <2> QED
    BY <2>1, <2>2, MovesGui DEF ExitSteps
<1>3. ASSUME Event("gui") PROVE PlaceInv'
  <2>1. pc["gui"] \in EventSteps /\ stack["gui"] = << >>
    BY <1>3 DEF PlaceInv, GuiPlace, Event, EventNone, EventUnlocks, EventLock, EventRead, At,
                ExitSteps, StopSteps, EventSteps
  <2>2. \E step \in {"idle", "ev_read"} : Moves("gui", step, << >>)
    BY <1>3, <2>1, GotoMoves, ReturnMoves DEF Event, EventNone, EventUnlocks, EventLock, EventRead
  <2> QED
    BY <2>2, MovesGui DEF EventSteps
<1>4. ASSUME ExitsOf("sw") \/ Selecting \/ \E s \in Services \cup {NoService} : StartSelect(s)
      PROVE  PlaceInv'
  <2>1. OnlyMoves("sw") /\ SwPlace'
    BY <1>4, WhoMoves, SwGoes DEF PlaceInv
  <2>2. pc["sw"] # "idle" \/ pc["gui"] = "idle"
    BY <1>4
    DEF StartSelect, ExitsOf, Exit, EpgExit, EpgJoin, PfExit, PfJoin, TimeExit, TimeJoin, Stop, StopTest,
        StopLock, StopGst, StopClear, Event, EventNone, EventUnlocks, EventLock, EventRead, Selecting,
        Select, SelStop, SelCheck, SelIndex, SelNoPids, SelTune, SelAdd, SelGst, SelList, SelGstFails, SelOn,
        PfStart, PfFlag, At
  <2> QED
    BY <2>1, <2>2 DEF PlaceInv, GuiPlace, OnlyMoves
<1>5. ASSUME EventStart \/ ListLock \/ ListRead \/ EpgFlag \/ TimeFlag PROVE PlaceInv'
  <2>1. stack["gui"] = << >>
    BY <1>5 DEF EventStart, ListLock, ListRead, EpgFlag, TimeFlag, At, PlaceInv, GuiPlace, ExitSteps
  <2>2. \E step \in {"event", "list_read", "idle"} : Moves("gui", step, << >>)
    BY <1>5, <2>1, GotoMoves DEF EventStart, ListLock, ListRead, EpgFlag, TimeFlag
  <2> QED
    BY <2>2, MovesGui DEF EventSteps
<1>6. ASSUME Ticking PROVE PlaceInv'
  <2>1. pc["sw"] = "idle" /\ stack["gui"] = << >>
    BY <1>6 DEF Ticking, TickStop, TickEpg, TickTime, Tick, At, PlaceInv, GuiPlace, ExitSteps
  <2>2. \E step \in {"stop", "epg_flag", "time_flag"} : Goto("gui", step)
    BY <1>6, CreateCases DEF Ticking, TickStop, TickEpg, TickTime, Workers
  <2>3. \E step \in {"stop", "epg_flag", "time_flag"} : Moves("gui", step, << >>)
    BY <2>1, <2>2, GotoMoves
  <2> QED
    BY <2>1, <2>3, MovesGui DEF StopSteps
<1>7. ~ForceStart /\ ~ForceOff /\ ~ForceGst /\ ~ScanStart /\ ~ScanSpawn /\ ~ScanStep
  BY NoOtherCalls
<1>8. ASSUME NEW g \in Threads,
              EpgMust(g) \/ PfMust(g) \/ TimeMust(g) \/ WorkerMay(g) \/ \E w \in Workers : Die(w, g)
       PROVE  PlaceInv'
  <2>1. UNCHANGED <<pc, stack>>
    BY <1>8
    DEF EpgMust, PfMust, TimeMust, WorkerMay, EpgParse, EpgLock, EpgSave, WorkerEnd, PfLoad, PfRelease,
        TimeSet, EpgLoad, EpgComplete, PfLock, PfComplete, TimeLoad, TimeComplete, Die, GotoW
  <2> QED
    BY <2>1 DEF PlaceInv, GuiPlace, SwPlace
<1>9. CASE UNCHANGED vars
  BY <1>9 DEF vars, PlaceInv, GuiPlace, SwPlace
<1> QED
  BY <1>1, <1>2, <1>3, <1>4, <1>5, <1>6, <1>7, <1>8, <1>9
  DEF Next, Start, SwStep, GuiStep, Gui, ExitsOf

-----------------------------------------------------------------------------
(* The workers *)

FlagSteps == {"epg_flag", "pf_flag", "time_flag"}
JoinSteps == {"epg_join", "pf_join", "time_join"}

\* No two workers share a step.
LEMMA StepNames ==
  /\ \A w \in Workers : FlagOf[w] \in FlagSteps /\ JoinStep[w] \in JoinSteps /\ Maker[w] \in Both
  /\ \A v, w \in Workers : (FlagOf[v] = FlagOf[w] \/ JoinStep[v] = JoinStep[w]) => v = w
  /\ Both \subseteq Callers
  BY DEF FlagOf, JoinStep, Maker, FlagSteps, JoinSteps, Workers, Both, Callers

\* A caller that goes on without a look at the workers.
LEMMA MoveKeepsWork ==
  ASSUME TypeInv, WorkInv, NEW c \in Both, NEW step, NEW back, Moves(c, step, back),
         pc[c] \notin FlagSteps \cup JoinSteps, step \notin FlagSteps \cup JoinSteps,
         UNCHANGED <<flag, threadVars>>, ExitDone(c)'
  PROVE  WorkInv'
<1>1. \A d \in Both : pc'[d] = IF d = c THEN step ELSE pc[d]
  BY MovedPc, StepNames
<1>2. /\ \A w \in Workers : Flagging(w)' = Flagging(w) /\ Joining(w)' = Joining(w)
      /\ \A w \in Workers, d \in Both : pc'[d] = JoinStep[w] => pc[d] = JoinStep[w]
  BY <1>1, StepNames DEF Flagging, Joining
<1>3. \A w \in Workers : Runs(w)' = Runs(w)
  BY DEF Runs, threadVars, runVars
<1>4. \A d \in Both : ExitDone(d)'
  BY <1>1 DEF WorkInv, ExitDone
<1> QED
  BY <1>1, <1>2, <1>3, <1>4 DEF WorkInv, threadVars, runVars

\* A caller cancels the thread of a worker whose flag is up, and goes to join it.
LEMMA CancelKeepsWork ==
  ASSUME TypeInv, WorkInv, NEW c \in Both, NEW w \in Workers, NEW back,
         Moves(c, JoinStep[w], back), pc[c] \notin FlagSteps \cup JoinSteps,
         Cancel(c, w), flag[w],
         flag' = flag \/ (w = "pf" /\ SetFlag("pf", FALSE)), ExitDone(c)'
  PROVE  WorkInv'
<1>1. \A d \in Both : pc'[d] = IF d = c THEN JoinStep[w] ELSE pc[d]
  BY MovedPc, StepNames
<1>2. /\ \A v \in Workers : Flagging(v)' = Flagging(v) /\ (Joining(v) => Joining(v)')
      /\ Joining(w)'
      /\ \A v \in Workers, d \in Both :
           pc'[d] = JoinStep[v] => (d = c /\ v = w) \/ (d # c /\ pc[d] = JoinStep[v])
  BY <1>1, StepNames DEF Flagging, Joining, FlagSteps, JoinSteps
<1>3. /\ tid' = tid /\ wpc' = wpc /\ joining' = [joining EXCEPT ![c] = tid[w]]
      /\ \A v \in Workers : Runs(v)' = Runs(v)
      /\ \A v \in Workers : v # w => cancelled'[v] = cancelled[v]
  BY DEF Cancel, Runs, TypeInv, RunType
<1>4. \A v \in Workers : flag'[v] = flag[v] \/ (v = w /\ w = "pf" /\ ~flag'[v])
  BY DEF SetFlag, TypeInv, FlagType
<1>5. \A d \in Both : ExitDone(d)'
  BY <1>1, <1>4 DEF WorkInv, ExitDone, Workers
<1>6. \A v \in Workers, d \in Both :
         pc'[d] = JoinStep[v] => joining'[d] = tid'[v] /\ wpc'[v][tid'[v]] # "none"
  BY <1>2, <1>3, StepNames DEF WorkInv, TypeInv, RunType
<1>7. \A v \in Workers : Runs(v)' => flag'[v] \/ Flagging(v)' \/ (v = "pf" /\ Joining("pf")')
  BY <1>2, <1>3, <1>4 DEF WorkInv
<1>8. \A v \in Workers : flag'[v] \/ Flagging(v)' => wpc'[v][tid'[v]] # "none"
  BY <1>2, <1>3, <1>4 DEF WorkInv
<1>9. \A v \in Workers : Runs(v)' /\ cancelled'[v][tid'[v]] => Joining(v)'
  BY <1>2, <1>3 DEF WorkInv
<1> QED
  BY <1>3, <1>5, <1>6, <1>7, <1>8, <1>9 DEF WorkInv

\* A caller joins the thread it cancelled, and lowers the flag of the worker.
LEMMA JoinKeepsWork ==
  ASSUME TypeInv, WorkInv, NEW c \in Both, NEW w \in Workers, NEW step, NEW back,
         pc[c] = JoinStep[w], Moves(c, step, back), step \notin FlagSteps \cup JoinSteps,
         Join(c, w), SetFlag(w, FALSE),
         \A d \in Both : d # c => pc[d] \notin FlagSteps \cup JoinSteps, ExitDone(c)'
  PROVE  WorkInv'
<1>1. \A d \in Both : pc'[d] = IF d = c THEN step ELSE pc[d]
  BY MovedPc, StepNames
<1>2. \A v \in Workers : ~Flagging(v) /\ ~Flagging(v)' /\ ~Joining(v)' /\ (Joining(v) => v = w)
  BY <1>1, StepNames DEF Flagging, Joining, FlagSteps, JoinSteps
<1>3. joining[c] = tid[w] /\ tid' = tid /\ cancelled' = cancelled
  BY DEF WorkInv, Join
<1>4. /\ \A v \in Workers, g \in Threads : wpc'[v][g] = IF v = w /\ g = tid[w] THEN "none" ELSE wpc[v][g]
      /\ tid \in [Workers -> Threads]
  BY <1>3 DEF Join, TypeInv, RunType
<1>5. \A v \in Workers : flag'[v] = IF v = w THEN FALSE ELSE flag[v]
  BY DEF SetFlag, TypeInv, FlagType
<1>6. \A v \in Workers : IF v = w THEN ~Runs(v)' ELSE Runs(v)' = Runs(v)
  BY <1>3, <1>4 DEF Runs, Ended
<1>7. \A d \in Both : ExitDone(d)'
  BY <1>1, <1>5 DEF WorkInv, ExitDone, Workers
<1>8. \A v \in Workers, g \in Threads : g # tid'[v] => wpc'[v][g] \in Ended
  BY <1>3, <1>4 DEF WorkInv
<1>9. \A v \in Workers : Runs(v)' => flag'[v] \/ Flagging(v)' \/ (v = "pf" /\ Joining("pf")')
  BY <1>2, <1>5, <1>6 DEF WorkInv
<1>10. \A v \in Workers : flag'[v] \/ Flagging(v)' => wpc'[v][tid'[v]] # "none"
  <2> SUFFICES ASSUME NEW v \in Workers, flag'[v]
               PROVE  wpc'[v][tid'[v]] # "none"
    BY <1>2
  <2>1. v # w /\ flag[v]
    BY <1>5
  <2>2. wpc[v][tid[v]] # "none"
    BY <2>1 DEF WorkInv
  <2> QED
    BY <1>3, <1>4, <2>1, <2>2
<1>11. \A v \in Workers : Runs(v)' /\ cancelled'[v][tid'[v]] => Joining(v)'
  BY <1>2, <1>3, <1>6 DEF WorkInv
<1>12. \A v \in Workers, d \in Both : pc'[d] # JoinStep[v]
  BY <1>2 DEF Joining
<1> QED
  BY <1>7, <1>8, <1>9, <1>10, <1>11, <1>12 DEF WorkInv

\* A worker is created when its flag is down and nobody joins the one before: there is a
\* thread for it, and none of its kind runs.
LEMMA CreateKeepsWork ==
  ASSUME TypeInv, WorkInv, pc["scan"] = "idle", NEW w \in Workers, NEW back,
         NEW first \in WorkerSteps \ Ended,
         Create(Maker[w], w, first, FlagOf[w]), Moves(Maker[w], FlagOf[w], back),
         UNCHANGED flag, ~flag[w],
         \A d \in Both : pc[d] \notin FlagSteps \cup JoinSteps
  PROVE  WorkInv' /\ ~Runs(w) /\ \E g \in Threads : Created(w, g, first)
<1>0. Maker[w] \in Both /\ Maker[w] \in Callers
  BY StepNames
<1>1. \A d \in Both : pc'[d] = IF d = Maker[w] THEN FlagOf[w] ELSE pc[d]
  BY <1>0, MovedPc, StepNames
<1>2. \A v \in Workers : /\ ~Flagging(v) /\ ~Joining(v) /\ ~Joining(v)'
                         /\ (Flagging(v)' => v = w)
  BY <1>1, StepNames DEF Flagging, Joining, FlagSteps, JoinSteps
<1>3. ~Runs(w)
  BY <1>2 DEF WorkInv
<1>4. PICK g \in Threads : wpc[w][g] \in Ended /\ Created(w, g, first)
  <2>1. \A d \in Callers : ~At(d, JoinStep[w])
    BY <1>2, StepNames DEF Joining, At, Callers, Both, JoinSteps
  <2>2. tid[w] \in Threads /\ wpc[w][tid[w]] \in Ended
    BY <1>3 DEF Runs, TypeInv, RunType
  <2> QED
    BY <1>0, <2>1, <2>2, CreateCases
<1>5. joining' = joining
  BY <1>0, CreateCases
<1>6. /\ \A v \in Workers : tid'[v] = IF v = w THEN g ELSE tid[v]
      /\ \A v \in Workers, h \in Threads : wpc'[v][h] = IF v = w /\ h = g THEN first ELSE wpc[v][h]
      /\ tid \in [Workers -> Threads]
  BY <1>4 DEF Created, TypeInv, RunType
<1>7. /\ \A v \in Workers : v # w => cancelled'[v] = cancelled[v]
      /\ ~cancelled'[w][g]
  BY <1>4 DEF Created, TypeInv, RunType
<1>8. /\ Runs(w)' /\ wpc'[w][tid'[w]] # "none" /\ Flagging(w)'
      /\ \A v \in Workers : v # w => Runs(v)' = Runs(v)
  BY <1>0, <1>1, <1>6 DEF Runs, Flagging, Ended
<1>9. \A d \in Both : ExitDone(d)'
  BY <1>1, StepNames DEF WorkInv, ExitDone, FlagSteps
<1>10. \A v \in Workers, h \in Threads : h # tid'[v] => wpc'[v][h] \in Ended
  BY <1>3, <1>6 DEF WorkInv, Runs
<1>11. \A v \in Workers : Runs(v)' => flag'[v] \/ Flagging(v)' \/ (v = "pf" /\ Joining("pf")')
  BY <1>2, <1>8 DEF WorkInv
<1>12. \A v \in Workers : flag'[v] \/ Flagging(v)' => wpc'[v][tid'[v]] # "none"
  BY <1>2, <1>6, <1>8 DEF WorkInv
<1>13. \A v \in Workers : Runs(v)' /\ cancelled'[v][tid'[v]] => Joining(v)'
  BY <1>2, <1>6, <1>7, <1>8 DEF WorkInv
<1>14. \A v \in Workers, d \in Both : pc'[d] # JoinStep[v]
  BY <1>2 DEF Joining
<1> QED
  BY <1>3, <1>4, <1>9, <1>10, <1>11, <1>12, <1>13, <1>14 DEF WorkInv

\* The creator raises the flag, over a thread that may have ended in the meantime.
LEMMA FlagKeepsWork ==
  ASSUME TypeInv, WorkInv, NEW w \in Workers, NEW back, Flagging(w),
         Moves(Maker[w], "idle", back), SetFlag(w, TRUE), UNCHANGED threadVars,
         \A d \in Both : d # Maker[w] => pc[d] \notin FlagSteps \cup JoinSteps \cup ExitSteps \cup StopSteps
  PROVE  WorkInv'
<1>1. \A d \in Both : pc'[d] = IF d = Maker[w] THEN "idle" ELSE pc[d]
  BY MovedPc, StepNames
<1>2. \A v \in Workers : ~Joining(v) /\ ~Joining(v)' /\ ~Flagging(v)' /\ (Flagging(v) => v = w)
  BY <1>1, StepNames DEF Flagging, Joining, FlagSteps, JoinSteps
<1>3. \A v \in Workers : flag'[v] = IF v = w THEN TRUE ELSE flag[v]
  BY DEF SetFlag, TypeInv, FlagType
<1>4. /\ \A v \in Workers : Runs(v)' = Runs(v)
      /\ tid' = tid /\ wpc' = wpc /\ cancelled' = cancelled /\ joining' = joining
  BY DEF Runs, threadVars, runVars
<1>5. \A d \in Both : ExitDone(d)'
  BY <1>1 DEF ExitDone, StopSteps, ExitSteps
<1>6. \A v \in Workers : Runs(v)' => flag'[v] \/ Flagging(v)' \/ (v = "pf" /\ Joining("pf")')
  BY <1>2, <1>3, <1>4 DEF WorkInv
<1>7. \A v \in Workers : flag'[v] \/ Flagging(v)' => wpc'[v][tid'[v]] # "none"
  BY <1>2, <1>3, <1>4 DEF WorkInv
<1>8. \A v \in Workers : Runs(v)' /\ cancelled'[v][tid'[v]] => Joining(v)'
  BY <1>2, <1>4 DEF WorkInv
<1>9. \A v \in Workers, d \in Both : pc'[d] # JoinStep[v]
  BY <1>2 DEF Joining
<1> QED
  BY <1>4, <1>5, <1>6, <1>7, <1>8, <1>9 DEF WorkInv

\* A worker's thread goes on, or ends by itself and lowers its flag.
LEMMA WorkerKeepsWork ==
  ASSUME TypeInv, WorkInv, NEW w \in Workers, NEW g \in Threads, NEW step \in WorkerSteps \ {"none"},
         wpc[w][g] \notin Ended, GotoW(w, g, step),
         \/ flag' = flag /\ (step # "done" \/ cancelled[w][g])
         \/ SetFlag(w, FALSE) /\ step = "done"
  PROVE  WorkInv' /\ g = tid[w]
<1>1. g = tid[w]
  BY DEF WorkInv
<1>2. /\ tid' = tid /\ pc' = pc /\ joining' = joining /\ cancelled' = cancelled
      /\ \A v \in Workers, h \in Threads : wpc'[v][h] = IF v = w /\ h = g THEN step ELSE wpc[v][h]
      /\ tid \in [Workers -> Threads]
  BY DEF GotoW, TypeInv, RunType
<1>3. \A v \in Workers : /\ Flagging(v)' = Flagging(v) /\ Joining(v)' = Joining(v)
                         /\ Runs(v)' => Runs(v)
  BY <1>1, <1>2 DEF Flagging, Joining, Runs
<1>4. \A v \in Workers : flag'[v] = flag[v] \/ (v = w /\ ~flag'[v] /\ ~Runs(v)')
  BY <1>1, <1>2 DEF SetFlag, TypeInv, FlagType, Runs, Ended
<1>5. \A d \in Both : ExitDone(d)'
  BY <1>2, <1>4 DEF WorkInv, ExitDone, Workers
<1>6. \A v \in Workers, h \in Threads : h # tid'[v] => wpc'[v][h] \in Ended
  BY <1>1, <1>2 DEF WorkInv
<1>7. \A v \in Workers : Runs(v)' => flag'[v] \/ Flagging(v)' \/ (v = "pf" /\ Joining("pf")')
  BY <1>3, <1>4 DEF WorkInv, Workers
<1>8. \A v \in Workers : wpc[v][tid[v]] # "none" => wpc'[v][tid'[v]] # "none"
  BY <1>1, <1>2
<1>9. \A v \in Workers : flag'[v] \/ Flagging(v)' => wpc'[v][tid'[v]] # "none"
  BY <1>3, <1>4, <1>8 DEF WorkInv
<1>10. \A v \in Workers : Runs(v)' /\ cancelled'[v][tid'[v]] => Joining(v)'
  BY <1>2, <1>3 DEF WorkInv
<1>11. \A v \in Workers, d \in Both :
         pc'[d] = JoinStep[v] => joining'[d] = tid'[v] /\ wpc'[v][tid'[v]] # "none"
  BY <1>2, <1>8 DEF WorkInv
<1> QED
  BY <1>1, <1>5, <1>6, <1>7, <1>9, <1>10, <1>11 DEF WorkInv

\* Of the two callers only one at a time is in a stop or an exit, or raises a flag.
LEMMA Alone ==
  ASSUME PlaceInv, NEW c \in Both,
         pc[c] \in FlagSteps \cup ExitSteps \cup StopSteps \/ (c = "sw" /\ pc[c] # "idle")
  PROVE  \A d \in Both : d # c => pc[d] \notin FlagSteps \cup JoinSteps \cup ExitSteps \cup StopSteps
  BY DEF PlaceInv, Both, EventSteps, FlagSteps, JoinSteps, ExitSteps, StopSteps

\* The caller of an exit returns to the end of its stop, or to the selection.
LEMMA ExitReturns ==
  ASSUME TypeInv, PlaceInv, NEW c \in Both, pc[c] \in ExitSteps, Return(c)
  PROVE  \E back :
           \/ Moves(c, "stop_gst", back)
           \/ c = "sw" /\ stack[c] = <<"sel_index">> /\ Moves(c, "sel_index", back)
<1>1. \/ stack[c] = <<"stop_gst">> \/ stack[c] = <<"stop_gst", "sel_check">>
      \/ c = "sw" /\ stack[c] = <<"sel_index">>
  BY DEF PlaceInv, GuiPlace, SwPlace, Both, ExitSteps, StopSteps, EventSteps, SelSteps
<1>2. stack[c] # << >> => Moves(c, Head(stack[c]), Tail(stack[c]))
  BY ReturnMoves, StepNames
<1> QED
  BY <1>1, <1>2, StackWords DEF Backs

\* The exits of the workers, each after the one before it is done.
LEMMA ExitKeepsWork ==
  ASSUME TypeInv, PlaceInv, WorkInv, NEW c \in Both, Exit(c)
  PROVE  WorkInv'
<1>0. c \in Callers /\ pc[c] \in ExitSteps
  BY StepNames DEF Exit, EpgExit, EpgJoin, PfExit, PfJoin, TimeExit, TimeJoin, At, ExitSteps
<1>1. \A d \in Both : d # c => pc[d] \notin FlagSteps \cup JoinSteps
  BY <1>0, Alone
<1>2. \A w \in Workers : flag'[w] = flag[w] \/ ~flag'[w]
  BY DEF Exit, EpgExit, EpgJoin, PfExit, PfJoin, TimeExit, TimeJoin, SetFlag, TypeInv, FlagType
<1> USE DEF At, FlagSteps, JoinSteps, JoinStep, Workers
<1>3. CASE EpgExit(c)
  <2>1. CASE flag["epg"]
    <3>1. Moves(c, "epg_join", stack[c]) /\ ExitDone(c)'
      BY <1>0, <1>3, <2>1, GotoMoves, MovedPc DEF EpgExit, ExitDone
    <3> QED
      BY <1>3, <2>1, <3>1, CancelKeepsWork DEF EpgExit
  <2>2. CASE ~flag["epg"]
    <3>1. Moves(c, "pf_exit", stack[c]) /\ ExitDone(c)'
      BY <1>0, <1>3, <2>2, GotoMoves, MovedPc DEF EpgExit, ExitDone
    <3> QED
      BY <1>3, <2>2, <3>1, MoveKeepsWork DEF EpgExit
  <2> QED
    BY <2>1, <2>2
<1>4. CASE EpgJoin(c)
  <2>1. flag'["epg"] = FALSE
    BY <1>4 DEF EpgJoin, SetFlag, TypeInv, FlagType
  <2>2. Moves(c, "pf_exit", stack[c]) /\ ExitDone(c)'
    BY <1>0, <1>4, <2>1, GotoMoves, MovedPc DEF EpgJoin, ExitDone
  <2> QED
    BY <1>1, <1>4, <2>2, JoinKeepsWork DEF EpgJoin
<1>5. CASE PfExit(c)
  <2>0. ~flag["epg"]
    BY <1>5 DEF PfExit, WorkInv, ExitDone
  <2>1. CASE flag["pf"]
    <3>1. flag'["pf"] = FALSE /\ flag'["epg"] = FALSE
      BY <1>5, <2>0, <2>1 DEF PfExit, SetFlag, TypeInv, FlagType
    <3>2. Moves(c, "pf_join", stack[c]) /\ ExitDone(c)'
      BY <1>0, <1>5, <2>1, <3>1, GotoMoves, MovedPc DEF PfExit, ExitDone
    <3> QED
      BY <1>5, <2>1, <3>2, CancelKeepsWork DEF PfExit
  <2>2. CASE ~flag["pf"]
    <3>1. Moves(c, "time_exit", stack[c]) /\ ExitDone(c)'
      BY <1>0, <1>5, <2>0, <2>2, GotoMoves, MovedPc DEF PfExit, ExitDone
    <3> QED
      BY <1>5, <2>2, <3>1, MoveKeepsWork DEF PfExit
  <2> QED
    BY <2>1, <2>2
<1>6. CASE PfJoin(c)
  <2>0. ~flag["epg"]
    BY <1>6 DEF PfJoin, WorkInv, ExitDone
  <2>1. flag'["pf"] = FALSE /\ flag'["epg"] = FALSE
    BY <1>6, <2>0 DEF PfJoin, SetFlag, TypeInv, FlagType
  <2>2. Moves(c, "time_exit", stack[c]) /\ ExitDone(c)'
    BY <1>0, <1>6, <2>1, GotoMoves, MovedPc DEF PfJoin, ExitDone
  <2> QED
    BY <1>1, <1>6, <2>2, JoinKeepsWork DEF PfJoin
<1>7. CASE TimeExit(c)
  <2>0. ~flag["epg"] /\ ~flag["pf"]
    BY <1>7 DEF TimeExit, WorkInv, ExitDone
  <2>1. CASE flag["time"]
    <3>1. Moves(c, "time_join", stack[c]) /\ ExitDone(c)'
      BY <1>0, <1>7, <2>0, <2>1, GotoMoves, MovedPc DEF TimeExit, ExitDone
    <3> QED
      BY <1>7, <2>1, <3>1, CancelKeepsWork DEF TimeExit
  <2>2. CASE ~flag["time"]
    <3>1. PICK back : Moves(c, "stop_gst", back) \/ Moves(c, "sel_index", back)
      BY <1>0, <1>7, <2>2, ExitReturns DEF TimeExit
    <3>2. ExitDone(c)'
      BY <1>0, <1>7, <2>0, <2>2, <3>1, MovedPc DEF TimeExit, ExitDone
    <3> QED
      BY <1>7, <2>2, <3>1, <3>2, MoveKeepsWork DEF TimeExit
  <2> QED
    BY <2>1, <2>2
<1>8. CASE TimeJoin(c)
  <2>0. ~flag["epg"] /\ ~flag["pf"]
    BY <1>8 DEF TimeJoin, WorkInv, ExitDone
  <2>1. flag'["time"] = FALSE /\ flag'["pf"] = FALSE /\ flag'["epg"] = FALSE
    BY <1>8, <2>0 DEF TimeJoin, SetFlag, TypeInv, FlagType
  <2>2. PICK back : Moves(c, "stop_gst", back) \/ Moves(c, "sel_index", back)
    BY <1>0, <1>8, ExitReturns DEF TimeJoin
  <2>3. ExitDone(c)'
    BY <1>0, <2>1, <2>2, MovedPc DEF ExitDone
  <2> QED
    BY <1>1, <1>8, <2>2, <2>3, JoinKeepsWork DEF TimeJoin
<1> QED
  BY <1>3, <1>4, <1>5, <1>6, <1>7, <1>8 DEF Exit

\* The steps at which nothing is known of the workers that was not known before.
PlainSteps == CallerSteps \ (FlagSteps \cup JoinSteps \cup {"pf_exit", "time_exit", "stop_gst"})

\* A step that neither ends nor makes a worker.
LEMMA PlainKeepsWork ==
  ASSUME TypeInv, WorkInv, NEW c \in Both, NEW step \in PlainSteps, NEW back, Moves(c, step, back),
         pc[c] \notin FlagSteps \cup JoinSteps, UNCHANGED <<flag, threadVars>>
  PROVE  WorkInv'
<1>1. ExitDone(c)'
  BY MovedPc, StepNames DEF ExitDone, PlainSteps, JoinSteps
<1> QED
  BY <1>1, MoveKeepsWork DEF PlainSteps

\* A stop and a read of the events return to a selection, or to none.
LEMMA OthersReturn ==
  ASSUME TypeInv, PlaceInv, NEW c \in Both, pc[c] \in StopSteps \cup EventSteps, Return(c)
  PROVE  \E step \in {"idle", "sel_check", "pf_start"} : \E back : Moves(c, step, back)
<1>1. stack[c] = << >> \/ stack[c] = <<"sel_check">> \/ stack[c] = <<"pf_start">>
  BY DEF PlaceInv, GuiPlace, SwPlace, Both, ExitSteps, StopSteps, EventSteps, SelSteps
<1>2. /\ stack[c] = << >> => Moves(c, "idle", << >>)
      /\ stack[c] # << >> => Moves(c, Head(stack[c]), Tail(stack[c]))
  BY ReturnMoves, StepNames
<1> QED
  BY <1>1, <1>2, StackWords DEF Backs

\* Every step of a viewer keeps track of the workers.
LEMMA WorkStep ==
  ASSUME ViewerCalls, TypeInv, PlaceInv, WorkInv, [Next]_vars, ~NullDereference
  PROVE  WorkInv'
<1>a. Both \subseteq Callers
  BY StepNames
<1> USE DEF PlainSteps, CallerSteps, FlagSteps, JoinSteps
<1>1. ASSUME NEW c \in Both, Exit(c) PROVE WorkInv'
  BY <1>1, ExitKeepsWork
<1>2. ASSUME NEW c \in Both, Stop(c) PROVE WorkInv'
  <2>1. pc[c] \in StopSteps /\ UNCHANGED <<flag, threadVars>>
    BY <1>2 DEF Stop, StopTest, StopLock, StopGst, StopClear, At, StopSteps
  <2>2. \E step \in {"idle", "sel_check", "pf_start", "stop_lock", "epg_exit", "stop_clear"} : \E back :
           Moves(c, step, back)
    BY <1>2, <1>a, <2>1, OthersReturn, GotoMoves, CallMoves
    DEF Stop, StopTest, StopLock, StopGst, StopClear
  <2> QED
    BY <2>1, <2>2, PlainKeepsWork DEF StopSteps
<1>3. ASSUME NEW c \in Both, Event(c) PROVE WorkInv'
  <2>1. pc[c] \in EventSteps /\ UNCHANGED <<flag, threadVars>>
    BY <1>3 DEF Event, EventNone, EventUnlocks, EventLock, EventRead, At, EventSteps
  <2>2. \E step \in {"idle", "sel_check", "pf_start", "ev_read"} : \E back : Moves(c, step, back)
    BY <1>3, <1>a, <2>1, OthersReturn, GotoMoves
    DEF Event, EventNone, EventUnlocks, EventLock, EventRead
  <2> QED
    BY <2>1, <2>2, PlainKeepsWork DEF EventSteps
<1>4. ASSUME Selecting, ~PfStart, ~PfFlag PROVE WorkInv'
  <2>1. /\ pc["sw"] \in {"select", "sel_stop", "sel_check", "sel_index"} \cup SelSteps
        /\ UNCHANGED <<flag, threadVars>>
    BY <1>4 DEF Selecting, Select, SelStop, SelCheck, SelIndex, SelNoPids, SelTune, SelAdd, SelGst, SelList,
                SelGstFails, SelOn, At, SelSteps
  <2>2. \E step \in {"sel_stop", "stop", "sel_check", "epg_exit", "sel_tune", "sel_add", "sel_gst",
                     "sel_list", "sel_on", "event"} : \E back : Moves("sw", step, back)
    BY <1>4, GotoMoves, CallMoves
    DEF Selecting, Select, SelStop, SelCheck, SelIndex, SelNoPids, SelTune, SelAdd, SelGst, SelList,
        SelGstFails, SelOn, SelectEnd, Callers
  <2> QED
    BY <2>1, <2>2, PlainKeepsWork DEF Both, SelSteps
<1>5. CASE PfStart
  <2>1. CASE selected /\ current_service # NoService /\ ~flag["pf"]
    <3>1. Create(Maker["pf"], "pf", "sleep", FlagOf["pf"])
      BY <1>5, <2>1 DEF PfStart, Maker, FlagOf
    <3>2. Moves(Maker["pf"], FlagOf["pf"], stack["sw"])
      BY <3>1, CreateCases, GotoMoves DEF Maker, Callers, Workers
    <3>3. \A d \in Both : pc[d] \notin FlagSteps \cup JoinSteps
      BY <1>5, Alone DEF PfStart, At, Both
    <3> QED
      BY <1>5, <2>1, <3>1, <3>2, <3>3, CreateKeepsWork
      DEF PfStart, PlaceInv, Workers, WorkerSteps, Ended
  <2>2. CASE ~(selected /\ current_service # NoService /\ ~flag["pf"])
    <3>1. Moves("sw", "idle", stack["sw"]) /\ UNCHANGED <<flag, threadVars>> /\ pc["sw"] = "pf_start"
      BY <1>5, <2>2, GotoMoves DEF PfStart, Callers, At
    <3> QED
      BY <3>1, PlainKeepsWork DEF Both
  <2> QED
    BY <2>1, <2>2
<1>6. ASSUME NEW w \in Workers, Flagging(w), Goto(Maker[w], "idle"), SetFlag(w, TRUE), UNCHANGED threadVars
      PROVE  WorkInv'
  <2>1. Moves(Maker[w], "idle", stack[Maker[w]]) /\ Maker[w] \in Both
    BY <1>6, <1>a, StepNames, GotoMoves
  <2>2. pc[Maker[w]] \in FlagSteps
    BY <1>6, StepNames DEF Flagging
  <2> QED
    BY <1>6, <2>1, <2>2, Alone, FlagKeepsWork
<1>7. PfFlag \/ EpgFlag \/ TimeFlag => WorkInv'
  <2>1. ASSUME PfFlag PROVE WorkInv'
    BY <1>6, <2>1 DEF PfFlag, Workers, Flagging, At, Maker, FlagOf
  <2>2. ASSUME EpgFlag PROVE WorkInv'
    BY <1>6, <2>2 DEF EpgFlag, Workers, Flagging, At, Maker, FlagOf
  <2>3. ASSUME TimeFlag PROVE WorkInv'
    BY <1>6, <2>3 DEF TimeFlag, Workers, Flagging, At, Maker, FlagOf
  <2> QED
    BY <2>1, <2>2, <2>3
<1>8. ASSUME TickEpg \/ TickTime PROVE WorkInv'
  <2>0. \A d \in Both : pc[d] \notin FlagSteps \cup JoinSteps
    BY <1>8 DEF TickEpg, TickTime, Tick, At, Both
  <2>1. \/ Create(Maker["epg"], "epg", "start", FlagOf["epg"]) /\ ~flag["epg"]
        \/ Create(Maker["time"], "time", "start", FlagOf["time"]) /\ ~flag["time"]
    BY <1>8 DEF TickEpg, TickTime, Maker, FlagOf
  <2>2. PICK w \in Workers : Create(Maker[w], w, "start", FlagOf[w]) /\ ~flag[w]
    BY <2>1 DEF Workers
  <2>3. Moves(Maker[w], FlagOf[w], stack[Maker[w]])
    BY <2>2, <1>a, StepNames, CreateCases, GotoMoves
  <2>4. UNCHANGED flag
    BY <1>8 DEF TickEpg, TickTime
  <2> QED
    BY <2>0, <2>2, <2>3, <2>4, CreateKeepsWork DEF PlaceInv, WorkerSteps, Ended
<1>9. ASSUME TickStop \/ EventStart \/ ListLock \/ ListRead PROVE WorkInv'
  <2>1. pc["gui"] \in {"idle", "list_read"} /\ UNCHANGED <<flag, threadVars>>
    BY <1>9 DEF TickStop, Tick, EventStart, ListLock, ListRead, At
  <2>2. \E step \in {"stop", "event", "list_read", "idle"} : \E back : Moves("gui", step, back)
    BY <1>9, GotoMoves DEF TickStop, EventStart, ListLock, ListRead, Callers
  <2> QED
    BY <2>1, <2>2, PlainKeepsWork DEF Both
<1>10. ASSUME NEW s \in Services \cup {NoService}, StartSelect(s) PROVE WorkInv'
  <2>1. Moves("sw", "select", stack["sw"]) /\ pc["sw"] = "idle" /\ UNCHANGED <<flag, threadVars>>
    BY <1>10 DEF StartSelect, Moves, TypeInv, ControlType, StackType, At
  <2> QED
    BY <2>1, PlainKeepsWork DEF Both
<1>11. ASSUME NEW g \in Threads, NEW w \in Workers, WorkerEnd(w, g) \/ Die(w, g) PROVE WorkInv'
  <2>1. /\ wpc[w][g] \notin Ended /\ GotoW(w, g, "done")
        /\ (flag' = flag /\ cancelled[w][g]) \/ SetFlag(w, FALSE)
    BY <1>11 DEF WorkerEnd, Die, AtW, Cancellable, Ended, Workers
  <2> QED
    BY <2>1, WorkerKeepsWork DEF WorkerSteps
<1>12. ASSUME NEW g \in Threads,
              \/ EpgParse(g) \/ EpgLock(g) \/ EpgSave(g) \/ PfMust(g) \/ TimeSet(g) \/ WorkerMay(g)
       PROVE  WorkInv'
  <2>1. /\ flag' = flag
        /\ \E w \in Workers, step \in WorkerSteps \ {"none", "done"} :
              wpc[w][g] \notin Ended /\ GotoW(w, g, step)
    BY <1>12
    DEF PfMust, WorkerMay, EpgParse, EpgLock, EpgSave, PfLoad, PfRelease, TimeSet, EpgLoad,
        EpgComplete, PfLock, PfComplete, TimeLoad, TimeComplete, AtW, Ended, Workers, WorkerSteps
  <2> QED
    BY <2>1, WorkerKeepsWork
<1>13. CASE UNCHANGED vars
  BY <1>13 DEF vars, threadVars, runVars, WorkInv, Runs, Flagging, Joining, ExitDone
<1>14. ~ForceStart /\ ~ForceOff /\ ~ForceGst /\ ~ScanStart /\ ~ScanSpawn /\ ~ScanStep
  BY NoOtherCalls
<1> QED
  BY <1>1, <1>2, <1>3, <1>4, <1>5, <1>7, <1>8, <1>9, <1>10, <1>11, <1>12, <1>13, <1>14
  DEF Next, Start, Ticking, SwStep, GuiStep, Gui, EpgMust, TimeMust, Both, Workers

-----------------------------------------------------------------------------
(* What plays *)

\* A caller that moves outside of a stop leaves stop_lock with who has it.
LEMMA OthersKeepStopLock ==
  ASSUME TypeInv, StopLockInv, NEW c \in Both, ~Stopping(c), NEW step, NEW back, Moves(c, step, back),
         lock'["stop_lock"] = lock["stop_lock"]
  PROVE  StopLockInv'
<1>1. \A d \in Both : d # c => pc'[d] = pc[d] /\ stack'[d] = stack[d]
  BY MovedPc, MovedStack, StepNames
<1> QED
  BY <1>1 DEF StopLockInv, Stopping

\* Who goes on stopping may keep stop_lock.
LEMMA StoppingKeepsStopLock ==
  ASSUME NEW c \in Both, Stopping(c)', lock'["stop_lock"] = lock["stop_lock"]
  PROVE  StopLockInv'
  BY DEF StopLockInv

LEMMA StopLockStep ==
  ASSUME ViewerCalls, TypeInv, PlaceInv, StopLockInv, [Next]_vars, ~NullDereference
  PROVE  StopLockInv'
<1>a. Both \subseteq Callers
  BY StepNames
<1>b. \A m, n \in Locks : \A h : m # n /\ Lock(m, h) => lock'[n] = lock[n]
  BY DEF Lock, TypeInv, ObjType
<1>1. ASSUME NEW c \in Both, Exit(c) PROVE StopLockInv'
  <2>1. pc[c] \in ExitSteps /\ pc[c] # "idle"
    BY <1>1 DEF Exit, EpgExit, EpgJoin, PfExit, PfJoin, TimeExit, TimeJoin, At, ExitSteps
  <2>2. lock'["stop_lock"] = lock["stop_lock"]
    BY <1>1, <1>b DEF Exit, EpgExit, EpgJoin, PfExit, PfJoin, TimeExit, TimeJoin, Locks
  <2>3. CASE stack[c] = <<"sel_index">>
    <3>1. ~Stopping(c)
      BY <2>1, <2>3 DEF Stopping, ExitSteps
    <3>2. \E step, back : Moves(c, step, back)
      BY <1>1, <1>a, <2>1, GotoMoves, ExitReturns
      DEF Exit, EpgExit, EpgJoin, PfExit, PfJoin, TimeExit, TimeJoin
    <3> QED
      BY <2>2, <3>1, <3>2, OthersKeepStopLock
  <2>4. CASE stack[c] # <<"sel_index">>
    <3>1. \/ \E step \in ExitSteps : Moves(c, step, stack[c])
          \/ \E back : Moves(c, "stop_gst", back)
      BY <1>1, <1>a, <2>1, <2>4, GotoMoves, ExitReturns
      DEF Exit, EpgExit, EpgJoin, PfExit, PfJoin, TimeExit, TimeJoin, ExitSteps
    <3>2. Stopping(c)'
      BY <1>a, <2>4, <3>1, MovedPc, MovedStack DEF Stopping
    <3> QED
      BY <2>2, <3>2, StoppingKeepsStopLock
  <2> QED
    BY <2>3, <2>4
<1>2. ASSUME NEW c \in Both, Stop(c) PROVE StopLockInv'
  <2>1. CASE StopTest(c)
    <3>1. ~Stopping(c) /\ pc[c] \in StopSteps
      BY <2>1 DEF StopTest, At, Stopping, ExitSteps, StopSteps
    <3>2. \E step, back : Moves(c, step, back)
      BY <1>a, <2>1, <3>1, GotoMoves, OthersReturn DEF StopTest
    <3> QED
      BY <2>1, <3>1, <3>2, OthersKeepStopLock DEF StopTest
  <2>2. CASE StopLock(c) /\ lock["stop_lock"] = NoOne
    <3>1. Moves(c, "epg_exit", <<"stop_gst">> \o stack[c])
      BY <1>a, <2>2, CallMoves DEF StopLock
    <3>2. stack[c] \in {<< >>, <<"sel_check">>}
      BY <2>2
      DEF StopLock, At, PlaceInv, GuiPlace, SwPlace, Both, ExitSteps, StopSteps, EventSteps, SelSteps
    <3>3. Head(<<"stop_gst">> \o stack[c]) = "stop_gst"
      BY <3>2, StackWords DEF Backs
    <3>4. Head(<<"sel_index">>) = "sel_index"
      BY StackWords DEF Backs
    <3>5. pc'[c] = "epg_exit" /\ stack'[c] = <<"stop_gst">> \o stack[c]
      <4>1. \A back : Moves(c, "epg_exit", back) => pc'[c] = "epg_exit" /\ stack'[c] = back
        BY <1>a, MovedPc, MovedStack, StepNames
      <4> QED
        BY <3>1, <4>1, Zenon
    <3>6. <<"stop_gst">> \o stack[c] # <<"sel_index">>
      BY <3>3, <3>4, Zenon
    <3>7. Stopping(c)'
      BY <3>5, <3>6 DEF Stopping, ExitSteps
    <3> QED
      BY <3>7 DEF StopLockInv
  <2>3. CASE StopLock(c) /\ lock["stop_lock"] # NoOne
    <3>1. ~Stopping(c) /\ pc[c] \in StopSteps
      BY <2>3 DEF StopLock, At, Stopping, ExitSteps, StopSteps
    <3>2. \E step, back : Moves(c, step, back)
      BY <2>3, <3>1, OthersReturn DEF StopLock
    <3> QED
      BY <2>3, <3>1, <3>2, OthersKeepStopLock DEF StopLock
  <2>4. CASE StopGst(c)
    <3>1. Stopping(c)'
      BY <1>a, <2>4, GotoMoves, MovedPc DEF StopGst, Stopping
    <3> QED
      BY <2>4, <3>1, StoppingKeepsStopLock DEF StopGst
  <2>5. CASE StopClear(c)
    BY <2>5 DEF StopClear, Lock, StopLockInv, TypeInv, ObjType, Locks
  <2> QED
    BY <1>2, <2>1, <2>2, <2>3, <2>4, <2>5 DEF Stop
<1>3. ASSUME NEW c \in Both, Event(c) PROVE StopLockInv'
  <2>1. pc[c] \in EventSteps /\ ~Stopping(c)
    BY <1>3
    DEF Event, EventNone, EventUnlocks, EventLock, EventRead, At, EventSteps, Stopping, ExitSteps
  <2>2. \E step, back : Moves(c, step, back)
    BY <1>3, <1>a, <2>1, OthersReturn, GotoMoves
    DEF Event, EventNone, EventUnlocks, EventLock, EventRead
  <2>3. lock'["stop_lock"] = lock["stop_lock"]
    BY <1>3, <1>b DEF Event, EventNone, EventUnlocks, EventLock, EventRead, Locks
  <2> QED
    BY <2>1, <2>2, <2>3, OthersKeepStopLock
<1>4. ASSUME Selecting PROVE StopLockInv'
  <2>1. ~Stopping("sw")
    BY <1>4 DEF Selecting, Select, SelStop, SelCheck, SelIndex, SelNoPids, SelTune, SelAdd, SelGst, SelList,
                SelGstFails, SelOn, PfStart, PfFlag, At, Stopping, ExitSteps
  <2>2. \E step, back : Moves("sw", step, back)
    BY <1>4, GotoMoves, CallMoves, CreateCases
    DEF Selecting, Select, SelStop, SelCheck, SelIndex, SelNoPids, SelTune, SelAdd, SelGst, SelList,
        SelGstFails, SelOn, PfStart, PfFlag, SelectEnd, Callers, Workers
  <2>3. lock'["stop_lock"] = lock["stop_lock"]
    BY <1>4, <1>b
    DEF Selecting, Select, SelStop, SelCheck, SelIndex, SelNoPids, SelTune, SelAdd, SelGst, SelList,
        SelGstFails, SelOn, PfStart, PfFlag, SelectEnd, Locks
  <2> QED
    BY <2>1, <2>2, <2>3, OthersKeepStopLock DEF Both
<1>5. ASSUME Ticking \/ EventStart \/ ListLock \/ ListRead \/ EpgFlag \/ TimeFlag PROVE StopLockInv'
  <2>1. ~Stopping("gui")
    BY <1>5
    DEF Ticking, TickStop, TickEpg, TickTime, Tick, EventStart, ListLock, ListRead, EpgFlag, TimeFlag,
                At, Stopping, ExitSteps
  <2>2. \E step, back : Moves("gui", step, back)
    BY <1>5, GotoMoves, CreateCases
    DEF Ticking, TickStop, TickEpg, TickTime, EventStart, ListLock, ListRead, EpgFlag, TimeFlag,
        Callers, Workers
  <2>3. lock'["stop_lock"] = lock["stop_lock"]
    BY <1>5, <1>b
    DEF Ticking, TickStop, TickEpg, TickTime, EventStart, ListLock, ListRead, EpgFlag, TimeFlag, Locks
  <2> QED
    BY <2>1, <2>2, <2>3, OthersKeepStopLock DEF Both
<1>6. ASSUME NEW s \in Services \cup {NoService}, StartSelect(s) PROVE StopLockInv'
  <2>1. Moves("sw", "select", stack["sw"]) /\ ~Stopping("sw") /\ UNCHANGED lock
    BY <1>6 DEF StartSelect, Moves, TypeInv, ControlType, StackType, At, Stopping, ExitSteps
  <2> QED
    BY <2>1, OthersKeepStopLock DEF Both
<1>7. ASSUME NEW g \in Threads,
             EpgMust(g) \/ PfMust(g) \/ TimeMust(g) \/ WorkerMay(g) \/ \E w \in Workers : Die(w, g)
      PROVE  StopLockInv'
  <2>1. UNCHANGED <<pc, stack>> /\ lock'["stop_lock"] = lock["stop_lock"]
    BY <1>7, <1>b
    DEF EpgMust, PfMust, TimeMust, WorkerMay, EpgParse, EpgLock, EpgSave, WorkerEnd, PfLoad, PfRelease,
        TimeSet, EpgLoad, EpgComplete, PfLock, PfComplete, TimeLoad, TimeComplete, Die, GotoW, Locks
  <2> QED
    BY <2>1 DEF StopLockInv, Stopping
<1>8. CASE UNCHANGED vars
  BY <1>8 DEF vars, StopLockInv, Stopping
<1> QED
  BY <1>1, <1>2, <1>3, <1>4, <1>5, <1>6, <1>7, <1>8, NoOtherCalls
  DEF Next, Start, SwStep, GuiStep, Gui, Both

\* A caller that moves, and that stops or starts to play only where that is said.
LEMMA MoveKeepsPlay ==
  ASSUME TypeInv, PlayInv, NEW c \in Both, NEW step, NEW back, Moves(c, step, back),
         step \notin FlagSteps \cup JoinSteps,
         UNCHANGED <<is_playing, flag, threadVars>>, selected' = selected \/ c = "sw",
         current_service' = current_service \/ ~is_playing, PlayAt(c)'
  PROVE  PlayInv'
<1>1. \A d \in Both : d # c => pc'[d] = pc[d] /\ stack'[d] = stack[d]
  BY MovedPc, MovedStack, StepNames
<1>2. pc'[c] = step
  BY MovedPc, StepNames
<1>3. \A w \in Workers : (Flagging(w)' => Flagging(w)) /\ (Joining(w)' => Joining(w))
  BY <1>1, <1>2, StepNames DEF Flagging, Joining
<1>4. \A w \in Workers : Runs(w)' = Runs(w) /\ flag'[w] = flag[w]
  BY DEF Runs, threadVars, runVars
<1>5. \A d \in Both : PlayAt(d)'
  BY <1>1 DEF PlayInv, PlayAt, Both
<1> QED
  BY <1>3, <1>4, <1>5 DEF PlayInv

LEMMA ExitKeepsPlay ==
  ASSUME TypeInv, PlaceInv, WorkInv, PlayInv, NEW c \in Both, Exit(c)
  PROVE  PlayInv'
<1>0. c \in Callers /\ pc[c] \in ExitSteps
  BY StepNames DEF Exit, EpgExit, EpgJoin, PfExit, PfJoin, TimeExit, TimeJoin, At, ExitSteps
<1>1. PICK step, back : /\ Moves(c, step, back)
                        /\ \/ step \in ExitSteps /\ back = stack[c]
                           \/ step = "stop_gst"
                           \/ c = "sw" /\ stack[c] = <<"sel_index">> /\ step = "sel_index"
  BY <1>0, GotoMoves, ExitReturns
  DEF Exit, EpgExit, EpgJoin, PfExit, PfJoin, TimeExit, TimeJoin, ExitSteps
<1>2. UNCHANGED <<is_playing, current_service, selected>>
  BY DEF Exit, EpgExit, EpgJoin, PfExit, PfJoin, TimeExit, TimeJoin, objVars, selVars
<1>3. pc'[c] = step /\ stack'[c] = back /\ \A d \in Both : d # c => pc'[d] = pc[d] /\ stack'[d] = stack[d]
  BY <1>0, <1>1, MovedPc, MovedStack, StepNames
<1>4. \A d \in Both : PlayAt(d)'
  <2>1. PlayAt(c)'
    BY <1>0, <1>1, <1>2, <1>3 DEF PlayInv, PlayAt, EventSteps, SelSteps, ExitSteps
  <2> QED
    BY <1>2, <1>3, <2>1 DEF PlayInv, PlayAt
<1>5. \A w \in Workers : flag'[w] => flag[w]
  BY DEF Exit, EpgExit, EpgJoin, PfExit, PfJoin, TimeExit, TimeJoin, SetFlag, TypeInv, FlagType
<1>6. \A w \in Workers : Runs(w)' => Runs(w)
  <2>1. \A w \in Workers : Join(c, w) => tid' = tid /\ \A v \in Workers : Runs(v)' => Runs(v)
    BY <1>0 DEF Join, Runs, Ended, TypeInv, RunType
  <2>2. \A w \in Workers : Cancel(c, w) => \A v \in Workers : Runs(v)' => Runs(v)
    BY DEF Cancel, Runs
  <2>3. UNCHANGED threadVars => \A v \in Workers : Runs(v)' => Runs(v)
    BY DEF threadVars, runVars, Runs
  <2> QED
    BY <2>1, <2>2, <2>3 DEF Exit, EpgExit, EpgJoin, PfExit, PfJoin, TimeExit, TimeJoin, Workers
<1>7. \A w \in Workers : (Flagging(w)' => Flagging(w)) /\ (Joining(w)' => is_playing)
  <2>1. ASSUME NEW w \in Workers, pc'[c] = JoinStep[w] PROVE flag[w]
    <3>1. pc'[c] \in JoinSteps
      BY <2>1, StepNames
    <3>2. \A st : Goto(c, st) => pc'[c] = st
      BY <1>0 DEF Goto, TypeInv, ControlType, PcType
    <3>3. CASE EpgExit(c)
      BY <2>1, <3>1, <3>2, <3>3 DEF EpgExit, JoinStep, Workers, JoinSteps
    <3>4. CASE PfExit(c)
      <4>1. (flag["pf"] /\ pc'[c] = "pf_join") \/ pc'[c] = "time_exit"
        BY <3>2, <3>4, Zenon DEF PfExit
      <4> QED
        BY <2>1, <3>1, <4>1 DEF JoinStep, Workers, JoinSteps
    <3>5. CASE TimeExit(c)
      <4>1. ~Return(c)
        BY <1>0, <3>1, ExitReturns, MovedPc DEF JoinSteps
      <4> QED
        BY <2>1, <3>2, <3>5, <4>1 DEF TimeExit, JoinStep, Workers
    <3>6. CASE EpgJoin(c) \/ PfJoin(c)
      BY <3>1, <3>2, <3>6 DEF EpgJoin, PfJoin, JoinSteps
    <3>7. CASE TimeJoin(c)
      BY <1>0, <3>1, <3>7, ExitReturns, MovedPc DEF TimeJoin, JoinSteps
    <3> QED
      BY <3>3, <3>4, <3>5, <3>6, <3>7 DEF Exit
  <2>2. \A w \in Workers : Joining(w)' => Joining(w) \/ flag[w]
    BY <1>3, <2>1 DEF Joining
  <2>3. \A w \in Workers : Flagging(w)' => Flagging(w)
    BY <1>1, <1>3, StepNames DEF Flagging, FlagSteps, ExitSteps
  <2> QED
    BY <2>2, <2>3 DEF PlayInv
<1> QED
  BY <1>2, <1>4, <1>5, <1>6, <1>7 DEF PlayInv

\* A stop of the switch thread returns to the selection.
LEMMA SelectionStops ==
  ASSUME TypeInv, PlaceInv, pc["sw"] \in StopSteps, Return("sw"), NEW step, NEW back, Moves("sw", step, back)
  PROVE  step = "sel_check"
<1>1. stack["sw"] = <<"sel_check">>
  BY DEF PlaceInv, SwPlace, ExitSteps, StopSteps, EventSteps, SelSteps
<1>2. Moves("sw", "sel_check", << >>)
  BY <1>1, ReturnMoves, StackWords DEF Callers, Backs
<1> QED
  BY <1>2, MovedPc DEF Callers

\* Whoever raises a flag or starts a worker does it while something plays.
LEMMA FlaggingPlays ==
  ASSUME TypeInv, PlaceInv, PlayInv, NEW w \in Workers, Flagging(w), Goto(Maker[w], "idle"),
         UNCHANGED <<is_playing, current_service>>
  PROVE  PlayInv'
<1>0. Maker[w] \in Both /\ Maker[w] \in Callers /\ is_playing
  BY StepNames DEF PlayInv
<1>1. pc'[Maker[w]] = "idle" /\ \A d \in Both : d # Maker[w] => pc'[d] = pc[d]
  BY <1>0, GotoMoves, MovedPc, StepNames
<1>2. is_playing' = TRUE
  BY <1>0 DEF TypeInv, FlagType
<1>3. \A d \in Both : d # Maker[w] => pc[d] # "stop_clear"
  BY <1>0, Alone, StepNames DEF Flagging, StopSteps
<1>4. pc'["sw"] = "idle"
  BY <1>0, <1>1, StepNames DEF Flagging, FlagSteps, PlaceInv, Both, EventSteps
<1>5. \A d \in Both : PlayAt(d)'
  BY <1>1, <1>3, <1>4 DEF PlayAt, EventSteps, SelSteps, ExitSteps
<1> QED
  BY <1>0, <1>2, <1>5 DEF PlayInv

\* A stop leaves nothing playing and no workers behind it.
LEMMA StopKeepsPlay ==
  ASSUME TypeInv, PlaceInv, StopLockInv, WorkInv, PlayInv, NEW c \in Both, Stop(c)
  PROVE  PlayInv'
<1>0. c \in Callers /\ pc[c] \in StopSteps
  BY StepNames DEF Stop, StopTest, StopLock, StopGst, StopClear, At, StopSteps
<1>1. \A d \in Both : d # c => pc[d] \notin FlagSteps \cup JoinSteps \cup ExitSteps \cup StopSteps
  BY <1>0, Alone
<1> USE DEF FlagSteps, JoinSteps
<1>2. CASE StopTest(c)
  <2>1. PICK step \in {"idle", "sel_check", "pf_start", "stop_lock"} : \E back :
           Moves(c, step, back) /\ (step # "stop_lock" => ~is_playing)
    BY <1>0, <1>2, GotoMoves, OthersReturn DEF StopTest
  <2>2. UNCHANGED <<is_playing, current_service, selected, flag, threadVars>>
    BY <1>2 DEF StopTest, objVars, selVars
  <2>3. PlayAt(c)' \/ (step = "pf_start" /\ c = "sw")
    BY <1>0, <2>1, <2>2, MovedPc DEF PlayAt, EventSteps, SelSteps, ExitSteps
  <2>4. ~(step = "pf_start" /\ c = "sw")
    BY <1>0, <1>2, <2>1, SelectionStops DEF StopTest
  <2> QED
    BY <2>1, <2>2, <2>3, <2>4, MoveKeepsPlay
<1>3. CASE StopLock(c)
  <2>1. lock["stop_lock"] = NoOne
    BY <1>0, <1>1, <1>3 DEF StopLockInv, Stopping, StopLock, At, ExitSteps, StopSteps
  <2>2. Moves(c, "epg_exit", <<"stop_gst">> \o stack[c])
    BY <1>0, <1>3, <2>1, CallMoves DEF StopLock
  <2>3. stack[c] \in {<< >>, <<"sel_check">>}
    BY <1>0 DEF PlaceInv, GuiPlace, SwPlace, Both, ExitSteps, StopSteps, EventSteps, SelSteps
  <2>4. Head(<<"stop_gst">> \o stack[c]) = "stop_gst" /\ Head(<<"sel_index">>) = "sel_index"
    BY <2>3, StackWords DEF Backs
  <2>5. pc'[c] = "epg_exit" /\ stack'[c] # <<"sel_index">>
    BY <1>0, <2>2, <2>4, MovedPc, MovedStack
  <2>6. PlayAt(c)'
    BY <2>5 DEF PlayAt, EventSteps, SelSteps
  <2> QED
    BY <1>3, <2>2, <2>6, MoveKeepsPlay DEF StopLock, selVars
<1>4. CASE StopGst(c)
  <2>1. /\ is_playing' = FALSE /\ UNCHANGED <<flag, threadVars, current_service>>
        /\ Moves(c, "stop_clear", stack[c]) /\ pc[c] = "stop_gst"
    BY <1>0, <1>4, GotoMoves DEF StopGst, At
  <2>2. pc'[c] = "stop_clear" /\ \A d \in Both : d # c => pc'[d] = pc[d] /\ stack'[d] = stack[d]
    BY <1>0, <2>1, MovedPc, MovedStack, StepNames
  <2>3. \A w \in Workers : ~Joining(w) /\ ~Joining(w)' /\ ~Flagging(w) /\ ~Flagging(w)'
    BY <1>1, <2>1, <2>2, StepNames DEF Joining, Flagging
  <2>4. \A w \in Workers : ~flag[w]
    BY <2>1 DEF WorkInv, ExitDone, Workers
  <2>5. \A w \in Workers : ~flag'[w] /\ ~Runs(w)'
    BY <2>1, <2>3, <2>4 DEF WorkInv, Runs, threadVars, runVars
  <2>6. c = "gui" => pc["sw"] = "idle"
    BY <1>0 DEF PlaceInv, EventSteps, StopSteps
  <2>7. \A d \in Both : PlayAt(d)'
    BY <2>1, <2>2, <2>6 DEF PlayAt, Both, EventSteps, SelSteps, ExitSteps
  <2> QED
    BY <2>1, <2>3, <2>5, <2>7 DEF PlayInv
<1>5. CASE StopClear(c)
  <2>1. PICK step \in {"idle", "sel_check", "pf_start"} : \E back : Moves(c, step, back)
    BY <1>0, <1>5, OthersReturn DEF StopClear
  <2>2. UNCHANGED <<is_playing, current_service, selected, flag, threadVars>> /\ ~is_playing
    BY <1>5 DEF StopClear, objVars, selVars, PlayInv, PlayAt, At
  <2>3. ~(step = "pf_start" /\ c = "sw")
    BY <1>0, <1>5, <2>1, SelectionStops DEF StopClear
  <2>4. PlayAt(c)'
    BY <1>0, <2>1, <2>2, <2>3, MovedPc DEF PlayAt, EventSteps, SelSteps, ExitSteps
  <2> QED
    BY <2>1, <2>2, <2>4, MoveKeepsPlay
<1> QED
  BY <1>2, <1>3, <1>4, <1>5 DEF Stop

\* A selection plays only at its end, after its stop.
LEMMA SelectingKeepsPlay ==
  ASSUME TypeInv, PlaceInv, WorkInv, PlayInv, Selecting
  PROVE  PlayInv'
<1>0. "sw" \in Callers /\ "sw" \in Both /\ pc["sw"] # "idle"
  BY
  DEF Callers, Both, Selecting, Select, SelStop, SelCheck, SelIndex, SelNoPids, SelTune, SelAdd, SelGst, SelList,
         SelGstFails, SelOn, PfStart, PfFlag, At
<1>1. pc["gui"] \notin FlagSteps \cup JoinSteps \cup ExitSteps \cup StopSteps
  BY <1>0, Alone DEF Both
<1>2. stack["sw"] = << >>
  BY
  DEF Selecting, Select, SelStop, SelCheck, SelIndex, SelNoPids, SelTune, SelAdd, SelGst, SelList, SelGstFails,
         SelOn, PfStart, PfFlag, At, PlaceInv, SwPlace, ExitSteps, StopSteps, EventSteps
<1> USE DEF FlagSteps, JoinSteps
<1>3. ASSUME Select \/ SelStop \/ SelAdd \/ SelGst \/ SelList PROVE PlayInv'
  <2>1. PICK step \in {"sel_stop", "stop", "sel_check", "sel_gst", "sel_list", "sel_on"} : \E back :
           Moves("sw", step, back) /\ (step \in {"sel_check", "sel_gst", "sel_list", "sel_on"} => ~is_playing)
    BY <1>0, <1>3, GotoMoves, CallMoves
    DEF Select, SelStop, SelAdd, SelGst, SelList, At, PlayInv, PlayAt, SelSteps
  <2>2. UNCHANGED <<is_playing, current_service, selected, flag, threadVars>>
    BY <1>3 DEF Select, SelStop, SelAdd, SelGst, SelList, objVars, selVars
  <2>3. PlayAt("sw")'
    BY <1>0, <2>1, <2>2, MovedPc DEF PlayAt, EventSteps, SelSteps, ExitSteps
  <2> QED
    BY <1>0, <2>1, <2>2, <2>3, MoveKeepsPlay
<1>4. ASSUME SelCheck \/ SelIndex \/ SelNoPids \/ SelTune \/ SelGstFails PROVE PlayInv'
  <2>1. ~is_playing /\ UNCHANGED <<flag, threadVars>>
    BY <1>0, <1>4 DEF SelCheck, SelIndex, SelNoPids, SelTune, SelGstFails, At, PlayInv, PlayAt, SelSteps
  <2>2. is_playing' = FALSE \/ is_playing' = is_playing
    BY <1>4 DEF SelCheck, SelIndex, SelNoPids, SelTune, SelGstFails, objVars
  <2>3. is_playing' = is_playing
    BY <2>1, <2>2, Zenon DEF TypeInv, FlagType
  <2>4. PICK step \in {"event", "epg_exit", "sel_tune", "sel_add"} : \E back :
           Moves("sw", step, back) /\ (step = "event" => ~selected')
    BY <1>0, <1>4, GotoMoves, CallMoves
    DEF SelCheck, SelIndex, SelNoPids, SelTune, SelGstFails, SelectEnd
  <2>5. PlayAt("sw")'
    BY <1>0, <2>1, <2>3, <2>4, MovedPc DEF PlayAt, EventSteps, SelSteps, ExitSteps
  <2> QED
    BY <1>0, <2>1, <2>3, <2>4, <2>5, MoveKeepsPlay
<1>5. CASE SelOn
  <2>1. is_playing' = TRUE /\ current_service' = current_service /\ current_service \in Services
    BY <1>5 DEF SelOn, TypeInv, ControlType, At, SelSteps
  <2>2. PICK back : Moves("sw", "event", back)
    BY <1>0, <1>5, CallMoves DEF SelOn, SelectEnd
  <2>3. pc'["sw"] = "event" /\ pc'["gui"] = pc["gui"]
    BY <1>0, <2>2, MovedPc DEF Callers
  <2>4. \A d \in Both : PlayAt(d)'
    BY <1>1, <2>1, <2>3 DEF PlayAt, Both, SelSteps, ExitSteps, StopSteps
  <2> QED
    BY <2>1, <2>4, ServicesAssumption DEF PlayInv
<1>6. CASE PfStart
  <2>1. CASE selected /\ current_service # NoService /\ ~flag["pf"]
    <3>1. is_playing' = TRUE /\ current_service' = current_service /\ selected' = selected
      BY <1>0, <1>6, <2>1 DEF PfStart, At, PlayInv, PlayAt, objVars, selVars, TypeInv, FlagType, ObjType
    <3>2. Moves("sw", "pf_flag", << >>)
      BY <1>0, <1>2, <1>6, <2>1, CreateCases, GotoMoves DEF PfStart, Workers
    <3>3. pc'["sw"] = "pf_flag" /\ pc'["gui"] = pc["gui"]
      BY <1>0, <3>2, MovedPc DEF Callers
    <3>4. \A d \in Both : PlayAt(d)'
      BY <1>1, <3>1, <3>3 DEF PlayAt, Both, EventSteps, SelSteps, ExitSteps, StopSteps
    <3> QED
      BY <2>1, <3>1, <3>4 DEF PlayInv
  <2>2. CASE ~(selected /\ current_service # NoService /\ ~flag["pf"])
    <3>1. Moves("sw", "idle", << >>) /\ UNCHANGED <<is_playing, current_service, selected, flag, threadVars>>
      BY <1>0, <1>2, <1>6, <2>2, GotoMoves DEF PfStart, objVars, selVars
    <3>2. PlayAt("sw")'
      BY <1>0, <3>1, MovedPc DEF PlayAt, EventSteps, SelSteps, ExitSteps
    <3> QED
      BY <1>0, <3>1, <3>2, MoveKeepsPlay
  <2> QED
    BY <2>1, <2>2
<1>7. CASE PfFlag
  BY <1>7, FlaggingPlays DEF PfFlag, objVars, At, Flagging, Maker, FlagOf, Workers
<1> QED
  BY <1>3, <1>4, <1>5, <1>6, <1>7 DEF Selecting

LEMMA PlayStep ==
  ASSUME ViewerCalls, TypeInv, PlaceInv, StopLockInv, WorkInv, PlayInv, [Next]_vars, ~NullDereference
  PROVE  PlayInv'
<1>a. Both \subseteq Callers /\ "gui" \in Both /\ "sw" \in Both
  BY StepNames DEF Both
<1> USE DEF FlagSteps, JoinSteps
<1>1. ASSUME NEW c \in Both, Exit(c) PROVE PlayInv'
  BY <1>1, ExitKeepsPlay
<1>2. ASSUME NEW c \in Both, Stop(c) PROVE PlayInv'
  BY <1>2, StopKeepsPlay
<1>3. ASSUME Selecting PROVE PlayInv'
  BY <1>3, SelectingKeepsPlay
<1>4. ASSUME NEW c \in Both, Event(c) PROVE PlayInv'
  <2>1. pc[c] \in EventSteps /\ UNCHANGED <<is_playing, current_service, selected, flag, threadVars>>
    BY <1>4 DEF Event, EventNone, EventUnlocks, EventLock, EventRead, At, EventSteps, objVars, selVars
  <2>2. PICK step \in {"idle", "pf_start", "ev_read"} : \E back : Moves(c, step, back)
    <3>1. stack[c] \in {<< >>, <<"pf_start">>}
      BY <2>1 DEF PlaceInv, GuiPlace, SwPlace, Both, ExitSteps, StopSteps, EventSteps, SelSteps
    <3>2. Goto(c, "ev_read") \/ Moves(c, "idle", << >>) \/ Moves(c, "pf_start", << >>)
      BY <1>4, <1>a, <3>1, StackWords, ReturnMoves
      DEF Event, EventNone, EventUnlocks, EventLock, EventRead, Backs
    <3> QED
      BY <1>a, <3>2, GotoMoves
  <2>3. PlayAt(c)'
    BY <1>a, <2>1, <2>2, MovedPc DEF PlayInv, PlayAt, EventSteps, SelSteps, ExitSteps
  <2> QED
    BY <2>1, <2>2, <2>3, MoveKeepsPlay
<1>5. ASSUME TickStop \/ EventStart \/ ListLock \/ ListRead PROVE PlayInv'
  <2>1. PICK step \in {"idle", "event", "stop", "list_read"} : \E back : Moves("gui", step, back)
    BY <1>5, <1>a, GotoMoves DEF TickStop, EventStart, ListLock, ListRead
  <2>2. UNCHANGED <<is_playing, current_service, selected, flag, threadVars>>
    BY <1>5 DEF TickStop, EventStart, ListLock, ListRead, objVars, selVars
  <2>3. PlayAt("gui")'
    BY <1>a, <2>1, MovedPc DEF PlayAt
  <2> QED
    BY <1>a, <2>1, <2>2, <2>3, MoveKeepsPlay
<1>6. ASSUME NEW s \in Services \cup {NoService}, StartSelect(s) PROVE PlayInv'
  <2>1. /\ Moves("sw", "select", stack["sw"])
        /\ UNCHANGED <<is_playing, current_service, selected, flag, threadVars>>
    BY <1>6 DEF StartSelect, Moves, TypeInv, ControlType, StackType, objVars
  <2>2. PlayAt("sw")'
    BY <1>a, <2>1, MovedPc DEF PlayAt, EventSteps, SelSteps, ExitSteps
  <2> QED
    BY <1>a, <2>1, <2>2, MoveKeepsPlay
<1>7. ASSUME TickEpg \/ TickTime PROVE PlayInv'
  <2>1. /\ is_playing' = TRUE /\ UNCHANGED <<current_service, selected>>
        /\ pc["sw"] = "idle" /\ pc["gui"] = "idle"
    BY <1>7 DEF TickEpg, TickTime, Tick, At, objVars, selVars, TypeInv, FlagType
  <2>2. current_service # NoService
    BY <1>7 DEF TickEpg, TickTime, PlayInv
  <2>3. Goto("gui", "epg_flag") \/ Goto("gui", "time_flag")
    BY <1>7, <1>a, CreateCases DEF TickEpg, TickTime, Workers
  <2>4. pc'["sw"] = "idle" /\ pc'["gui"] # "stop_clear"
    BY <1>a, <2>1, <2>3, GotoMoves, MovedPc
  <2>5. \A d \in Both : PlayAt(d)'
    BY <2>4 DEF PlayAt, Both, EventSteps, SelSteps, ExitSteps
  <2> QED
    BY <2>1, <2>2, <2>5 DEF PlayInv
<1>8. ASSUME EpgFlag \/ TimeFlag PROVE PlayInv'
  <2>1. CASE EpgFlag
    BY <2>1, FlaggingPlays DEF EpgFlag, objVars, At, Flagging, Maker, FlagOf, Workers
  <2>2. CASE TimeFlag
    BY <2>2, FlaggingPlays DEF TimeFlag, objVars, At, Flagging, Maker, FlagOf, Workers
  <2> QED
    BY <1>8, <2>1, <2>2
<1>9. ASSUME NEW g \in Threads,
             EpgMust(g) \/ PfMust(g) \/ TimeMust(g) \/ WorkerMay(g) \/ \E w \in Workers : Die(w, g)
      PROVE  PlayInv'
  <2>1. PICK w \in Workers, step \in WorkerSteps : wpc[w][g] \notin Ended /\ GotoW(w, g, step)
    BY <1>9
    DEF EpgMust, PfMust, TimeMust, WorkerMay, EpgParse, EpgLock, EpgSave, WorkerEnd, PfLoad, PfRelease,
        TimeSet, EpgLoad, EpgComplete, PfLock, PfComplete, TimeLoad, TimeComplete, Die, Cancellable,
        AtW, Ended, Workers, WorkerSteps
  <2>2. Runs(w)
    BY <2>1 DEF WorkInv, Runs
  <2>3. is_playing /\ UNCHANGED <<is_playing, current_service, selected, pc, stack>>
    BY <1>9, <2>2
    DEF EpgMust, PfMust, TimeMust, WorkerMay, EpgParse, EpgLock, EpgSave, WorkerEnd, PfLoad, PfRelease,
        TimeSet, EpgLoad, EpgComplete, PfLock, PfComplete, TimeLoad, TimeComplete, Die, GotoW,
        objVars, selVars, PlayInv
  <2>4. \A d \in Both : PlayAt(d)'
    BY <2>3 DEF PlayInv, PlayAt
  <2> QED
    BY <2>3, <2>4 DEF PlayInv
<1>10. CASE UNCHANGED vars
  BY <1>10 DEF vars, objVars, selVars, threadVars, runVars, PlayInv, PlayAt, Runs, Flagging, Joining
<1> QED
  BY <1>1, <1>2, <1>3, <1>4, <1>5, <1>6, <1>7, <1>8, <1>9, <1>10, <1>a, NoOtherCalls
  DEF Next, Start, Ticking, SwStep, GuiStep, Gui, Both

-----------------------------------------------------------------------------
(* The viewer's object *)

\* The reads through the service pointer that nobody guards never find it NULL.
LEMMA NeverNull ==
  ASSUME TypeInv, ViewerInv
  PROVE  ~NullDereference
<1> SUFFICES ASSUME NullDereference PROVE FALSE
  OBVIOUS
<1>1. ~is_playing
  BY DEF NullDereference, ViewerInv, PlayInv
<1>2. \A w \in Workers, g \in Threads : wpc[w][g] \in Ended
  BY <1>1 DEF ViewerInv, WorkInv, PlayInv, Runs
<1>3. \A c \in Callers : pc[c] # "pf_join"
  BY <1>1 DEF ViewerInv, PlayInv, PlaceInv, Joining, JoinStep, Workers, Callers, Both
<1> QED
  BY <1>1, <1>2, <1>3 DEF NullDereference, AtW, At, Workers, Ended

LEMMA InitViewerInv == Init => ViewerInv
<1> SUFFICES ASSUME Init PROVE ViewerInv
  OBVIOUS
<1>1. /\ \A c \in Callers : pc[c] = "idle" /\ stack[c] = << >>
      /\ \A w \in Workers, g \in Threads : wpc[w][g] = "none"
      /\ \A w \in Workers : flag[w] = FALSE /\ tid[w] = 1
      /\ lock["stop_lock"] = NoOne /\ ~is_playing /\ 1 \in Threads
  BY ThreadsNat DEF Init, Locks
<1>2. \A w \in Workers : ~Flagging(w) /\ ~Joining(w) /\ ~Runs(w)
  BY <1>1, StepNames DEF Flagging, Joining, Runs, Ended, FlagSteps, JoinSteps
<1>3. PlaceInv /\ StopLockInv
  BY <1>1 DEF PlaceInv, GuiPlace, SwPlace, StopLockInv, Callers
<1>4. WorkInv
  BY <1>1, <1>2, StepNames DEF WorkInv, ExitDone, Ended, Joining
<1>5. PlayInv
  BY <1>1, <1>2, StepNames DEF PlayInv, PlayAt, EventSteps, SelSteps, ExitSteps
<1> QED
  BY <1>3, <1>4, <1>5 DEF ViewerInv

LEMMA NextViewerInv ==
  ASSUME ViewerCalls
  PROVE  TypeInv /\ ViewerInv /\ [Next]_vars => ViewerInv'
  BY NeverNull, PlaceStep, StopLockStep, WorkStep, PlayStep DEF ViewerInv

LEMMA ViewerAlways == ASSUME ViewerCalls PROVE Spec => [](TypeInv /\ ViewerInv)
  BY InitTypeInv, NextTypeInv, InitViewerInv, NextViewerInv, PTL DEF Spec

\* Under a viewer's calls, whoever joins a worker's thread joins one that exists and that
\* nobody else is joining: whatever ends a worker goes by its flag, and the switch thread
\* and the timer slot never end workers at the same time.
THEOREM JoinsOnce == ASSUME ViewerCalls PROVE Spec => []JoinOnce
<1>1. ASSUME TypeInv, ViewerInv PROVE JoinOnce
  <2> SUFFICES ASSUME NEW w \in Workers, NEW c \in Callers, At(c, JoinStep[w])
               PROVE  /\ wpc[w][joining[c]] # "none"
                      /\ \A d \in Callers \ {c} : At(d, JoinStep[w]) => joining[d] # joining[c]
    BY DEF JoinOnce
  <2>1. c \in Both /\ pc[c] \in JoinSteps /\ pc[c] \in ExitSteps
    BY <1>1, StepNames DEF ViewerInv, PlaceInv, At, Both, Callers, JoinSteps, ExitSteps
  <2>2. \A d \in Callers \ {c} : ~At(d, JoinStep[w])
    BY <1>1, <2>1, Alone, StepNames DEF ViewerInv, PlaceInv, At, Both, Callers, JoinSteps
  <2> QED
    BY <1>1, <2>1, <2>2 DEF ViewerInv, WorkInv, At
<1> QED
  BY <1>1, ViewerAlways, PTL

\* Under a viewer's calls, a flag is never up over no thread: where the worker lowers it
\* before its creator raises it, the thread still waits to be joined.
THEOREM FlagsHaveThreads == ASSUME ViewerCalls PROVE Spec => []FlagHasThread
<1>1. ViewerInv => FlagHasThread
  BY DEF ViewerInv, WorkInv, FlagHasThread
<1> QED
  BY <1>1, ViewerAlways, PTL

\* Under a viewer's calls, what no longer plays has no worker.
THEOREM WorkersEndWithPlaying == ASSUME ViewerCalls PROVE Spec => []WorkersOnlyWhilePlaying
<1>1. ViewerInv => WorkersOnlyWhilePlaying
  BY DEF ViewerInv, WorkInv, PlayInv, Runs, Alive, WorkersOnlyWhilePlaying
<1> QED
  BY <1>1, ViewerAlways, PTL

\* Under a viewer's calls, no thread of a worker is created over one that runs.
THEOREM ThreadsNeverLost == ASSUME ViewerCalls PROVE Spec => NoThreadLost
<1> DEFINE Kept == \A w \in Workers : Alive(w) /\ wpc[w][tid[w]] # "done" => tid'[w] = tid[w]
<1>1. ASSUME TypeInv, ViewerInv, [Next]_vars PROVE Kept
  <2>1. ASSUME NEW w \in Workers, ~Runs(w), \A v \in Workers : v # w => tid'[v] = tid[v]
        PROVE  Kept
    <3>1. ~Alive(w)
      BY <1>1, <2>1 DEF ViewerInv, WorkInv, Runs, Alive
    <3> QED
      BY <2>1, <3>1
  <2>2. ASSUME tid' = tid PROVE Kept
    BY <2>2
  <2> HIDE DEF Kept
  <2>3. ASSUME NEW w \in Workers, NEW first, Create(Maker[w], w, first, FlagOf[w]), ~flag[w],
               \A d \in Both : pc[d] \notin FlagSteps \cup JoinSteps
        PROVE  Kept
    <3>1. ~Runs(w)
      BY <1>1, <2>3, StepNames DEF ViewerInv, WorkInv, Flagging, Joining
    <3>2. UNCHANGED runVars \/ \E g \in Threads : Created(w, g, first)
      BY <2>3, CreateCases, StepNames
    <3>3. \A v \in Workers : v # w => tid'[v] = tid[v]
      BY <1>1, <3>2 DEF Created, runVars, TypeInv, RunType
    <3> QED
      BY <2>1, <3>1, <3>3
  <2>4. CASE PfStart
    <3>1. \A d \in Both : pc[d] \notin FlagSteps \cup JoinSteps
      BY <1>1, <2>4, Alone DEF PfStart, At, Both, ViewerInv, FlagSteps, JoinSteps
    <3>2. CASE selected /\ current_service # NoService /\ ~flag["pf"]
      BY <2>3, <2>4, <3>1, <3>2 DEF PfStart, Maker, FlagOf, Workers
    <3>3. CASE ~(selected /\ current_service # NoService /\ ~flag["pf"])
      BY <2>2, <2>4, <3>3 DEF PfStart, threadVars, runVars
    <3> QED
      BY <3>2, <3>3
  <2>5. ASSUME TickEpg \/ TickTime PROVE Kept
    <3>1. \A d \in Both : pc[d] \notin FlagSteps \cup JoinSteps
      BY <2>5 DEF TickEpg, TickTime, Tick, At, Both, FlagSteps, JoinSteps
    <3>2. \/ Create(Maker["epg"], "epg", "start", FlagOf["epg"]) /\ ~flag["epg"]
          \/ Create(Maker["time"], "time", "start", FlagOf["time"]) /\ ~flag["time"]
      BY <2>5 DEF TickEpg, TickTime, Maker, FlagOf
    <3> QED
      BY <2>3, <3>1, <3>2 DEF Workers
  <2>6. ASSUME ~PfStart, ~TickEpg, ~TickTime PROVE tid' = tid
    <3>1. ASSUME NEW c \in Callers, Exit(c) \/ Stop(c) \/ Event(c) PROVE tid' = tid
      BY <3>1
      DEF Exit, EpgExit, EpgJoin, PfExit, PfJoin, TimeExit, TimeJoin, Cancel, Join, Stop, StopTest,
                  StopLock, StopGst, StopClear, Event, EventNone, EventUnlocks, EventLock, EventRead,
                  threadVars, runVars
    <3>2. ASSUME Selecting PROVE tid' = tid
      BY <2>6, <3>2
      DEF Selecting, Select, SelStop, SelCheck, SelIndex, SelNoPids, SelTune, SelAdd, SelGst, SelList,
          SelGstFails, SelOn, PfFlag, threadVars, runVars
    <3>3. ASSUME Start \/ Gui \/ Scanning PROVE tid' = tid
      BY <2>6, <3>3
      DEF Start, StartSelect, ForceStart, EventStart, ListLock, ScanStart, Ticking, TickStop, Gui,
          EpgFlag, TimeFlag, ListRead, ForceOff, ForceGst, ScanSpawn, Scanning, Scan, ScanCheck,
          ScanOn, ScanTune, threadVars, runVars
    <3>4. ASSUME NEW g \in Threads,
                 EpgMust(g) \/ PfMust(g) \/ TimeMust(g) \/ WorkerMay(g) \/ \E w \in Workers : Die(w, g)
          PROVE  tid' = tid
      BY <3>4
      DEF EpgMust, PfMust, TimeMust, WorkerMay, EpgParse, EpgLock, EpgSave, WorkerEnd, PfLoad,
          PfRelease, TimeSet, EpgLoad, EpgComplete, PfLock, PfComplete, TimeLoad, TimeComplete, Die,
          GotoW
    <3>5. NullDereference \/ UNCHANGED vars => tid' = tid
      BY DEF NullDereference, vars, threadVars, runVars
    <3> QED
      BY <1>1, <3>1, <3>2, <3>3, <3>4, <3>5 DEF Next, SwStep, GuiStep, ScanStep, Callers
  <2> QED
    BY <2>2, <2>4, <2>5, <2>6
<1> QED
  BY <1>1, ViewerAlways, PTL DEF Spec, NoThreadLost

\* Under a viewer's calls, the service pointer neither changes nor loses its service under a
\* download.
THEOREM ServicePointerStable == ASSUME ViewerCalls PROVE Spec => ServiceStable
<1>1. ASSUME TypeInv, ViewerInv, [Next]_vars
      PROVE  \A w \in {"epg", "pf"} : Alive(w) => UNCHANGED <<current_service, freed>>
  <2>1. CASE SelIndex \/ SelGst
    <3>1. ~is_playing
      BY <1>1, <2>1 DEF SelIndex, SelGst, At, ViewerInv, PlayInv, PlayAt, Both, SelSteps
    <3> QED
      BY <1>1, <3>1 DEF ViewerInv, PlayInv, WorkInv, Runs, Alive, Workers
  <2>2. CASE ~SelIndex /\ ~SelGst
    <3>1. ASSUME NEW c \in Callers, Exit(c) \/ Stop(c) \/ Event(c) PROVE UNCHANGED <<current_service, freed>>
      BY <3>1 DEF Exit, EpgExit, EpgJoin, PfExit, PfJoin, TimeExit, TimeJoin, Stop, StopTest,
                  StopLock, StopGst, StopClear, Event, EventNone, EventUnlocks, EventLock, EventRead,
                  objVars
    <3>2. ASSUME Selecting PROVE UNCHANGED <<current_service, freed>>
      BY <2>2, <3>2
      DEF Selecting, Select, SelStop, SelCheck, SelNoPids, SelTune, SelAdd, SelList, SelGstFails,
          SelOn, PfStart, PfFlag, objVars
    <3>3. ASSUME Start \/ Gui \/ Scanning PROVE UNCHANGED <<current_service, freed>>
      BY <3>3
      DEF Start, StartSelect, ForceStart, EventStart, ListLock, ScanStart, Ticking, TickStop, TickEpg,
          TickTime, Gui, EpgFlag, TimeFlag, ListRead, ForceOff, ForceGst, ScanSpawn,
          Scanning, Scan, ScanCheck, ScanOn, ScanTune, objVars
    <3>4. ASSUME NEW g \in Threads,
                 EpgMust(g) \/ PfMust(g) \/ TimeMust(g) \/ WorkerMay(g) \/ \E w \in Workers : Die(w, g)
          PROVE  UNCHANGED <<current_service, freed>>
      BY <3>4
      DEF EpgMust, PfMust, TimeMust, WorkerMay, EpgParse, EpgLock, EpgSave, WorkerEnd, PfLoad,
          PfRelease, TimeSet, EpgLoad, EpgComplete, PfLock, PfComplete, TimeLoad, TimeComplete, Die,
          objVars
    <3>5. NullDereference \/ UNCHANGED vars => UNCHANGED <<current_service, freed>>
      BY DEF NullDereference, vars, objVars
    <3> QED
      BY <1>1, <3>1, <3>2, <3>3, <3>4, <3>5 DEF Next, SwStep, GuiStep, ScanStep, Callers
  <2> QED
    BY <2>1, <2>2
<1> QED
  BY <1>1, ViewerAlways, PTL DEF Spec, ServiceStable

-----------------------------------------------------------------------------
(* What is routed *)

\* An entry that finds a free slot takes one.
LEMMA AddedTakes ==
  ASSUME NEW f, FilterType(f), NEW e \in Entries, \E i \in Slots : f[i] = Free
  PROVE  \E i \in Slots : Added(f, e) = [f EXCEPT ![i] = e]
<1> DEFINE free == SlotsIn(f, {Free})
<1>1. free # {} /\ free \subseteq Nat /\ free \subseteq Slots
  BY SlotsNat DEF SlotsIn, FilterType
<1>2. Least(free) \in free
  BY <1>1, LeastIsFirst
<1>3. Added(f, e) = [f EXCEPT ![Least(free)] = e]
  BY <1>1 DEF Added
<1> HIDE DEF free
<1> QED
  BY <1>1, <1>2, <1>3

\* What is routed stays so when an entry is added, and when another PID is removed.
LEMMA AddedKeepsRoutes ==
  ASSUME NEW f, FilterType(f), NEW e \in Entries, NEW p \in Pids, NEW b \in Buffers, Routed(f, p, b)
  PROVE  Routed(Added(f, e), p, b)
<1>1. PICK i \in Slots : f[i] = Entry(p, b)
  BY DEF Routed
<1>2. f[i] # Free
  BY <1>1, PidsTyped, FreeAssumption
<1> QED
  BY <1>1, <1>2, AddedSlot DEF Routed

\* Removing a PID leaves the routes of the others.
LEMMA RemovedKeepsRoutes ==
  ASSUME NEW f, FilterType(f), NEW q \in Pids, NEW p \in Pids, p # q, NEW b \in Buffers, Routed(f, p, b)
  PROVE  Routed(Removed(f, q), p, b)
<1>1. PICK i \in Slots : f[i] = Entry(p, b)
  BY DEF Routed
<1>2. \A c \in Buffers : f[i] # Entry(q, c)
  BY <1>1 DEF Entry
<1> QED
  BY <1>1, <1>2, RemovedSlot DEF Routed

\* Four entries fit into an empty filter of four slots.
LEMMA FourFit ==
  ASSUME NumSlots >= 4, NEW a \in Entries, NEW b \in Entries, NEW c \in Entries, NEW d \in Entries
  PROVE  LET f == Added(Added(Added(Added(EmptyFilter, a), b), c), d)
         IN  \A e \in {a, b, c, d} : \E i \in Slots : f[i] = e
<1> DEFINE f0 == EmptyFilter  f1 == Added(f0, a)  f2 == Added(f1, b)  f3 == Added(f2, c)  f4 == Added(f3, d)
<1>0. \A i \in {0, 1, 2, 3} : i \in Slots
  BY NumSlotsAssumption DEF Slots
<1>a. Free \notin {a, b, c, d}
  BY FreeAssumption
<1>1. FilterType(f0) /\ \A i \in Slots : f0[i] = Free
  BY EmptyTyped DEF EmptyFilter
<1> HIDE DEF f0
<1>2. PICK i1 \in Slots : f1 = [f0 EXCEPT ![i1] = a]
  BY <1>0, <1>1, AddedTakes
<1>3. FilterType(f1)
  BY <1>1, AddedSlot
<1> HIDE DEF f1
<1>4. f1[i1] = a /\ \A i \in Slots : i # i1 => f1[i] = Free
  BY <1>1, <1>2 DEF FilterType
<1>5. \E i \in Slots : f1[i] = Free
  BY <1>0, <1>4
<1>6. PICK i2 \in Slots : f2 = [f1 EXCEPT ![i2] = b]
  BY <1>3, <1>5, AddedTakes
<1>7. FilterType(f2) /\ \A i \in Slots : f2[i] # f1[i] => f1[i] = Free
  BY <1>3, AddedSlot
<1> HIDE DEF f2
<1>8. f2[i1] = a /\ f2[i2] = b /\ \A i \in Slots : i \notin {i1, i2} => f2[i] = Free
  BY <1>a, <1>3, <1>4, <1>6, <1>7 DEF FilterType
<1>9. \E i \in Slots : f2[i] = Free
  BY <1>0, <1>8
<1>10. PICK i3 \in Slots : f3 = [f2 EXCEPT ![i3] = c]
  BY <1>7, <1>9, AddedTakes
<1>11. FilterType(f3) /\ \A i \in Slots : f3[i] # f2[i] => f2[i] = Free
  BY <1>7, AddedSlot
<1> HIDE DEF f3
<1>12. /\ f3[i1] = a /\ f3[i2] = b /\ f3[i3] = c
       /\ \A i \in Slots : i \notin {i1, i2, i3} => f3[i] = Free
  BY <1>a, <1>7, <1>8, <1>10, <1>11 DEF FilterType
<1>13. \E i \in Slots : f3[i] = Free
  BY <1>0, <1>12
<1>14. PICK i4 \in Slots : f4 = [f3 EXCEPT ![i4] = d]
  BY <1>11, <1>13, AddedTakes
<1>15. \A i \in Slots : f4[i] # f3[i] => f3[i] = Free
  BY <1>11, AddedSlot
<1> HIDE DEF f4
<1>16. f4[i1] = a /\ f4[i2] = b /\ f4[i3] = c /\ f4[i4] = d
  BY <1>a, <1>11, <1>12, <1>14, <1>15 DEF FilterType
<1>17. \A e \in {a, b, c, d} : \E i \in Slots : f4[i] = e
  BY <1>16
<1> QED
  BY <1>17 DEF f0, f1, f2, f3, f4

RouteSteps == {"sel_gst", "sel_list", "sel_on", "stop_clear"}

Carried == \A kind \in {"video", "audio"} : Routed(filter, OwnPid(kind).pid, "media")

\* Before a service is loaded the filter is empty; once it is, its streams are routed.
RouteInv ==
  /\ ~is_playing /\ (\A c \in Both : pc[c] \notin RouteSteps) => filter = EmptyFilter
  /\ is_playing \/ pc["sw"] \in {"sel_gst", "sel_list", "sel_on"} => Carried

\* The PIDs of a service are not those of the tables, nor the same for two streams.
LEMMA TablePids ==
  ASSUME NEW kind \in {"video", "audio", "pmt"}, current_service \in Services
  PROVE  /\ OwnPid(kind).pid \in Pids /\ OwnPid(kind).pid \notin {EIT, TOT, PAT}
         /\ OwnPid(kind) = Entry(OwnPid(kind).pid, "media") /\ OwnPid(kind) \in Entries
         /\ kind # "pmt" => OwnPid(kind).pid # OwnPid("pmt").pid
  BY PidsTyped DEF OwnPid, Entry, Pid, EIT, TOT, PAT, Buffers

\* The table PIDs the workers and the exits load and unload leave a service alone.
LEMMA TablesKeepCarried ==
  ASSUME TypeInv, current_service \in Services, UNCHANGED current_service, Carried,
         \/ filter' = filter
         \/ \E p \in {EIT, TOT, PAT} : filter' = Removed(filter, p)
         \/ \E e \in Entries : filter' = Added(filter, e)
  PROVE  Carried'
<1> SUFFICES ASSUME NEW kind \in {"video", "audio"}
             PROVE  Routed(filter', OwnPid(kind).pid, "media")
  BY DEF Carried, OwnPid
<1>1. Routed(filter, OwnPid(kind).pid, "media") /\ FilterType(filter) /\ "media" \in Buffers
  BY DEF Carried, TypeInv, Buffers
<1>2. OwnPid(kind).pid \in Pids /\ OwnPid(kind).pid \notin {EIT, TOT, PAT}
  BY TablePids
<1> QED
  BY <1>1, <1>2, PidsTyped, AddedKeepsRoutes, RemovedKeepsRoutes

\* Steps that leave the filter and the playing flag alone, and the selection where it is.
LEMMA MoveKeepsRoute ==
  ASSUME TypeInv, RouteInv, NEW c \in Both, NEW step, NEW back, Moves(c, step, back),
         pc[c] \notin RouteSteps, step \notin RouteSteps, UNCHANGED <<is_playing, filter>>,
         current_service' = current_service \/ (~is_playing /\ c = "sw")
  PROVE  RouteInv'
<1>1. \A d \in Both : pc'[d] = IF d = c THEN step ELSE pc[d]
  BY MovedPc, StepNames
<1>2. current_service' = current_service => (Carried => Carried')
  BY DEF Carried, OwnPid
<1>3. ~is_playing' /\ (\A d \in Both : pc'[d] \notin RouteSteps) => filter' = EmptyFilter
  BY <1>1 DEF RouteInv
<1>4. is_playing' \/ pc'["sw"] \in {"sel_gst", "sel_list", "sel_on"} => Carried'
  BY <1>1, <1>2 DEF RouteInv, RouteSteps, Both
<1> QED
  BY <1>3, <1>4 DEF RouteInv

\* Every step of a viewer keeps what plays routed.
LEMMA RouteStep ==
  ASSUME ViewerCalls, NumSlots >= 4, TypeInv, ViewerInv, RouteInv, [Next]_vars
  PROVE  RouteInv'
<1>a. Both \subseteq Callers /\ "gui" \in Both /\ "sw" \in Both
  BY StepNames DEF Both
<1>b. PlaceInv /\ StopLockInv /\ WorkInv /\ PlayInv /\ ~NullDereference /\ ViewerInv'
  BY NeverNull, NextViewerInv DEF ViewerInv
<1>c. is_playing => current_service \in Services
  BY <1>b DEF PlayInv, TypeInv, ObjType
<1> USE DEF RouteSteps
\* What a worker or an exit changes, it changes while something plays.
<1>d. ASSUME is_playing, is_playing' = is_playing, UNCHANGED current_service,
             \/ filter' = filter
             \/ \E p \in {EIT, TOT, PAT} : filter' = Removed(filter, p)
             \/ \E e \in Entries : filter' = Added(filter, e)
      PROVE  RouteInv'
  BY <1>c, <1>d, TablesKeepCarried DEF RouteInv
<1>1. ASSUME NEW c \in Both, Exit(c) PROVE RouteInv'
  <2>1. pc[c] \in ExitSteps /\ UNCHANGED <<is_playing, current_service>>
    BY <1>1 DEF Exit, EpgExit, EpgJoin, PfExit, PfJoin, TimeExit, TimeJoin, At, ExitSteps, objVars
  <2>2. CASE is_playing
    BY <1>1, <1>d, <2>1, <2>2 DEF Exit, EpgExit, EpgJoin, PfExit, PfJoin, TimeExit, TimeJoin
  <2>3. CASE ~is_playing
    <3>1. ~EpgJoin(c) /\ ~PfJoin(c) /\ ~TimeJoin(c)
      BY <1>b, <2>3 DEF EpgJoin, PfJoin, TimeJoin, At, PlayInv, Joining, JoinStep, Workers
    <3>2. UNCHANGED filter
      BY <1>1, <3>1 DEF Exit, EpgExit, PfExit, TimeExit
    <3>3. PICK step \in ExitSteps \cup {"stop_gst", "sel_index"} : \E back : Moves(c, step, back)
      BY <1>1, <1>a, <1>b, <2>1, GotoMoves, ExitReturns
      DEF Exit, EpgExit, EpgJoin, PfExit, PfJoin, TimeExit, TimeJoin, ExitSteps
    <3> QED
      BY <2>1, <3>2, <3>3, MoveKeepsRoute DEF ExitSteps
  <2> QED
    BY <2>2, <2>3
<1>2. ASSUME NEW c \in Both, Stop(c) PROVE RouteInv'
  <2>1. pc[c] \in StopSteps /\ UNCHANGED current_service
    BY <1>2 DEF Stop, StopTest, StopLock, StopGst, StopClear, At, StopSteps, objVars
  <2>2. c = "gui" => pc["sw"] = "idle"
    BY <1>b, <2>1 DEF PlaceInv, EventSteps, StopSteps
  <2>3. CASE StopTest(c) \/ StopLock(c)
    <3>1. PICK step \in {"idle", "sel_check", "pf_start", "stop_lock", "epg_exit"} :
                 \E back : Moves(c, step, back)
      BY <1>a, <1>b, <2>1, <2>3, GotoMoves, CallMoves, OthersReturn DEF StopTest, StopLock
    <3> QED
      BY <2>1, <2>3, <3>1, MoveKeepsRoute DEF StopTest, StopLock, At, objVars
  <2>4. CASE StopGst(c)
    <3>1. pc'[c] = "stop_clear" /\ ~is_playing' /\ \A d \in Both : d # c => pc'[d] = pc[d]
      BY <1>a, <2>4, GotoMoves, MovedPc DEF StopGst
    <3>2. pc'["sw"] \notin {"sel_gst", "sel_list", "sel_on"}
      BY <1>a, <2>2, <3>1 DEF Both
    <3> QED
      BY <3>1, <3>2 DEF RouteInv
  <2>5. CASE StopClear(c)
    <3>1. filter' = EmptyFilter /\ UNCHANGED is_playing /\ ~is_playing
      BY <1>b, <2>5 DEF StopClear, At, objVars, PlayInv, PlayAt
    <3>2. PICK step \in {"idle", "sel_check", "pf_start"} : \E back : Moves(c, step, back)
      BY <1>b, <2>1, <2>5, OthersReturn DEF StopClear
    <3>3. pc'["sw"] \notin {"sel_gst", "sel_list", "sel_on"}
      BY <1>a, <2>2, <3>2, MovedPc DEF Both
    <3> QED
      BY <3>1, <3>3 DEF RouteInv
  <2> QED
    BY <1>2, <2>3, <2>4, <2>5 DEF Stop
<1>3. ASSUME NEW c \in Both, Event(c) PROVE RouteInv'
  <2>1. pc[c] \in EventSteps /\ UNCHANGED <<is_playing, current_service, filter>>
    BY <1>3 DEF Event, EventNone, EventUnlocks, EventLock, EventRead, At, EventSteps, objVars
  <2>2. PICK step \in {"idle", "sel_check", "pf_start", "ev_read"} : \E back : Moves(c, step, back)
    BY <1>3, <1>a, <1>b, <2>1, OthersReturn, GotoMoves
    DEF Event, EventNone, EventUnlocks, EventLock, EventRead
  <2> QED
    BY <2>1, <2>2, MoveKeepsRoute DEF EventSteps
<1>4. ASSUME Select \/ SelStop \/ SelCheck \/ SelIndex \/ SelNoPids \/ SelTune \/ PfStart \/ PfFlag
      PROVE  RouteInv'
  <2>1. pc["sw"] \notin RouteSteps
    BY <1>4 DEF Select, SelStop, SelCheck, SelIndex, SelNoPids, SelTune, PfStart, PfFlag, At
  <2>2. PICK step \in {"sel_stop", "stop", "sel_check", "event", "epg_exit", "sel_tune", "sel_add", "pf_flag",
                       "idle"} : \E back : Moves("sw", step, back)
    BY <1>4, <1>a, GotoMoves, CallMoves, CreateCases
    DEF Select, SelStop, SelCheck, SelIndex, SelNoPids, SelTune, PfStart, PfFlag, SelectEnd, Workers
  <2>3. CASE SelIndex \/ SelNoPids \/ SelTune
    <3>1. ~is_playing /\ UNCHANGED filter
      BY <1>a, <1>b, <2>3 DEF SelIndex, SelNoPids, SelTune, At, PlayInv, PlayAt, SelSteps
    <3>2. is_playing' = FALSE \/ is_playing' = is_playing
      BY <2>3 DEF SelIndex, SelNoPids, SelTune
    <3>3. is_playing' = is_playing
      BY <3>1, <3>2, Zenon DEF TypeInv, FlagType
    <3> QED
      BY <1>a, <2>1, <2>2, <3>1, <3>3, MoveKeepsRoute
  <2>4. CASE Select \/ SelStop \/ SelCheck \/ PfStart \/ PfFlag
    <3>1. UNCHANGED <<is_playing, current_service, filter>>
      BY <2>4 DEF Select, SelStop, SelCheck, PfStart, PfFlag, objVars
    <3> QED
      BY <1>a, <2>1, <2>2, <3>1, MoveKeepsRoute
  <2> QED
    BY <1>4, <2>3, <2>4
<1>5. CASE SelAdd
  <2>1. /\ ~is_playing /\ current_service \in Services /\ UNCHANGED <<is_playing, current_service>>
        /\ pc["sw"] = "sel_add"
    BY <1>5, <1>b, <1>a DEF SelAdd, At, PlayInv, PlayAt, SelSteps, TypeInv, ControlType, objVars
  <2>2. pc["gui"] \notin RouteSteps
    BY <1>b, <2>1 DEF PlaceInv, EventSteps
  <2>3. filter = EmptyFilter
    BY <2>1, <2>2 DEF RouteInv, Both
  <2>4. pc'["sw"] = "sel_gst"
    BY <1>5, <1>a, GotoMoves, MovedPc DEF SelAdd
  <2>5. /\ OwnPid("pmt") \in Entries /\ OwnPid("video") \in Entries /\ OwnPid("audio") \in Entries
        /\ Entry(PAT, "media") \in Entries
    BY <2>1, TablePids, PidsTyped DEF Buffers
  <2>6. \A kind \in {"video", "audio"} : \E i \in Slots : filter'[i] = OwnPid(kind)
    <3>1. filter' = Added(Added(Added(Added(EmptyFilter, OwnPid("pmt")), Entry(PAT, "media")),
                                OwnPid("video")), OwnPid("audio"))
      BY <1>5, <2>3 DEF SelAdd
    <3>2. \A e \in {OwnPid("pmt"), Entry(PAT, "media"), OwnPid("video"), OwnPid("audio")} :
            \E i \in Slots : filter'[i] = e
      BY <2>5, <3>1, FourFit
    <3> QED
      BY <3>2
  <2>7. \A kind \in {"video", "audio"} : Routed(filter', OwnPid(kind).pid, "media")
    BY <2>1, <2>6, TablePids DEF Routed
  <2>8. Carried'
    BY <2>1, <2>7 DEF Carried, OwnPid
  <2> QED
    BY <1>a, <2>4, <2>8 DEF RouteInv
<1>6. CASE SelList
  <2>1. Carried /\ current_service \in Services /\ UNCHANGED <<is_playing, current_service>>
    BY <1>6 DEF SelList, At, RouteInv, SelSteps, TypeInv, ControlType, objVars
  <2>2. pc'["sw"] = "sel_on"
    BY <1>6, <1>a, GotoMoves, MovedPc DEF SelList
  <2>a. PICK s \in Found : filter' = Removed(Removed(filter, Pid("pmt", s)), PAT)
    BY <1>6 DEF SelList
  <2>b. /\ Pid("pmt", s) \in Pids
        /\ \A t \in Services : Pid("pmt", s) \notin {Pid("video", t), Pid("audio", t)}
    BY <2>a, PidsTyped, FoundTyped DEF TypeInv, ObjType
  <2>3. FilterType(filter) /\ FilterType(Removed(filter, Pid("pmt", s))) /\ PAT \in Pids
    BY <2>b, RemovedSlot, PidsTyped DEF TypeInv
  <2>4. ASSUME NEW kind \in {"video", "audio"} PROVE Routed(filter', OwnPid(kind).pid, "media")
    <3>1. Routed(filter, OwnPid(kind).pid, "media") /\ "media" \in Buffers
      BY <2>1 DEF Carried, Buffers
    <3>2. /\ OwnPid(kind).pid \in Pids /\ OwnPid(kind).pid # PAT
          /\ OwnPid(kind).pid # Pid("pmt", s)
      BY <2>1, <2>b, TablePids DEF OwnPid, Entry
    <3>3. Routed(Removed(filter, Pid("pmt", s)), OwnPid(kind).pid, "media")
      BY <2>3, <2>b, <3>1, <3>2, RemovedKeepsRoutes
    <3> QED
      BY <2>a, <2>3, <3>1, <3>2, <3>3, RemovedKeepsRoutes
  <2>5. Carried'
    BY <2>1, <2>4 DEF Carried, OwnPid
  <2> QED
    BY <1>a, <2>2, <2>5 DEF RouteInv
<1>g. CASE SelGst
  <2>1. /\ current_service \in Services /\ UNCHANGED <<is_playing, current_service, filter>>
        /\ pc["sw"] = "sel_gst"
    BY <1>g DEF SelGst, At, SelSteps, TypeInv, ControlType
  <2>2. Carried
    BY <2>1 DEF RouteInv
  <2>3. pc'["sw"] = "sel_list"
    BY <1>g, <1>a, GotoMoves, MovedPc DEF SelGst
  <2>5. Carried'
    BY <2>1, <2>2 DEF Carried, OwnPid
  <2> QED
    BY <1>a, <2>3, <2>5 DEF RouteInv
<1>7. CASE SelGstFails
  <2>1. filter' = EmptyFilter /\ ~is_playing'
    BY <1>7 DEF SelGstFails
  <2>2. pc'["sw"] = "event"
    BY <1>7, <1>a, CallMoves, MovedPc DEF SelGstFails, SelectEnd
  <2> QED
    BY <2>1, <2>2 DEF RouteInv
<1>8. CASE SelOn
  <2>1. Carried /\ UNCHANGED <<current_service, filter>> /\ is_playing'
    BY <1>8 DEF SelOn, At, RouteInv
  <2>2. Carried'
    BY <2>1 DEF Carried, OwnPid
  <2> QED
    BY <2>1, <2>2 DEF RouteInv
<1>9. ASSUME Ticking \/ EventStart \/ ListLock \/ ListRead \/ EpgFlag \/ TimeFlag PROVE RouteInv'
  <2>1. PICK step \in {"stop", "epg_flag", "time_flag", "event", "list_read", "idle"} : \E back :
           Moves("gui", step, back)
    BY <1>9, <1>a, GotoMoves, CreateCases
    DEF Ticking, TickStop, TickEpg, TickTime, EventStart, ListLock, ListRead, EpgFlag, TimeFlag, Workers
  <2>2. pc["gui"] \notin RouteSteps /\ UNCHANGED <<is_playing, current_service, filter>>
    BY <1>9
    DEF Ticking, TickStop, TickEpg, TickTime, Tick, EventStart, ListLock, ListRead, EpgFlag, TimeFlag,
                At, objVars
  <2> QED
    BY <1>a, <2>1, <2>2, MoveKeepsRoute
<1>10. ASSUME NEW s \in Services \cup {NoService}, StartSelect(s) PROVE RouteInv'
  <2>1. /\ Moves("sw", "select", stack["sw"]) /\ pc["sw"] = "idle"
        /\ UNCHANGED <<is_playing, current_service, filter>>
    BY <1>10 DEF StartSelect, Moves, TypeInv, ControlType, StackType, objVars, At
  <2> QED
    BY <1>a, <2>1, MoveKeepsRoute
<1>11. ASSUME NEW g \in Threads,
              EpgMust(g) \/ PfMust(g) \/ TimeMust(g) \/ WorkerMay(g) \/ \E w \in Workers : Die(w, g)
       PROVE  RouteInv'
  <2>1. PICK w \in Workers, step \in WorkerSteps : wpc[w][g] \notin Ended /\ GotoW(w, g, step)
    BY <1>11
    DEF EpgMust, PfMust, TimeMust, WorkerMay, EpgParse, EpgLock, EpgSave, WorkerEnd, PfLoad, PfRelease,
        TimeSet, EpgLoad, EpgComplete, PfLock, PfComplete, TimeLoad, TimeComplete, Die, Cancellable,
        AtW, Ended, Workers, WorkerSteps
  <2>2. Runs(w)
    BY <1>b, <2>1 DEF WorkInv, Runs
  <2>3. is_playing
    BY <1>b, <2>2 DEF PlayInv
  <2>4. UNCHANGED <<is_playing, current_service>>
    BY <1>11
    DEF EpgMust, PfMust, TimeMust, WorkerMay, EpgParse, EpgLock, EpgSave, WorkerEnd, PfLoad, PfRelease,
        TimeSet, EpgLoad, EpgComplete, PfLock, PfComplete, TimeLoad, TimeComplete, Die, objVars
  <2>5. Entry(EIT, "time") \in Entries /\ Entry(EIT, "epg") \in Entries /\ Entry(TOT, "time") \in Entries
    BY PidsTyped DEF Buffers
  <2>6. \/ filter' = filter
        \/ \E p \in {EIT, TOT, PAT} : filter' = Removed(filter, p)
        \/ \E e \in Entries : filter' = Added(filter, e)
    BY <1>11, <2>5
    DEF EpgMust, PfMust, TimeMust, WorkerMay, EpgParse, EpgLock, EpgSave, WorkerEnd, PfLoad, PfRelease,
        TimeSet, EpgLoad, EpgComplete, PfLock, PfComplete, TimeLoad, TimeComplete, Die
  <2> QED
    BY <1>d, <2>3, <2>4, <2>6
<1>12. CASE UNCHANGED vars
  BY <1>12 DEF vars, objVars, RouteInv, Carried, OwnPid
<1> QED
  BY <1>1, <1>2, <1>3, <1>4, <1>5, <1>6, <1>7, <1>8, <1>9, <1>10, <1>11, <1>12, <1>g, <1>a, <1>b, NoOtherCalls
  DEF Next, Start, SwStep, GuiStep, Gui, Selecting, Both

LEMMA InitRouteInv == Init => RouteInv
  BY DEF Init, RouteInv, EmptyFilter, Callers

\* Under a viewer's calls, and with a slot for each PID of a service, what plays is what
\* is routed: no worker and no exit of one takes a stream of the service out of the filter.
THEOREM PlayingAlwaysRouted ==
  ASSUME ViewerCalls, NumSlots >= 4
  PROVE  Spec => []PlayingIsRouted
<1>1. TypeInv /\ ViewerInv /\ RouteInv => PlayingIsRouted
  BY DEF TypeInv, ObjType, ViewerInv, PlayInv, RouteInv, Carried, PlayingIsRouted
<1>2. TypeInv /\ ViewerInv /\ RouteInv /\ [Next]_vars => RouteInv'
  BY RouteStep
<1> QED
  BY <1>1, <1>2, InitRouteInv, ViewerAlways, PTL DEF Spec

\* Under a viewer's calls, the tuner is moved and a new service loaded with no worker left
\* and none of their PIDs in the filter.
THEOREM TunesInQuiet ==
  ASSUME ViewerCalls, NumSlots >= 4
  PROVE  Spec => []QuietAtTune
<1>1. ASSUME TypeInv, ViewerInv, RouteInv, At("sw", "sel_tune") \/ At("sw", "sel_add")
      PROVE  /\ \A w \in Workers : ~Alive(w)
             /\ \A b \in Buffers : ~Routed(filter, EIT, b) /\ ~Routed(filter, TOT, b)
  <2>1. ~is_playing /\ pc["gui"] \notin RouteSteps
    BY <1>1 DEF At, ViewerInv, PlayInv, PlayAt, PlaceInv, Both, SelSteps, EventSteps, RouteSteps
  <2>2. filter = EmptyFilter
    BY <1>1, <2>1 DEF RouteInv, RouteSteps, At, Both
  <2>3. \A i \in Slots, p \in Pids, b \in Buffers : filter[i] # Entry(p, b)
    BY <2>2, FreeAssumption, PidsTyped DEF EmptyFilter
  <2>4. \A w \in Workers : ~Alive(w)
    BY <1>1, <2>1 DEF ViewerInv, WorkInv, PlayInv, Runs, Alive
  <2> QED
    BY <2>3, <2>4, PidsTyped DEF Routed
<1>2. TypeInv /\ ViewerInv /\ RouteInv => QuietAtTune
  BY <1>1 DEF QuietAtTune
<1>3. TypeInv /\ ViewerInv /\ RouteInv /\ [Next]_vars => RouteInv'
  BY RouteStep
<1> QED
  BY <1>2, <1>3, InitRouteInv, ViewerAlways, PTL DEF Spec

-----------------------------------------------------------------------------
(* The locks, whatever is called *)

\* The process ended at a read through the service pointer.
Dead == \A c \in Callers : pc[c] = "dead"

\* Where the GUI thread is when every call is allowed; a manual scan starts with its thread idle.
GuiAnyPlace ==
  \/ /\ pc["gui"] \in {"idle", "list_read", "epg_flag", "time_flag", "force_off", "force_gst", "scan_spawn"}
                      \cup EventSteps \cup StopSteps
     /\ stack["gui"] = << >>
  \/ pc["gui"] \in ExitSteps /\ stack["gui"] \in {<<"stop_gst">>, <<"force_gst">>, <<"scan_spawn">>}
ScanWaits == pc["gui"] = "scan_spawn" \/ stack["gui"] = <<"scan_spawn">> => pc["scan"] = "idle"
AnyPlaceInv == SwPlace /\ GuiAnyPlace /\ ScanWaits

\* A caller that has a lock is inside the part of its call that the lock is for.
InStop(c) ==
  \/ pc[c] \in {"stop_gst", "stop_clear"}
  \/ pc[c] \in ExitSteps /\ stack[c] # << >> /\ Head(stack[c]) = "stop_gst"
NotSelecting == {"idle", "select", "pf_start", "pf_flag"} \cup EventSteps
Inside(m, c) ==
  \/ m = "stop_lock" /\ InStop(c)
  \/ m = "service_select_mutex" /\ c = "sw" /\ pc[c] \notin NotSelecting
  \/ m = "present_following_lock" /\ pc[c] = "ev_read"
  \/ m = "epg_schedule_lock" /\ pc[c] = "list_read"
CallerLocks == \A m \in Locks, c \in Callers : lock[m] = c => Inside(m, c)

\* A download that has a lock is at its save, or runs, or is about to be joined by an exit
\* that unlocks for it: a cancelled pf thread has a caller waiting for it.
PfCancelled ==
  \A g \in Threads : cancelled["pf"][g] /\ wpc["pf"][g] \notin Ended =>
                       \E c \in Callers : pc[c] = "pf_join" /\ joining[c] = g
WorkerLocks ==
  /\ \A m \in Locks, w \in Workers : lock[m] = w =>
       <<m, w>> \in {<<"present_following_lock", "pf">>, <<"epg_schedule_lock", "epg">>}
  /\ lock["present_following_lock"] = "pf" => Alive("pf") \/ \E c \in Callers : pc[c] = "pf_join"
  /\ lock["epg_schedule_lock"] = "epg" => \E g \in Threads : wpc["epg"][g] = "save"

LockInv == CallerLocks /\ PfCancelled /\ WorkerLocks

LEMMA HolderNames ==
  /\ NoOne \notin Callers \cup Workers /\ Callers \cap Workers = {}
  /\ \A c \in Callers, w \in Workers : c # w
  BY MarkersAssumption DEF Callers, Workers

\* A lock's step leaves the other locks alone.
LEMMA LockOne ==
  ASSUME TypeInv, NEW m \in Locks, NEW h, Lock(m, h)
  PROVE  lock'[m] = h /\ \A n \in Locks : n # m => lock'[n] = lock[n]
  BY DEF Lock, TypeInv, ObjType

\* The locks and the threads that can hold them.
LEMMA LockNames ==
  /\ {"service_select_mutex", "stop_lock", "present_following_lock", "epg_schedule_lock"} \subseteq Locks
  /\ NoOne \notin {"sw", "gui", "scan", "epg", "pf", "time"}
  /\ Both \subseteq Callers
  BY MarkersAssumption DEF Locks, Callers, Workers, Both

\* What a caller does to the threads never ends one that runs.
Handles(c) ==
  \/ UNCHANGED threadVars
  \/ \E w \in Workers : \/ Join(c, w) 
                        \/ Cancel(c, w) /\ (w = "pf" => pc'[c] = "pf_join")
                        \/ \E first \in WorkerSteps \ Ended : \E next : Create(c, w, first, next)

LEMMA HandlesThreads ==
  ASSUME TypeInv, NEW c \in Callers, Handles(c), pc[c] # "pf_join", OnlyMoves(c)
  PROVE  /\ \A w \in Workers, g \in Threads : wpc[w][g] \notin Ended => wpc'[w][g] = wpc[w][g]
         /\ PfCancelled => PfCancelled'
<1>a. PcType /\ RunType /\ "pf" \in Workers
  BY DEF TypeInv, ControlType, Workers
<1>b. \A d \in Callers : pc[d] = "pf_join" => pc'[d] = "pf_join" /\ d # c
  BY DEF OnlyMoves
<1>1. CASE UNCHANGED threadVars
  BY <1>1, <1>b DEF threadVars, runVars, PfCancelled
<1>2. ASSUME NEW w \in Workers, Join(c, w)
      PROVE  /\ \A v \in Workers, g \in Threads : wpc[v][g] \notin Ended => wpc'[v][g] = wpc[v][g]
             /\ PfCancelled => PfCancelled'
  <2>1. \A v \in Workers, g \in Threads : 
           wpc'[v][g] = wpc[v][g] \/ (wpc[v][g] \in Ended /\ wpc'[v][g] = "none")
    BY <1>2, <1>a DEF Join, RunType
  <2>2. UNCHANGED <<cancelled, joining>>
    BY <1>2 DEF Join
  <2> QED
    BY <1>a, <1>b, <2>1, <2>2 DEF PfCancelled, Ended
<1>3. ASSUME NEW w \in Workers, Cancel(c, w), w = "pf" => pc'[c] = "pf_join"
      PROVE  /\ \A v \in Workers, g \in Threads : wpc[v][g] \notin Ended => wpc'[v][g] = wpc[v][g]
             /\ PfCancelled => PfCancelled'
  <2>1. UNCHANGED wpc /\ joining'[c] = tid[w] /\ \A d \in Callers : d # c => joining'[d] = joining[d]
    BY <1>3, <1>a DEF Cancel, RunType
  <2>2. \A g \in Threads : cancelled'["pf"][g] = cancelled["pf"][g] \/ (w = "pf" /\ g = tid[w])
    BY <1>3, <1>a DEF Cancel, RunType
  <2>3. ASSUME PfCancelled, NEW g \in Threads, cancelled'["pf"][g], wpc'["pf"][g] \notin Ended
        PROVE  \E d \in Callers : pc'[d] = "pf_join" /\ joining'[d] = g
    <3>1. CASE w = "pf" /\ g = tid[w]
      BY <1>3, <2>1, <3>1
    <3>2. CASE cancelled["pf"][g]
      BY <1>b, <2>1, <2>3, <3>2 DEF PfCancelled
    <3> QED
      BY <2>2, <2>3, <3>1, <3>2
  <2> QED
    BY <2>1, <2>3 DEF PfCancelled
<1>4. ASSUME NEW w \in Workers, NEW first \in WorkerSteps \ Ended, NEW next, Create(c, w, first, next)
      PROVE  /\ \A v \in Workers, g \in Threads : wpc[v][g] \notin Ended => wpc'[v][g] = wpc[v][g]
             /\ PfCancelled => PfCancelled'
  <2>1. UNCHANGED joining
        /\ (UNCHANGED runVars \/ \E g \in Threads : wpc[w][g] \in Ended /\ Created(w, g, first))
    BY <1>4, CreateCases
  <2>2. CASE UNCHANGED runVars
    BY <1>b, <2>1, <2>2 DEF runVars, PfCancelled
  <2>3. ASSUME NEW h \in Threads, wpc[w][h] \in Ended, Created(w, h, first)
        PROVE  /\ \A v \in Workers, g \in Threads : wpc[v][g] \notin Ended => wpc'[v][g] = wpc[v][g]
               /\ PfCancelled => PfCancelled'
    <3>1. \A v \in Workers, g \in Threads : 
             \/ wpc'[v][g] = wpc[v][g] /\ cancelled'[v][g] = cancelled[v][g]
             \/ v = w /\ g = h /\ wpc[v][g] \in Ended /\ cancelled'[v][g] = FALSE
      BY <2>3, <1>a DEF Created, RunType
    <3> QED
      BY <1>a, <1>b, <2>1, <3>1 DEF PfCancelled
  <2> QED
    BY <2>1, <2>2, <2>3
<1> QED
  BY <1>1, <1>2, <1>3, <1>4 DEF Handles

\* A step of one caller: the locks it takes are those of the place it goes to.
LEMMA CallerKeepsLocks ==
  ASSUME TypeInv, LockInv, NEW c \in Callers, Handles(c), pc[c] # "pf_join", OnlyMoves(c),
         \A m \in Locks : \/ lock'[m] = NoOne
                          \/ lock'[m] = c /\ Inside(m, c)'
                          \/ lock'[m] = lock[m] /\ (Inside(m, c) => Inside(m, c)')
  PROVE  LockInv'
<1>a. NoOne \notin Callers \cup Workers /\ \A d \in Callers, w \in Workers : d # w
  BY HolderNames
<1>b. "pf" \in Workers /\ "epg" \in Workers
      /\ "present_following_lock" \in Locks /\ "epg_schedule_lock" \in Locks
  BY DEF Workers, Locks
<1>1. CallerLocks'
  <2> SUFFICES ASSUME NEW m \in Locks, NEW d \in Callers, lock'[m] = d PROVE Inside(m, d)'
    BY DEF CallerLocks
  <2>1. CASE d = c
    BY <1>a, <2>1 DEF LockInv, CallerLocks
  <2>2. CASE d # c
    <3>1. lock[m] = d
      BY <1>a, <2>2
    <3>2. Inside(m, d)
      BY <3>1 DEF LockInv, CallerLocks
    <3>3. pc'[d] = pc[d] /\ stack'[d] = stack[d]
      BY <2>2 DEF OnlyMoves
    <3> QED
      BY <3>2, <3>3 DEF Inside, InStop
  <2> QED
    BY <2>1, <2>2
<1>2. \A m \in Locks, w \in Workers : lock'[m] = w => lock[m] = w
  BY <1>a
<1>3. WorkerLocks'
  <2>1. \A w \in Workers, g \in Threads : wpc[w][g] \notin Ended => wpc'[w][g] = wpc[w][g]
    BY HandlesThreads
  <2>2. \A d \in Callers : pc[d] = "pf_join" => pc'[d] = "pf_join"
    BY DEF OnlyMoves
  <2>3. Alive("pf") => Alive("pf")'
    BY <1>b, <2>1 DEF Alive
  <2>4. \A g \in Threads : wpc["epg"][g] = "save" => wpc'["epg"][g] = "save"
    BY <1>b, <2>1 DEF Ended
  <2> QED
    BY <1>b, <1>2, <2>2, <2>3, <2>4 DEF LockInv, WorkerLocks
<1> QED
  BY <1>1, <1>3, HandlesThreads DEF LockInv

\* The dead make no step.
LEMMA DeadStays == TypeInv /\ Dead /\ [Next]_vars => Dead'
<1> SUFFICES ASSUME TypeInv, Dead, [Next]_vars PROVE Dead'
  OBVIOUS
<1>1. \A c \in Callers : ~ ExitsOf(c)
  BY
  DEF Dead, At, ExitsOf, Exit, EpgExit, EpgJoin, PfExit, PfJoin, TimeExit, TimeJoin, Stop, StopTest,
      StopLock, StopGst, StopClear, Event, EventNone, EventUnlocks, EventLock, EventRead
<1>2. ~ Selecting /\ \A s \in Services \cup {NoService} : ~ StartSelect(s)
  BY
  DEF Dead, At, Callers, StartSelect, Selecting, Select, SelStop, SelCheck, SelIndex, SelNoPids,
      SelTune, SelAdd, SelGst, SelList, SelGstFails, SelOn, PfStart, PfFlag
<1>3. ~ GuiOnly /\ ~ ScanSpawn /\ ~ Scanning
  BY
  DEF Dead, At, Callers, GuiOnly, ForceStart, EventStart, ListLock, ScanStart, Ticking, TickStop,
      TickEpg, TickTime, Tick, EpgFlag, TimeFlag, ListRead, ForceOff, ForceGst, ScanSpawn, Scanning,
      Scan, ScanCheck, ScanOn, ScanTune
<1>4. (\E g \in Threads : WorkerStep(g)) \/ UNCHANGED vars => Dead'
  BY WorkersMoveNone DEF Dead, vars
<1>5. NullDereference => Dead'
  BY DEF NullDereference, Dead
<1> QED
  BY <1>1, <1>2, <1>3, <1>4, <1>5, NextCases

LEMMA OneWord == \A b \in Backs : <<b>> \o << >> = <<b>>
  BY ConcatEmptySeq

\* Nor does where the GUI thread is depend on the others.
GuiWaits == pc["gui"] = "scan_spawn" \/ stack["gui"] = <<"scan_spawn">>

LEMMA GuiGoes ==
  ASSUME TypeInv, GuiAnyPlace, ExitsOf("gui") \/ GuiOnly
  PROVE  GuiAnyPlace' /\ (GuiWaits' => GuiWaits \/ pc["scan"] = "idle")
<1> USE DEF Callers
<1>0. \A step, back : Moves("gui", step, back) => pc'["gui"] = step /\ stack'["gui"] = back
  BY MovedPc, MovedStack
<1>w. \A a, b \in {"stop_gst", "force_gst", "scan_spawn"} : a # b => <<a>> # <<b>>
  OBVIOUS
<1>1. CASE Exit("gui")
  <2>1. pc["gui"] \in ExitSteps /\ stack["gui"] \in {<<"stop_gst">>, <<"force_gst">>, <<"scan_spawn">>}
    BY <1>1 DEF GuiAnyPlace, Exit, EpgExit, EpgJoin, PfExit, PfJoin, TimeExit, TimeJoin, At,
                ExitSteps, StopSteps, EventSteps
  <2>2. \/ \E step \in ExitSteps : Moves("gui", step, stack["gui"])
        \/ \E b \in {"stop_gst", "force_gst", "scan_spawn"} : stack["gui"] = <<b>> /\ Moves("gui", b, << >>)
    BY <1>1, <2>1, StackWords, GotoMoves, ReturnMoves
    DEF Exit, EpgExit, EpgJoin, PfExit, PfJoin, TimeExit, TimeJoin, ExitSteps, Backs
  <2> QED
    BY <1>0, <2>1, <2>2 DEF GuiAnyPlace, GuiWaits, StopSteps, ExitSteps
<1>2. CASE Stop("gui")
  <2>1. stack["gui"] = << >>
    BY <1>2 DEF GuiAnyPlace, Stop, StopTest, StopLock, StopGst, StopClear, At, ExitSteps
  <2>2. \/ \E step \in {"idle"} \cup StopSteps : Moves("gui", step, << >>)
        \/ Moves("gui", "epg_exit", <<"stop_gst">>)
    <3>1. <<"stop_gst">> \o << >> = <<"stop_gst">>
      BY StackWords
    <3>2. CASE StopTest("gui") \/ StopGst("gui") \/ StopClear("gui")
      BY <2>1, <3>1, <3>2, GotoMoves, ReturnMoves DEF StopTest, StopGst, StopClear, StopSteps
    <3>3. CASE StopLock("gui")
      BY <2>1, <3>1, <3>3, CallMoves, ReturnMoves DEF StopLock
    <3> QED
      BY <1>2, <3>2, <3>3 DEF Stop
  <2> QED
    BY <1>0, <1>w, <2>2 DEF GuiAnyPlace, GuiWaits, ExitSteps, StopSteps
<1>3. CASE Event("gui")
  <2>1. stack["gui"] = << >>
    BY <1>3 DEF GuiAnyPlace, Event, EventNone, EventUnlocks, EventLock, EventRead, At, ExitSteps
  <2>2. \E step \in {"idle", "ev_read"} : Moves("gui", step, << >>)
    BY <1>3, <2>1, GotoMoves, ReturnMoves DEF Event, EventNone, EventUnlocks, EventLock, EventRead
  <2> QED
    BY <1>0, <2>2 DEF GuiAnyPlace, GuiWaits, EventSteps
<1>4. CASE GuiOnly
  <2>1. stack["gui"] = << >>
    BY <1>4
    DEF GuiAnyPlace, GuiOnly, ForceStart, EventStart, ListLock, ScanStart, Ticking, TickStop, TickEpg,
        TickTime, Tick, EpgFlag, TimeFlag, ListRead, ForceOff, ForceGst, At, ExitSteps
  <2>2. CASE ScanStart
    <3>1. Moves("gui", "time_exit", <<"scan_spawn">>) /\ pc["scan"] = "idle"
      BY <2>1, <2>2, OneWord, CallMoves DEF ScanStart, At, Backs
    <3> QED
      BY <1>0, <3>1 DEF GuiAnyPlace, GuiWaits, ExitSteps
  <2>3. CASE ForceOff
    <3>1. Moves("gui", "epg_exit", <<"force_gst">>)
      BY <2>1, <2>3, OneWord, CallMoves DEF ForceOff, Backs
    <3> QED
      BY <1>0, <1>w, <3>1 DEF GuiAnyPlace, GuiWaits, ExitSteps
  <2>4. CASE ~ScanStart /\ ~ForceOff
    <3>1. TickEpg \/ TickTime => Goto("gui", "epg_flag") \/ Goto("gui", "time_flag")
      BY CreateCases DEF TickEpg, TickTime, Workers
    <3>2. \E step \in {"idle", "list_read", "epg_flag", "time_flag", "force_off", "event", "stop"} :
             Moves("gui", step, << >>)
      BY <1>4, <2>1, <2>4, <3>1, GotoMoves, ReturnMoves
      DEF GuiOnly, ForceStart, EventStart, ListLock, Ticking, TickStop, EpgFlag, TimeFlag, ListRead,
          ForceGst
    <3> QED
      BY <1>0, <3>2 DEF GuiAnyPlace, GuiWaits, EventSteps, StopSteps
  <2> QED
    BY <2>2, <2>3, <2>4
<1> QED
  BY <1>1, <1>2, <1>3, <1>4 DEF ExitsOf

LEMMA AnyPlaceStep ==
  ASSUME TypeInv, AnyPlaceInv, [Next]_vars, ~NullDereference
  PROVE  AnyPlaceInv'
<1> USE DEF Callers
<1>1. ASSUME ExitsOf("sw") \/ Selecting \/ \E s \in Services \cup {NoService} : StartSelect(s)
      PROVE  AnyPlaceInv'
  <2>1. OnlyMoves("sw")
    BY <1>1, WhoMoves
  <2> QED
    BY <1>1, <2>1, SwGoes DEF AnyPlaceInv, GuiAnyPlace, ScanWaits, OnlyMoves
<1>2. ASSUME ExitsOf("gui") \/ GuiOnly PROVE AnyPlaceInv'
  <2>1. OnlyMoves("gui")
    BY <1>2, WhoMoves
  <2> QED
    BY <1>2, <2>1, GuiGoes DEF AnyPlaceInv, SwPlace, ScanWaits, GuiWaits, OnlyMoves
<1>3. ASSUME ExitsOf("scan") \/ Scanning PROVE AnyPlaceInv'
  <2>1. OnlyMoves("scan")
    BY <1>3, WhoMoves
  <2>2. pc["scan"] # "idle"
    BY <1>3
    DEF ExitsOf, Exit, EpgExit, EpgJoin, PfExit, PfJoin, TimeExit, TimeJoin, Stop, StopTest, StopLock,
        StopGst, StopClear, Event, EventNone, EventUnlocks, EventLock, EventRead, Scanning, Scan,
        ScanCheck, ScanOn, ScanTune, At
  <2> QED
    BY <2>1, <2>2 DEF AnyPlaceInv, SwPlace, GuiAnyPlace, ScanWaits, OnlyMoves
<1>4. CASE ScanSpawn
  <2>1. /\ pc'["sw"] = pc["sw"] /\ pc'["gui"] = "idle" /\ UNCHANGED stack
        /\ pc["gui"] = "scan_spawn"
    BY <1>4 DEF ScanSpawn, At, TypeInv, ControlType, PcType
  <2>2. stack["gui"] = << >>
    BY <2>1 DEF AnyPlaceInv, GuiAnyPlace, ExitSteps
  <2>3. stack'["gui"] # <<"scan_spawn">>
    BY <2>1, <2>2, StackWords DEF Backs
  <2> QED
    BY <2>1, <2>2, <2>3 DEF AnyPlaceInv, SwPlace, GuiAnyPlace, ScanWaits
<1>5. ASSUME (\E g \in Threads : WorkerStep(g)) \/ UNCHANGED vars PROVE AnyPlaceInv'
  <2>1. UNCHANGED <<pc, stack>>
    BY <1>5, WorkersMoveNone DEF vars
  <2> QED
    BY <2>1 DEF AnyPlaceInv, SwPlace, GuiAnyPlace, ScanWaits
<1> QED
  BY <1>1, <1>2, <1>3, <1>4, <1>5, NextCases

\* Exits and stops, whoever is inside them.
LEMMA ExitsKeepLocks ==
  ASSUME TypeInv, AnyPlaceInv, LockInv, NEW c \in Callers, Exit(c), pc[c] # "pf_join"
  PROVE  LockInv'
<1>0. /\ OnlyMoves(c) /\ pc[c] \in ExitSteps
      /\ \A step, back : Moves(c, step, back) => pc'[c] = step /\ stack'[c] = back
  BY WhoMoves, MovedPc, MovedStack
  DEF ExitsOf, Exit, EpgExit, EpgJoin, PfExit, PfJoin, TimeExit, TimeJoin, At, ExitSteps
<1>1. UNCHANGED lock
  BY DEF Exit, EpgExit, EpgJoin, PfExit, PfJoin, TimeExit, TimeJoin, At
<1>2. \/ pc'[c] \in ExitSteps /\ stack'[c] = stack[c]
      \/ stack[c] = << >> /\ pc'[c] = "idle"
      \/ stack[c] # << >> /\ pc'[c] = Head(stack[c])
  BY <1>0, GotoMoves, ReturnMoves
  DEF Exit, EpgExit, EpgJoin, PfExit, PfJoin, TimeExit, TimeJoin, ExitSteps
<1>3. c = "sw" => pc'[c] \notin NotSelecting
  <2> SUFFICES ASSUME c = "sw" PROVE pc'[c] \notin NotSelecting
    OBVIOUS
  <2>1. stack[c] \in {<<"stop_gst", "sel_check">>, <<"sel_index">>}
    BY <1>0 DEF AnyPlaceInv, SwPlace, ExitSteps, StopSteps, EventSteps, SelSteps
  <2>2. stack[c] # << >> /\ Head(stack[c]) \in {"stop_gst", "sel_index"}
    BY <2>1, StackWords DEF Backs
  <2> QED
    BY <1>2, <2>2 DEF NotSelecting, ExitSteps, EventSteps
<1>4. \A m \in Locks : Inside(m, c) => Inside(m, c)'
  BY <1>0, <1>2, <1>3 DEF Inside, InStop, ExitSteps
<1>5. Handles(c)
  <2>1. PfExit(c) => UNCHANGED threadVars \/ (Cancel(c, "pf") /\ pc'[c] = "pf_join")
    BY <1>0, GotoMoves DEF PfExit
  <2> QED
    BY <2>1
    DEF Exit, EpgExit, EpgJoin, PfExit, PfJoin, TimeExit, TimeJoin, At, Handles, Workers
<1> QED
  BY <1>0, <1>1, <1>4, <1>5, CallerKeepsLocks

\* The exit of a download unlocks present_following_lock, and the thread it joins is the one
\* it cancelled.
LEMMA PfJoinKeepsLocks ==
  ASSUME TypeInv, AnyPlaceInv, LockInv, NEW c \in Callers, Exit(c), pc[c] = "pf_join"
  PROVE  LockInv'
<1>0. PfJoin(c) /\ OnlyMoves(c) /\ Goto(c, "time_exit") /\ pc'[c] = "time_exit" /\ stack'[c] = stack[c]
  <2>1. PfJoin(c)
    BY DEF Exit, EpgExit, EpgJoin, PfExit, TimeExit, TimeJoin, At
  <2>2. OnlyMoves(c)
    BY WhoMoves DEF ExitsOf
  <2>3. Goto(c, "time_exit")
    BY <2>1 DEF PfJoin
  <2>4. Moves(c, "time_exit", stack[c])
    BY <2>3, GotoMoves
  <2> QED
    BY <2>1, <2>2, <2>3, <2>4, MovedPc, MovedStack
<1>1. /\ lock'["present_following_lock"] = NoOne
      /\ \A m \in Locks : m # "present_following_lock" => lock'[m] = lock[m]
      /\ "present_following_lock" \in Locks /\ "epg_schedule_lock" \in Locks
      /\ NoOne \notin Callers \cup Workers /\ "pf" \in Workers /\ "epg" \in Workers
  BY <1>0, LockOne, LockNames, HolderNames DEF PfJoin, Workers
<1>2. /\ \A w \in Workers, g \in Threads : w # "pf" => wpc'[w][g] = wpc[w][g]
      /\ \A g \in Threads : wpc'["pf"][g] = wpc["pf"][g] \/ wpc'["pf"][g] = "none"
      /\ wpc["pf"][joining[c]] \in Ended /\ wpc'["pf"][joining[c]] \in Ended
      /\ UNCHANGED <<cancelled, joining>>
  <2>1. /\ wpc["pf"][joining[c]] \in Ended
        /\ wpc' = [wpc EXCEPT !["pf"][joining[c]] = "none"]
        /\ UNCHANGED <<cancelled, joining>>
    BY <1>0 DEF PfJoin, Join
  <2>2. joining[c] \in Threads /\ wpc \in [Workers -> [Threads -> WorkerSteps]]
    BY DEF TypeInv, RunType
  <2>3. \A w \in Workers, g \in Threads :
           wpc'[w][g] = IF w = "pf" /\ g = joining[c] THEN "none" ELSE wpc[w][g]
    BY <1>1, <2>1, <2>2
  <2>4. wpc'["pf"][joining[c]] = "none"
    BY <1>1, <2>2, <2>3
  <2> QED
    BY <1>1, <2>1, <2>3, <2>4 DEF Ended
<1>3. CallerLocks'
  <2> SUFFICES ASSUME NEW m \in Locks, NEW d \in Callers, lock'[m] = d PROVE Inside(m, d)'
    BY DEF CallerLocks
  <2>1. m # "present_following_lock" /\ lock[m] = d /\ Inside(m, d)
    BY <1>1 DEF LockInv, CallerLocks
  <2>2. CASE d # c
    BY <1>0, <2>1, <2>2 DEF OnlyMoves, Inside, InStop
  <2>3. CASE d = c
    BY <1>0, <2>1, <2>3 DEF Inside, InStop, NotSelecting, EventSteps, ExitSteps
  <2> QED
    BY <2>2, <2>3
<1>4. PfCancelled'
  <2> SUFFICES ASSUME NEW g \in Threads, cancelled'["pf"][g], wpc'["pf"][g] \notin Ended
               PROVE  \E d \in Callers : pc'[d] = "pf_join" /\ joining'[d] = g
    BY DEF PfCancelled
  <2>1. wpc["pf"][g] \notin Ended /\ cancelled["pf"][g]
    BY <1>2 DEF Ended
  <2>2. PICK d \in Callers : pc[d] = "pf_join" /\ joining[d] = g
    BY <2>1 DEF LockInv, PfCancelled
  <2>3. d # c
    BY <1>2, <2>2
  <2> QED
    BY <1>0, <1>2, <2>2, <2>3 DEF OnlyMoves
<1>5. WorkerLocks'
  <2>1. \A m \in Locks, w \in Workers : lock'[m] = w => lock[m] = w
    BY <1>1
  <2>2. \A g \in Threads : wpc["epg"][g] = "save" => wpc'["epg"][g] = "save"
    BY <1>1, <1>2
  <2>3. lock'["present_following_lock"] # "pf" /\ lock'["epg_schedule_lock"] = lock["epg_schedule_lock"]
    BY <1>1
  <2> QED
    BY <2>1, <2>2, <2>3 DEF LockInv, WorkerLocks
<1> QED
  BY <1>3, <1>4, <1>5 DEF LockInv

LEMMA StopsKeepLocks ==
  ASSUME TypeInv, AnyPlaceInv, LockInv, NEW c \in Callers, Stop(c)
  PROVE  LockInv'
<1>0. /\ OnlyMoves(c) /\ pc[c] \in StopSteps /\ pc[c] # "pf_join"
      /\ \A step, back : Moves(c, step, back) => pc'[c] = step /\ stack'[c] = back
  BY WhoMoves, MovedPc, MovedStack
  DEF ExitsOf, Stop, StopTest, StopLock, StopGst, StopClear, At, StopSteps
<1>1. /\ "stop_lock" \in Locks
      /\ \A h : Lock("stop_lock", h) =>
           lock'["stop_lock"] = h /\ \A m \in Locks : m # "stop_lock" => lock'[m] = lock[m]
  BY LockOne, LockNames
<1>2. Handles(c)
  BY DEF Stop, StopTest, StopLock, StopGst, StopClear, Handles
<1>3. Return(c) => \/ stack[c] = << >> /\ pc'[c] = "idle"
                   \/ stack[c] # << >> /\ pc'[c] = Head(stack[c])
  BY <1>0, ReturnMoves
<1>4. c = "sw" => pc'[c] \notin NotSelecting
  <2> SUFFICES ASSUME c = "sw" PROVE pc'[c] \notin NotSelecting
    OBVIOUS
  <2>1. stack[c] = <<"sel_check">>
    BY <1>0 DEF AnyPlaceInv, SwPlace, ExitSteps, StopSteps, EventSteps, SelSteps
  <2>2. stack[c] # << >> /\ Head(stack[c]) = "sel_check"
    BY <2>1, StackWords DEF Backs
  <2>3. pc'[c] \in {"sel_check", "stop_lock", "stop_clear", "epg_exit"}
    BY <1>0, <1>3, <2>2, GotoMoves, CallMoves DEF Stop, StopTest, StopLock, StopGst, StopClear
  <2> QED
    BY <2>3 DEF NotSelecting, EventSteps
<1>5. \A m \in Locks : m # "stop_lock" /\ Inside(m, c) => Inside(m, c)'
  BY <1>0, <1>4 DEF Inside, StopSteps
<1>6. CASE StopTest(c)
  BY <1>0, <1>2, <1>5, <1>6, CallerKeepsLocks DEF StopTest, At, Inside, InStop, ExitSteps
<1>7. CASE StopLock(c)
  <2>1. CASE lock["stop_lock"] = NoOne
    <3>1. pc'[c] = "epg_exit" /\ stack'[c] = <<"stop_gst">> \o stack[c]
      BY <1>0, <1>7, <2>1, CallMoves DEF StopLock
    <3>2. stack[c] \in Seq(Backs) /\ "stop_gst" \in Backs
      BY DEF TypeInv, ControlType, StackType, Backs
    <3>3. stack'[c] # << >> /\ Head(stack'[c]) = "stop_gst"
      BY <3>1, <3>2, PushedStep
    <3>4. Inside("stop_lock", c)'
      BY <3>1, <3>3 DEF Inside, InStop, ExitSteps
    <3>5. lock'["stop_lock"] = c /\ \A m \in Locks : m # "stop_lock" => lock'[m] = lock[m]
      BY <1>1, <1>7, <2>1 DEF StopLock
    <3> QED
      BY <1>0, <1>2, <1>5, <3>4, <3>5, CallerKeepsLocks
  <2>2. CASE lock["stop_lock"] # NoOne
    <3>1. UNCHANGED lock /\ pc[c] = "stop_lock"
      BY <1>7, <2>2 DEF StopLock, At
    <3> QED
      BY <1>0, <1>2, <1>5, <3>1, CallerKeepsLocks DEF Inside, InStop, ExitSteps
  <2> QED
    BY <2>1, <2>2
<1>8. CASE StopGst(c)
  <2>1. UNCHANGED lock /\ pc'[c] = "stop_clear"
    BY <1>0, <1>8, GotoMoves DEF StopGst
  <2>2. Inside("stop_lock", c)'
    BY <2>1 DEF Inside, InStop
  <2> QED
    BY <1>0, <1>2, <1>5, <2>1, <2>2, CallerKeepsLocks
<1>9. CASE StopClear(c)
  <2>1. lock'["stop_lock"] = NoOne /\ \A m \in Locks : m # "stop_lock" => lock'[m] = lock[m]
    BY <1>1, <1>9 DEF StopClear
  <2> QED
    BY <1>0, <1>2, <1>5, <2>1, CallerKeepsLocks
<1> QED
  BY <1>6, <1>7, <1>8, <1>9 DEF Stop

LEMMA EventsKeepLocks ==
  ASSUME TypeInv, LockInv, NEW c \in Callers, Event(c)
  PROVE  LockInv'
<1>0. OnlyMoves(c) /\ pc[c] \in EventSteps /\ pc[c] # "pf_join" /\ Handles(c)
  BY WhoMoves
  DEF ExitsOf, Event, EventNone, EventUnlocks, EventLock, EventRead, At, EventSteps, Handles
<1>1. /\ "present_following_lock" \in Locks
      /\ \A h : Lock("present_following_lock", h) =>
           /\ lock'["present_following_lock"] = h
           /\ \A m \in Locks : m # "present_following_lock" => lock'[m] = lock[m]
  BY LockOne, LockNames
<1>2. \A m \in Locks : m # "present_following_lock" => ~ Inside(m, c)
  BY <1>0 DEF Inside, InStop, NotSelecting, EventSteps, ExitSteps
<1>3. CASE EventNone(c)
  <2>1. UNCHANGED lock /\ pc[c] = "event"
    BY <1>3 DEF EventNone, At
  <2>2. \A m \in Locks : ~ Inside(m, c)
    BY <1>2, <2>1 DEF Inside
  <2> QED
    BY <1>0, <2>1, <2>2, CallerKeepsLocks
<1>4. CASE EventUnlocks(c) \/ EventRead(c)
  <2>1. lock'["present_following_lock"] = NoOne
        /\ \A m \in Locks : m # "present_following_lock" => lock'[m] = lock[m]
    BY <1>1, <1>4 DEF EventUnlocks, EventRead
  <2> QED
    BY <1>0, <1>2, <2>1, CallerKeepsLocks
<1>5. CASE EventLock(c)
  <2>1. lock'["present_following_lock"] = c
        /\ \A m \in Locks : m # "present_following_lock" => lock'[m] = lock[m]
    BY <1>1, <1>5 DEF EventLock
  <2>2. Inside("present_following_lock", c)'
    BY <1>5, GotoMoves, MovedPc DEF EventLock, Inside
  <2> QED
    BY <1>0, <1>2, <2>1, <2>2, CallerKeepsLocks
<1> QED
  BY <1>3, <1>4, <1>5 DEF Event

LEMMA SelectsKeepLocks ==
  ASSUME TypeInv, AnyPlaceInv, LockInv,
         Selecting \/ \E s \in Services \cup {NoService} : StartSelect(s)
  PROVE  LockInv'
<1>0. /\ "sw" \in Callers /\ OnlyMoves("sw")
      /\ \A step, back : Moves("sw", step, back) => pc'["sw"] = step /\ stack'["sw"] = back
  BY WhoMoves, MovedPc, MovedStack DEF Callers
<1>1. pc["sw"] \in {"idle", "select", "sel_stop", "sel_check", "sel_index", "pf_start", "pf_flag"} \cup SelSteps
  BY
  DEF StartSelect, Selecting, Select, SelStop, SelCheck, SelIndex, SelNoPids, SelTune, SelAdd, SelGst, SelList,
      SelGstFails, SelOn, PfStart, PfFlag, At, SelSteps
<1>2. /\ pc["sw"] # "pf_join"
      /\ \A m \in Locks : m # "service_select_mutex" => ~ Inside(m, "sw")
  BY <1>1 DEF Inside, InStop, SelSteps, ExitSteps
<1>3. Handles("sw")
  <2>1. PfStart => Handles("sw")
    BY DEF PfStart, Handles, Workers, WorkerSteps, Ended
  <2> QED
    BY <2>1
    DEF StartSelect, Selecting, Select, SelStop, SelCheck, SelIndex, SelNoPids, SelTune, SelAdd,
        SelGst, SelList, SelGstFails, SelOn, PfFlag, Handles, threadVars
<1>4. /\ "service_select_mutex" \in Locks
      /\ \A h : Lock("service_select_mutex", h) =>
           /\ lock'["service_select_mutex"] = h
           /\ \A m \in Locks : m # "service_select_mutex" => lock'[m] = lock[m]
  BY LockOne, LockNames
<1>5. CASE Select
  <2>1. lock'["service_select_mutex"] = "sw"
        /\ \A m \in Locks : m # "service_select_mutex" => lock'[m] = lock[m]
    BY <1>4, <1>5 DEF Select
  <2>2. Inside("service_select_mutex", "sw")'
    BY <1>0, <1>5, GotoMoves DEF Select, Inside, NotSelecting, EventSteps
  <2> QED
    BY <1>0, <1>2, <1>3, <2>1, <2>2, CallerKeepsLocks
<1>6. ASSUME NEW ok, SelectEnd(ok) PROVE LockInv'
  <2>1. lock'["service_select_mutex"] = NoOne
        /\ \A m \in Locks : m # "service_select_mutex" => lock'[m] = lock[m]
    BY <1>4, <1>6 DEF SelectEnd
  <2> QED
    BY <1>0, <1>2, <1>3, <2>1, CallerKeepsLocks
<1>7. ASSUME ~Select, \A ok : ~SelectEnd(ok) PROVE LockInv'
  <2>1. UNCHANGED lock
    BY <1>7
    DEF StartSelect, Selecting, SelStop, SelCheck, SelIndex, SelNoPids, SelTune, SelAdd, SelGst, SelList,
        SelGstFails, SelOn, PfStart, PfFlag
  <2>2. \/ pc["sw"] \in NotSelecting
        \/ pc'["sw"] \in {"stop", "sel_check", "epg_exit"} \cup SelSteps
    <3>1. \/ pc["sw"] \in NotSelecting
          \/ \E step \in {"stop", "sel_check", "epg_exit"} \cup SelSteps : \E back : Moves("sw", step, back)
      BY <1>0, <1>7, GotoMoves, CallMoves
      DEF StartSelect, Selecting, SelStop, SelCheck, SelIndex, SelNoPids, SelTune, SelAdd, SelGst, SelList,
          SelGstFails, SelOn, PfStart, PfFlag, At, SelSteps, NotSelecting
    <3> QED
      BY <1>0, <3>1
  <2>3. Inside("service_select_mutex", "sw") => Inside("service_select_mutex", "sw")'
    BY <2>2 DEF Inside, NotSelecting, EventSteps, SelSteps
  <2> QED
    BY <1>0, <1>2, <1>3, <2>1, <2>3, CallerKeepsLocks
<1> QED
  BY <1>5, <1>6, <1>7

LEMMA GuiKeepsLocks ==
  ASSUME TypeInv, LockInv, GuiOnly
  PROVE  LockInv'
<1>0. /\ "gui" \in Callers /\ OnlyMoves("gui")
      /\ \A step, back : Moves("gui", step, back) => pc'["gui"] = step /\ stack'["gui"] = back
  BY WhoMoves, MovedPc, MovedStack DEF Callers
<1>1. pc["gui"] \in {"idle", "epg_flag", "time_flag", "list_read", "force_off", "force_gst"}
  BY
  DEF GuiOnly, ForceStart, EventStart, ListLock, ScanStart, Ticking, TickStop, TickEpg, TickTime,
      Tick, EpgFlag, TimeFlag, ListRead, ForceOff, ForceGst, At
<1>2. /\ pc["gui"] # "pf_join"
      /\ \A m \in Locks : m # "epg_schedule_lock" \/ pc["gui"] # "list_read" => ~ Inside(m, "gui")
  BY <1>1 DEF Inside, InStop, ExitSteps
<1>3. Handles("gui")
  <2>1. TickEpg \/ TickTime => Handles("gui")
    BY DEF TickEpg, TickTime, Handles, Workers, WorkerSteps, Ended
  <2> QED
    BY <2>1
    DEF GuiOnly, ForceStart, EventStart, ListLock, ScanStart, Ticking, TickStop, EpgFlag, TimeFlag,
        ListRead, ForceOff, ForceGst, Handles
<1>4. /\ "epg_schedule_lock" \in Locks
      /\ \A h : Lock("epg_schedule_lock", h) =>
           /\ lock'["epg_schedule_lock"] = h
           /\ \A m \in Locks : m # "epg_schedule_lock" => lock'[m] = lock[m]
  BY LockOne, LockNames
<1>5. CASE ListLock
  <2>1. lock'["epg_schedule_lock"] = "gui"
        /\ \A m \in Locks : m # "epg_schedule_lock" => lock'[m] = lock[m]
    BY <1>4, <1>5 DEF ListLock
  <2>2. Inside("epg_schedule_lock", "gui")'
    BY <1>0, <1>5, GotoMoves DEF ListLock, Inside
  <2> QED
    BY <1>0, <1>2, <1>3, <2>1, <2>2, CallerKeepsLocks
<1>6. CASE ListRead
  <2>1. lock'["epg_schedule_lock"] = NoOne
        /\ \A m \in Locks : m # "epg_schedule_lock" => lock'[m] = lock[m]
    BY <1>4, <1>6 DEF ListRead
  <2> QED
    BY <1>0, <1>2, <1>3, <2>1, CallerKeepsLocks
<1>7. CASE ~ListLock /\ ~ListRead
  <2>1. UNCHANGED lock /\ pc["gui"] # "list_read"
    BY <1>7
    DEF GuiOnly, ForceStart, EventStart, ScanStart, Ticking, TickStop, TickEpg, TickTime, Tick, EpgFlag,
        TimeFlag, ForceOff, ForceGst, At
  <2> QED
    BY <1>0, <1>2, <1>3, <2>1, CallerKeepsLocks
<1> QED
  BY <1>5, <1>6, <1>7

LEMMA ScansKeepLocks ==
  ASSUME TypeInv, AnyPlaceInv, LockInv, Scanning \/ ScanSpawn
  PROVE  LockInv'
<1>1. CASE Scanning
  <2>1. "scan" \in Callers /\ OnlyMoves("scan") /\ UNCHANGED lock /\ Handles("scan")
    BY <1>1, WhoMoves DEF Callers, Scanning, Scan, ScanCheck, ScanOn, ScanTune, Handles
  <2>2. pc["scan"] \in {"scan", "scan_check", "scan_on", "scan_tune"}
    BY <1>1 DEF Scanning, Scan, ScanCheck, ScanOn, ScanTune, At
  <2>3. pc["scan"] # "pf_join" /\ \A m \in Locks : ~ Inside(m, "scan")
    BY <2>2 DEF Inside, InStop, ExitSteps
  <2> QED
    BY <2>1, <2>3, CallerKeepsLocks
<1>2. CASE ScanSpawn
  <2>1. /\ pc["gui"] = "scan_spawn" /\ pc["scan"] = "idle"
        /\ pc' = [pc EXCEPT !["gui"] = "idle", !["scan"] = "scan"]
        /\ UNCHANGED <<stack, lock, tid, wpc, cancelled, joining>>
    BY <1>2 DEF ScanSpawn, At, AnyPlaceInv, ScanWaits, threadVars, runVars
  <2>2. \A c \in Callers : pc'[c] = pc[c] \/ pc[c] \in {"scan_spawn", "idle"}
    BY <2>1 DEF TypeInv, ControlType, PcType
  <2>3. \A m \in Locks, c \in Callers : Inside(m, c) => Inside(m, c)'
    <3> SUFFICES ASSUME NEW m \in Locks, NEW c \in Callers, Inside(m, c) PROVE Inside(m, c)'
      OBVIOUS
    <3>1. CASE pc'[c] = pc[c]
      BY <2>1, <3>1 DEF Inside, InStop
    <3>2. CASE pc[c] \in {"scan_spawn", "idle"} /\ c # "sw"
      BY <3>2 DEF Inside, InStop, ExitSteps
    <3>3. pc'["sw"] = pc["sw"]
      BY <2>1 DEF TypeInv, ControlType, PcType, Callers
    <3> QED
      BY <2>2, <3>1, <3>2, <3>3
  <2>4. CallerLocks'
    BY <2>1, <2>3 DEF LockInv, CallerLocks
  <2>5. PfCancelled' /\ WorkerLocks'
    <3>1. \A c \in Callers : pc[c] = "pf_join" => pc'[c] = "pf_join"
      BY <2>2
    <3>2. PfCancelled'
      BY <2>1, <3>1 DEF LockInv, PfCancelled
    <3>3. WorkerLocks'
      BY <2>1, <3>1 DEF LockInv, WorkerLocks, Alive
    <3> QED
      BY <3>2, <3>3
  <2> QED
    BY <2>4, <2>5 DEF LockInv
<1> QED
  BY <1>1, <1>2

\* A download ends with a lock only at the step that waits for the stream, where it was
\* cancelled by a caller that unlocks for it.
LEMMA WorkersKeepLocks ==
  ASSUME TypeInv, LockInv, NEW g \in Threads, WorkerStep(g)
  PROVE  LockInv'
<1>0. UNCHANGED <<pc, stack, joining, cancelled>>
  BY WorkersMoveNone
<1>a. /\ "present_following_lock" \in Locks /\ "epg_schedule_lock" \in Locks
      /\ \A m \in Locks : \A h : Lock(m, h) =>
           lock'[m] = h /\ \A n \in Locks : n # m => lock'[n] = lock[n]
      /\ "epg" \in Workers /\ "pf" \in Workers /\ RunType
      /\ NoOne \notin Callers \cup Workers /\ \A c \in Callers, w \in Workers : c # w
  BY LockOne, LockNames, HolderNames DEF Workers, TypeInv
<1>b. PICK w \in Workers, step \in WorkerSteps : 
        /\ GotoW(w, g, step)
        /\ step \in Ended => w # "pf" \/ Die(w, g)
        /\ wpc[w][g] \notin Ended
        /\ w = "epg" /\ wpc[w][g] = "save" => EpgSave(g)
  BY
  DEF WorkerStep, EpgMust, PfMust, TimeMust, WorkerMay, EpgParse, EpgLock, EpgSave, WorkerEnd,
      PfLoad, PfRelease, TimeSet, EpgLoad, EpgComplete, PfLock, PfComplete, TimeLoad,
      TimeComplete, Die, AtW, Workers, WorkerSteps, Ended, Cancellable
<1>1. \A v \in Workers, h \in Threads : wpc'[v][h] = IF v = w /\ h = g THEN step ELSE wpc[v][h]
  BY <1>a, <1>b DEF GotoW, RunType
<1>2. \/ UNCHANGED lock
      \/ Lock("present_following_lock", NoOne) \/ Lock("epg_schedule_lock", NoOne)
      \/ PfLock(g) \/ EpgLock(g)
  BY
  DEF WorkerStep, EpgMust, PfMust, TimeMust, WorkerMay, EpgParse, EpgSave, WorkerEnd,
      PfLoad, PfRelease, TimeSet, EpgLoad, EpgComplete, PfComplete, TimeLoad,
      TimeComplete, Die
<1>3. CallerLocks'
  <2>1. \A m \in Locks, c \in Callers : lock'[m] = c => lock[m] = c
    BY <1>a, <1>2 DEF PfLock, EpgLock
  <2> QED
    BY <1>0, <2>1 DEF LockInv, CallerLocks, Inside, InStop
<1>4. PfCancelled'
  <2>1. \A h \in Threads : wpc'["pf"][h] \notin Ended => wpc["pf"][h] \notin Ended
    BY <1>a, <1>b, <1>1
  <2> QED
    BY <1>0, <2>1 DEF LockInv, PfCancelled
<1>5. Alive("pf") => Alive("pf")' \/ \E c \in Callers : pc'[c] = "pf_join"
  <2> SUFFICES ASSUME NEW h \in Threads, wpc["pf"][h] \notin Ended, wpc'["pf"][h] \in Ended
               PROVE  \E c \in Callers : pc'[c] = "pf_join"
    BY DEF Alive
  <2>1. h = g /\ Die("pf", g)
    BY <1>a, <1>b, <1>1
  <2>2. cancelled["pf"][h]
    BY <2>1 DEF Die
  <2> QED
    BY <1>0, <2>2 DEF LockInv, PfCancelled
<1>6. CASE PfLock(g)
  <2>1. lock'["present_following_lock"] = "pf" /\ \A m \in Locks : m # "present_following_lock" => lock'[m] = lock[m]
    BY <1>a, <1>6 DEF PfLock
  <2>2. Alive("pf")'
    BY <1>a, <1>6 DEF PfLock, GotoW, RunType, Alive, Ended
  <2>3. \A h \in Threads : wpc'["epg"][h] = wpc["epg"][h]
    BY <1>a, <1>6 DEF PfLock, GotoW, RunType
  <2>4. WorkerLocks'
    BY <1>a, <2>1, <2>2, <2>3 DEF LockInv, WorkerLocks
  <2> QED
    BY <1>3, <1>4, <2>4 DEF LockInv
<1>7. CASE EpgLock(g)
  <2>1. lock'["epg_schedule_lock"] = "epg" /\ \A m \in Locks : m # "epg_schedule_lock" => lock'[m] = lock[m]
    BY <1>a, <1>7 DEF EpgLock
  <2>2. wpc'["epg"][g] = "save"
    BY <1>a, <1>7 DEF EpgLock, GotoW, RunType
  <2>3. WorkerLocks'
    BY <1>0, <1>5, <1>a, <2>1, <2>2 DEF LockInv, WorkerLocks
  <2> QED
    BY <1>3, <1>4, <2>3 DEF LockInv
<1>8. CASE ~PfLock(g) /\ ~EpgLock(g)
  <2>1. \A m \in Locks : lock'[m] \in {lock[m], NoOne}
    BY <1>2, <1>8, <1>a
  <2>2. lock'["epg_schedule_lock"] = "epg" => \E h \in Threads : wpc'["epg"][h] = "save"
    <3> SUFFICES ASSUME lock'["epg_schedule_lock"] = "epg" PROVE \E h \in Threads : wpc'["epg"][h] = "save"
      OBVIOUS
    <3>1. lock["epg_schedule_lock"] = "epg"
      BY <1>a, <2>1
    <3>2. PICK h \in Threads : wpc["epg"][h] = "save"
      BY <3>1 DEF LockInv, WorkerLocks
    <3>3. ~ EpgSave(g)
      BY <1>a DEF EpgSave
    <3> QED
      BY <1>a, <1>b, <1>1, <3>2, <3>3
  <2>3. WorkerLocks'
    BY <1>0, <1>5, <1>a, <2>1, <2>2 DEF LockInv, WorkerLocks
  <2> QED
    BY <1>3, <1>4, <2>3 DEF LockInv
<1> QED
  BY <1>6, <1>7, <1>8

AnyCallInv == Dead \/ (AnyPlaceInv /\ LockInv)

LEMMA InitAnyCall == Init => AnyCallInv
<1> SUFFICES ASSUME Init PROVE AnyPlaceInv /\ LockInv
  BY DEF AnyCallInv
<1>1. /\ \A c \in Callers : pc[c] = "idle" /\ stack[c] = << >>
      /\ \A w \in Workers, g \in Threads : wpc[w][g] = "none" /\ cancelled[w][g] = FALSE
      /\ \A m \in Locks : lock[m] = NoOne
      /\ "sw" \in Callers /\ "gui" \in Callers /\ "scan" \in Callers /\ "pf" \in Workers
  BY DEF Init, Callers, Workers
<1>2. AnyPlaceInv
  BY <1>1 DEF AnyPlaceInv, SwPlace, GuiAnyPlace, ScanWaits
<1>3. CallerLocks /\ WorkerLocks
  BY <1>1, HolderNames, LockNames DEF CallerLocks, WorkerLocks, Workers
<1>4. PfCancelled
  BY <1>1 DEF PfCancelled
<1> QED
  BY <1>2, <1>3, <1>4 DEF LockInv

LEMMA AnyCallStep == TypeInv /\ AnyCallInv /\ [Next]_vars => AnyCallInv'
<1> SUFFICES ASSUME TypeInv, AnyCallInv, [Next]_vars PROVE AnyCallInv'
  OBVIOUS
<1>1. CASE Dead
  BY <1>1, DeadStays DEF AnyCallInv
<1>2. CASE NullDereference
  BY <1>2 DEF NullDereference, Dead, AnyCallInv
<1>3. CASE AnyPlaceInv /\ LockInv /\ ~NullDereference
  <2>1. AnyPlaceInv'
    BY <1>3, AnyPlaceStep
  <2>2. UNCHANGED vars => LockInv'
    BY <1>3
    DEF vars, threadVars, runVars, LockInv, CallerLocks, Inside, InStop, PfCancelled, WorkerLocks, Alive
  <2>3. LockInv'
    BY <1>3, <2>2, NextCases, ExitsKeepLocks, PfJoinKeepsLocks, StopsKeepLocks, EventsKeepLocks,
       SelectsKeepLocks, GuiKeepsLocks, ScansKeepLocks, WorkersKeepLocks DEF ExitsOf
  <2> QED
    BY <2>1, <2>3 DEF AnyCallInv
<1> QED
  BY <1>1, <1>2, <1>3 DEF AnyCallInv

\* Whatever is called, forced stops and manual scans included, no lock outlives who took it:
\* with the callers back, none of them has one, and a download that has one still runs,
\* although exits and readers unlock present_following_lock for whoever has it.
THEOREM LocksAlwaysReleased == Spec => []LocksReleased
<1>1. AnyCallInv => LocksReleased
  <2> SUFFICES ASSUME AnyCallInv, \A c \in Callers : At(c, "idle"), NEW m \in Locks
               PROVE  /\ lock[m] \notin Callers
                      /\ lock[m] \in Workers => Alive(lock[m])
    BY DEF LocksReleased
  <2>1. LockInv /\ \A c \in Callers : pc[c] = "idle"
    BY DEF AnyCallInv, Dead, At, Callers
  <2>2. \A c \in Callers : ~ Inside(m, c)
    BY <2>1 DEF Inside, InStop, NotSelecting, ExitSteps
  <2>3. ASSUME NEW w \in Workers, lock[m] = w PROVE Alive(w)
    BY <2>1, <2>3 DEF LockInv, WorkerLocks, Alive, Ended
  <2> QED
    BY <2>1, <2>2, <2>3 DEF LockInv, CallerLocks
<1> QED
  BY <1>1, InitTypeInv, NextTypeInv, InitAnyCall, AnyCallStep, PTL DEF Spec

-----------------------------------------------------------------------------
(* The clock update and the schedule download *)

Clock == wpc["time"][tid["time"]]
TotSlots(f) == {i \in Slots : \E b \in Buffers : f[i] = Entry(TOT, b)}
TimeWaits == \E c \in Callers : pc[c] = "time_join"
EpgStarts == \E g \in Threads : wpc["epg"][g] = "start"

\* There is one clock thread, the one whose id the object has; its flag is up unless it is being
\* created, which happens while no other caller is at work; and who cancels it waits for it.
ClockInv ==
  /\ pc["gui"] = "time_flag" => pc["sw"] = "idle" /\ pc["scan"] = "idle"
  /\ \A g \in Threads : wpc["time"][g] \notin Ended =>
       g = tid["time"] /\ (flag["time"] \/ pc["gui"] = "time_flag")
  /\ \A c \in Callers : pc[c] = "time_join" => joining[c] = tid["time"]
  /\ Clock \notin Ended /\ cancelled["time"][tid["time"]] => TimeWaits

\* The clock is updated until the time is set, and the schedule downloaded from then on.
\* A TOT is in the filter while the clock thread waits for it, or until that thread is joined.
TimeInv ==
  /\ Clock \in {"start", "down", "set"} => ~time_is_set
  /\ EpgStarts \/ Routed(filter, EIT, "time") => time_is_set
  /\ \A i, k \in TotSlots(filter) : i = k
  /\ TotSlots(filter) # {} =>
       /\ ~time_is_set
       /\ Clock = "down" \/ (Clock \in Ended /\ (TimeWaits \/ Dead))

\* g routes no TOT and no schedule that f does not.
Quieter(g, f) ==
  /\ FilterType(g) /\ TotSlots(g) \subseteq TotSlots(f)
  /\ Routed(g, EIT, "time") => Routed(f, EIT, "time")

LEMMA EitIsNotTot == EIT # TOT /\ EIT \in Pids /\ TOT \in Pids /\ "time" \in Buffers
  BY PidsTyped DEF EIT, TOT, Pid, Buffers

\* Loading any PID but those of the clock and the schedule.
LEMMA AddedQuiet ==
  ASSUME NEW f, FilterType(f), NEW e \in Entries, e.pid \notin {EIT, TOT}
  PROVE  Quieter(Added(f, e), f)
<1>1. FilterType(Added(f, e)) /\ \A i \in Slots : Added(f, e)[i] # f[i] => Added(f, e)[i] = e
  BY AddedSlot
<1>2. \A b \in Buffers : e # Entry(EIT, b) /\ e # Entry(TOT, b)
  BY DEF Entry
<1> QED
  BY <1>1, <1>2, EitIsNotTot DEF Quieter, TotSlots, Routed

\* Loading the schedule for another buffer than that of the clock.
LEMMA AddedEitQuiet ==
  ASSUME NEW f, FilterType(f), NEW b \in Buffers
  PROVE  /\ FilterType(Added(f, Entry(EIT, b))) /\ TotSlots(Added(f, Entry(EIT, b))) \subseteq TotSlots(f)
         /\ b # "time" => Quieter(Added(f, Entry(EIT, b)), f)
<1> DEFINE e == Entry(EIT, b)
<1>1. e \in Entries
  BY EitIsNotTot, PidsTyped
<1>2. FilterType(Added(f, e)) /\ \A i \in Slots : Added(f, e)[i] # f[i] => Added(f, e)[i] = e
  BY <1>1, AddedSlot
<1>3. \A d \in Buffers : e # Entry(TOT, d)
  BY EitIsNotTot DEF Entry
<1>4. b # "time" => e # Entry(EIT, "time")
  BY DEF Entry
<1> HIDE DEF e
<1>5. TotSlots(Added(f, e)) \subseteq TotSlots(f)
  BY <1>2, <1>3 DEF TotSlots
<1>6. b # "time" => Quieter(Added(f, e), f)
  BY <1>2, <1>4, <1>5 DEF Quieter, Routed
<1> QED
  BY <1>2, <1>5, <1>6 DEF e

\* Removing a PID routes no other, and removing the only TOT leaves none.
LEMMA RemovedQuiet ==
  ASSUME NEW f, FilterType(f), NEW p \in Pids
  PROVE  /\ Quieter(Removed(f, p), f)
         /\ p = TOT /\ (\A i, k \in TotSlots(f) : i = k) => TotSlots(Removed(f, p)) = {}
<1>1. FilterType(Removed(f, p)) /\ \A i \in Slots : Removed(f, p)[i] # f[i] => Removed(f, p)[i] = Free
  BY RemovedSlot
<1>2. \A q \in Pids, b \in Buffers : Entry(q, b) # Free
  BY FreeAssumption, PidsTyped
<1>3. Quieter(Removed(f, p), f)
  BY <1>1, <1>2, EitIsNotTot DEF Quieter, TotSlots, Routed
<1>4. ASSUME p = TOT, \A i, k \in TotSlots(f) : i = k, TotSlots(f) # {} PROVE TotSlots(Removed(f, p)) = {}
  <2>1. PICK i \in TotSlots(f) : Removed(f, p)[i] = Free
    BY <1>4, RemovedSlot DEF TotSlots
  <2>2. TotSlots(Removed(f, p)) \subseteq {i}
    BY <1>3, <1>4 DEF Quieter
  <2>3. i \notin TotSlots(Removed(f, p))
    BY <1>2, <2>1, EitIsNotTot DEF TotSlots
  <2> QED
    BY <2>2, <2>3
<1>5. TotSlots(f) = {} => TotSlots(Removed(f, p)) = {}
  BY <1>3 DEF Quieter
<1> QED
  BY <1>3, <1>4, <1>5

LEMMA EmptyQuiet == ASSUME NEW f PROVE Quieter(EmptyFilter, f)
<1>1. \A i \in Slots, q \in Pids, b \in Buffers : EmptyFilter[i] # Entry(q, b)
  BY FreeAssumption, PidsTyped DEF EmptyFilter
<1> QED
  BY <1>1, EmptyTyped, EitIsNotTot DEF Quieter, TotSlots, Routed

LEMMA QuieterStill ==
  ASSUME NEW f, NEW g, NEW h, Quieter(h, g), Quieter(g, f) PROVE Quieter(h, f)
  BY DEF Quieter

\* A caller that returns is at none of the steps of the clock.
LEMMA ReturnLands ==
  ASSUME TypeInv, NEW c \in Callers, Return(c)
  PROVE  pc'[c] \notin {"time_join", "time_flag"}
<1>1. stack[c] \in Seq(Backs)
  BY DEF TypeInv, ControlType, StackType
<1>2. CASE stack[c] = << >>
  <2>1. pc'[c] = "idle"
    BY <1>2, ReturnMoves, MovedPc
  <2> QED
    BY <2>1
<1>3. CASE stack[c] # << >>
  <2>1. pc'[c] = Head(stack[c])
    BY <1>3, ReturnMoves, MovedPc
  <2>2. Head(stack[c]) \in Backs
    BY <1>1, <1>3
  <2> QED
    BY <2>1, <2>2 DEF Backs
<1> QED
  BY <1>2, <1>3

\* A caller that goes on or calls is where it goes.
LEMMA GoesTo ==
  ASSUME TypeInv, NEW c \in Callers, NEW step, Goto(c, step) \/ \E b : Call(c, step, b)
  PROVE  pc'[c] = step
<1>1. pc' = [pc EXCEPT ![c] = step]
  BY DEF Goto, Call
<1> QED
  BY <1>1 DEF TypeInv, ControlType, PcType

\* What a caller does to another worker leaves the clock thread alone.
ClockStays ==
  /\ wpc'["time"] = wpc["time"] /\ tid'["time"] = tid["time"] /\ cancelled'["time"] = cancelled["time"]

LEMMA OtherThreads ==
  ASSUME TypeInv, NEW w \in Workers, w # "time", NEW c \in Callers,
         \/ Cancel(c, w) \/ Join(c, w) \/ UNCHANGED threadVars
         \/ \E first, next : Create(c, w, first, next) /\ (w = "epg" => time_is_set)
  PROVE  /\ ClockStays /\ \A d \in Callers : d # c => joining'[d] = joining[d]
         /\ EpgStarts' => EpgStarts \/ time_is_set
<1>a. RunType /\ "time" \in Workers /\ "epg" \in Workers
  BY DEF TypeInv, Workers
<1>1. ASSUME NEW first, NEW next, Create(c, w, first, next), w = "epg" => time_is_set
      PROVE  ClockStays /\ UNCHANGED joining /\ (EpgStarts' => EpgStarts \/ time_is_set)
  <2>1. UNCHANGED joining /\ (UNCHANGED runVars \/ \E g \in Threads : Created(w, g, first))
    BY <1>1, CreateCases
  <2>2. CASE UNCHANGED runVars
    BY <2>1, <2>2 DEF runVars, ClockStays, EpgStarts
  <2>3. ASSUME NEW g \in Threads, Created(w, g, first)
        PROVE  ClockStays /\ (w # "epg" => wpc'["epg"] = wpc["epg"])
    BY <1>a, <2>3 DEF Created, RunType, ClockStays
  <2> QED
    BY <1>1, <2>1, <2>2, <2>3 DEF EpgStarts
<1>2. Cancel(c, w) => ClockStays /\ UNCHANGED wpc /\ \A d \in Callers : d # c => joining'[d] = joining[d]
  BY <1>a DEF Cancel, RunType, ClockStays
<1>3. UNCHANGED threadVars => ClockStays /\ UNCHANGED <<wpc, joining>>
  BY DEF threadVars, runVars, ClockStays
<1>4. ASSUME Join(c, w)
      PROVE  ClockStays /\ UNCHANGED joining /\ (EpgStarts' => EpgStarts)
  <2>1. /\ wpc' = [wpc EXCEPT ![w][joining[c]] = "none"] /\ UNCHANGED <<tid, cancelled, joining>>
        /\ joining[c] \in Threads
    BY <1>4, <1>a DEF Join, RunType
  <2>2. \A g \in Threads : wpc'["epg"][g] \in {wpc["epg"][g], "none"}
    BY <1>a, <2>1 DEF RunType
  <2>3. ClockStays
    BY <1>a, <2>1 DEF RunType, ClockStays
  <2> QED
    BY <2>1, <2>2, <2>3 DEF EpgStarts
<1> QED
  BY <1>1, <1>2, <1>3, <1>4 DEF EpgStarts

\* A step of a caller that neither starts, cancels nor joins the clock's thread.
LEMMA CallerKeepsTime ==
  ASSUME TypeInv, ClockInv, TimeInv, NEW c \in Callers, OnlyMoves(c), ClockStays, Dead => Dead',
         pc["gui"] # "time_flag", pc'["gui"] # "time_flag",
         pc[c] # "time_join", pc'[c] # "time_join", \A d \in Callers : d # c => joining'[d] = joining[d],
         flag'["time"] = flag["time"], UNCHANGED time_is_set,
         Quieter(filter', filter), EpgStarts' => EpgStarts \/ time_is_set
  PROVE  ClockInv' /\ TimeInv'
<1>1. UNCHANGED Clock /\ cancelled'["time"][tid'["time"]] = cancelled["time"][tid["time"]]
  BY DEF ClockStays, Clock
<1>2. \A d \in Callers : (pc'[d] = "time_join" <=> pc[d] = "time_join") /\ (pc[d] = "time_join" => d # c)
  BY DEF OnlyMoves
<1>3. TimeWaits' <=> TimeWaits
  BY <1>2 DEF TimeWaits
<1>4. ClockInv'
  BY <1>1, <1>2, <1>3 DEF ClockInv, ClockStays
<1>5. TimeInv'
  BY <1>1, <1>3 DEF TimeInv, Quieter
<1> QED
  BY <1>4, <1>5

\* While the clock thread is being created no other caller moves.
LEMMA FlagWaits ==
  ASSUME TypeInv, ClockInv, NEW c \in Callers, OnlyMoves(c),
         pc[c] \notin {"idle", "time_flag"} \/ (pc["gui"] = "idle" /\ c # "gui"), pc'[c] # "time_flag"
  PROVE  pc["gui"] # "time_flag" /\ pc'["gui"] # "time_flag"
  BY DEF ClockInv, OnlyMoves, Callers

\* The exits, but for that of the clock.
LEMMA ExitsKeepTime ==
  ASSUME TypeInv, ClockInv, TimeInv, Dead => Dead', NEW c \in Callers,
         EpgExit(c) \/ EpgJoin(c) \/ PfExit(c) \/ PfJoin(c) \/ (TimeExit(c) /\ ~flag["time"])
  PROVE  ClockInv' /\ TimeInv'
<1>a. FilterType(filter) /\ Quieter(filter, filter) /\ EIT \in Pids /\ flag \in [Workers -> BOOLEAN]
  BY EitIsNotTot DEF TypeInv, FlagType, Quieter
<1>1. OnlyMoves(c) /\ pc[c] \in ExitSteps \ {"time_join"} /\ UNCHANGED time_is_set
  BY WhoMoves
  DEF ExitsOf, Exit, EpgExit, EpgJoin, PfExit, PfJoin, TimeExit, At, ExitSteps, objVars
<1>2. pc'[c] \notin {"time_join", "time_flag"}
  BY GoesTo, ReturnLands DEF EpgExit, EpgJoin, PfExit, PfJoin, TimeExit
<1>3. Quieter(filter', filter)
  BY <1>a, RemovedQuiet DEF EpgExit, EpgJoin, PfExit, PfJoin, TimeExit
<1>4. /\ ClockStays /\ \A d \in Callers : d # c => joining'[d] = joining[d]
      /\ EpgStarts' => EpgStarts \/ time_is_set
  BY OtherThreads DEF EpgExit, EpgJoin, PfExit, PfJoin, TimeExit, Workers
<1>5. flag'["time"] = flag["time"]
  BY <1>a DEF EpgExit, EpgJoin, PfExit, PfJoin, TimeExit, SetFlag, Workers
<1>6. pc["gui"] # "time_flag" /\ pc'["gui"] # "time_flag"
  BY <1>1, <1>2, FlagWaits DEF ExitSteps
<1> QED
  BY <1>1, <1>2, <1>3, <1>4, <1>5, <1>6, CallerKeepsTime

\* The exit of the clock: who cancels the thread waits for it, and takes its TOT out.
LEMMA TimeExitKeepsTime ==
  ASSUME TypeInv, ClockInv, TimeInv, Dead => Dead', NEW c \in Callers, TimeExit(c), flag["time"]
  PROVE  ClockInv' /\ TimeInv'
<1>1. /\ OnlyMoves(c) /\ pc[c] = "time_exit" /\ pc'[c] = "time_join"
      /\ UNCHANGED <<flag, filter, time_is_set, tid, wpc>>
      /\ joining' = [joining EXCEPT ![c] = tid["time"]]
  BY WhoMoves, GoesTo DEF ExitsOf, Exit, TimeExit, Cancel, At, objVars
<1>2. pc["gui"] # "time_flag" /\ pc'["gui"] # "time_flag"
  BY <1>1, FlagWaits
<1>3. TimeWaits' /\ UNCHANGED Clock
  BY <1>1 DEF TimeWaits, Clock
<1>4. \A d \in Callers : joining'[d] = IF d = c THEN tid["time"] ELSE joining[d]
  BY <1>1 DEF TypeInv, RunType
<1>5. ClockInv'
  BY <1>1, <1>2, <1>3, <1>4 DEF ClockInv, OnlyMoves
<1>6. TimeInv'
  BY <1>1, <1>3 DEF TimeInv, EpgStarts
<1> QED
  BY <1>5, <1>6

LEMMA TimeJoinKeepsTime ==
  ASSUME TypeInv, ClockInv, TimeInv, Dead => Dead', NEW c \in Callers, TimeJoin(c)
  PROVE  ClockInv' /\ TimeInv'
<1>a. /\ FilterType(filter) /\ TOT \in Pids /\ "time" \in Workers /\ "epg" \in Workers
      /\ RunType
  BY EitIsNotTot DEF TypeInv, Workers
<1>1. /\ OnlyMoves(c) /\ pc[c] = "time_join" /\ UNCHANGED <<time_is_set, tid, cancelled, joining>>
      /\ wpc["time"][joining[c]] \in Ended /\ wpc' = [wpc EXCEPT !["time"][joining[c]] = "none"]
      /\ filter' = Removed(filter, TOT)
  BY WhoMoves DEF ExitsOf, Exit, TimeJoin, Join, At, objVars
<1>2. pc'[c] \notin {"time_join", "time_flag"}
  BY ReturnLands DEF TimeJoin
<1>3. pc["gui"] # "time_flag" /\ pc'["gui"] # "time_flag"
  BY <1>1, <1>2, FlagWaits
<1>4. joining[c] = tid["time"] /\ tid["time"] \in Threads
  BY <1>a, <1>1 DEF ClockInv, RunType
<1>5. /\ wpc'["epg"] = wpc["epg"]
      /\ \A g \in Threads : wpc'["time"][g] = IF g = tid["time"] THEN "none" ELSE wpc["time"][g]
  BY <1>a, <1>1, <1>4 DEF RunType
<1>6. \A g \in Threads : wpc'["time"][g] \in Ended
  BY <1>1, <1>4, <1>5 DEF ClockInv, Ended
<1>7. Clock' = "none"
  BY <1>1, <1>4, <1>5 DEF Clock
<1>8. ClockInv'
  <2>1. \A d \in Callers : pc'[d] = "time_join" => joining'[d] = tid'["time"]
    BY <1>1, <1>2 DEF ClockInv, OnlyMoves
  <2> QED
    BY <1>3, <1>6, <1>7, <2>1 DEF ClockInv, Ended
<1>9. TotSlots(filter') = {} /\ Quieter(filter', filter)
  BY <1>a, <1>1, RemovedQuiet DEF TimeInv
<1>10. TimeInv'
  BY <1>1, <1>5, <1>7, <1>9 DEF TimeInv, Quieter, EpgStarts
<1> QED
  BY <1>8, <1>10

\* Stops and reads of the events.
LEMMA StopsKeepTime ==
  ASSUME TypeInv, ClockInv, TimeInv, Dead => Dead', NEW c \in Callers, Stop(c) \/ Event(c)
  PROVE  ClockInv' /\ TimeInv'
<1>1. /\ OnlyMoves(c) /\ pc[c] \in StopSteps \cup EventSteps /\ UNCHANGED <<threadVars, time_is_set, flag>>
      /\ filter' = filter \/ filter' = EmptyFilter
  BY WhoMoves
  DEF ExitsOf, Stop, StopTest, StopLock, StopGst, StopClear, Event, EventNone, EventUnlocks, EventLock,
      EventRead, At, StopSteps, EventSteps, objVars
<1>2. pc'[c] \notin {"time_join", "time_flag"}
  BY GoesTo, ReturnLands
  DEF Stop, StopTest, StopLock, StopGst, StopClear, Event, EventNone, EventUnlocks, EventLock, EventRead
<1>3. Quieter(filter', filter)
  BY <1>1, EmptyQuiet DEF TypeInv, Quieter
<1>4. ClockStays /\ UNCHANGED joining /\ EpgStarts' = EpgStarts
  BY <1>1 DEF threadVars, runVars, ClockStays, EpgStarts
<1>5. pc["gui"] # "time_flag" /\ pc'["gui"] # "time_flag"
  BY <1>1, <1>2, FlagWaits DEF StopSteps, EventSteps
<1> QED
  BY <1>1, <1>2, <1>3, <1>4, <1>5, CallerKeepsTime DEF StopSteps, EventSteps

\* The PIDs of a service are not those of the clock and the schedule.
LEMMA SelectsQuiet ==
  ASSUME TypeInv, Selecting
  PROVE  Quieter(filter', filter)
<1>a. FilterType(filter) /\ Quieter(filter, filter) /\ Quieter(EmptyFilter, filter)
  BY EmptyQuiet DEF TypeInv, Quieter
<1>1. CASE SelAdd
  <2>1. current_service \in Services
    BY <1>1 DEF SelAdd, At, SelSteps, TypeInv, ControlType
  <2>2. \A kind \in {"pmt", "video", "audio"} : OwnPid(kind) \in Entries /\ OwnPid(kind).pid \notin {EIT, TOT}
    BY <2>1, TablePids
  <2>3. Entry(PAT, "media") \in Entries /\ Entry(PAT, "media").pid \notin {EIT, TOT}
    BY PidsTyped DEF Entry, PAT, EIT, TOT, Pid, Buffers
  <2> DEFINE f1 == Added(filter, OwnPid("pmt"))  f2 == Added(f1, Entry(PAT, "media"))
             f3 == Added(f2, OwnPid("video"))    f4 == Added(f3, OwnPid("audio"))
  <2>4. Quieter(f1, filter)
    BY <1>a, <2>2, AddedQuiet
  <2>5. Quieter(f2, f1)
    BY <2>3, <2>4, AddedQuiet DEF Quieter
  <2>6. Quieter(f3, f2)
    BY <2>2, <2>5, AddedQuiet DEF Quieter
  <2>7. Quieter(f4, f3)
    BY <2>2, <2>6, AddedQuiet DEF Quieter
  <2>8. filter' = f4
    BY <1>1 DEF SelAdd
  <2> HIDE DEF f1, f2, f3, f4
  <2> QED
    BY <2>4, <2>5, <2>6, <2>7, <2>8, QuieterStill
<1>2. CASE SelList
  <2>1. PICK s \in Found : filter' = Removed(Removed(filter, Pid("pmt", s)), PAT)
    BY <1>2 DEF SelList
  <2>2. Pid("pmt", s) \in Pids /\ PAT \in Pids
    BY <2>1, PidsTyped, FoundTyped DEF TypeInv, ObjType
  <2> QED
    BY <2>1, <1>a, <2>2, RemovedQuiet, QuieterStill DEF Quieter
<1>3. ~SelAdd /\ ~SelList => filter' = filter \/ filter' = EmptyFilter
  BY
  DEF Selecting, Select, SelStop, SelCheck, SelIndex, SelNoPids, SelTune, SelGst, SelGstFails, SelOn, PfFlag, PfStart
<1> QED
  BY <1>a, <1>1, <1>2, <1>3

LEMMA SelectsKeepTime ==
  ASSUME TypeInv, ClockInv, TimeInv, Dead => Dead',
         Selecting \/ \E s \in Services \cup {NoService} : StartSelect(s)
  PROVE  ClockInv' /\ TimeInv'
<1>0. "sw" \in Callers /\ OnlyMoves("sw") /\ flag \in [Workers -> BOOLEAN]
  BY WhoMoves DEF Callers, TypeInv, FlagType
<1>1. /\ pc["sw"] \notin {"time_join", "time_flag"} /\ UNCHANGED time_is_set
      /\ pc["sw"] # "idle" \/ pc["gui"] = "idle"
  BY
  DEF StartSelect, Selecting, Select, SelStop, SelCheck, SelIndex, SelNoPids, SelTune, SelAdd, SelGst, SelList,
      SelGstFails, SelOn, PfStart, PfFlag, At, objVars
<1>2. pc'["sw"] \notin {"time_join", "time_flag"}
  <2>1. CASE \E s \in Services \cup {NoService} : StartSelect(s)
    BY <1>0, <2>1 DEF StartSelect, TypeInv, ControlType, PcType
  <2>2. CASE PfStart
    <3>1. Goto("sw", "pf_flag") \/ Goto("sw", "idle")
      BY <1>0, <2>2, CreateCases DEF PfStart, Workers
    <3> QED
      BY <1>0, <3>1, GoesTo
  <2>3. CASE Selecting /\ ~PfStart
    BY <1>0, <2>3, GoesTo
    DEF Selecting, Select, SelStop, SelCheck, SelIndex, SelNoPids, SelTune, SelAdd, SelGst, SelList,
        SelGstFails, SelOn, PfFlag, SelectEnd
  <2> QED
    BY <2>1, <2>2, <2>3
<1>3. Quieter(filter', filter)
  BY SelectsQuiet DEF StartSelect, TypeInv, Quieter
<1>4. /\ ClockStays /\ \A d \in Callers : d # "sw" => joining'[d] = joining[d]
      /\ EpgStarts' => EpgStarts \/ time_is_set
  <2>1. UNCHANGED threadVars \/ \E first, next : Create("sw", "pf", first, next)
    BY
    DEF StartSelect, Selecting, Select, SelStop, SelCheck, SelIndex, SelNoPids, SelTune, SelAdd, SelGst, SelList,
        SelGstFails, SelOn, PfStart, PfFlag
  <2> QED
    BY <1>0, <2>1, OtherThreads DEF Workers
<1>5. flag'["time"] = flag["time"]
  BY <1>0
  DEF StartSelect, Selecting, Select, SelStop, SelCheck, SelIndex, SelNoPids, SelTune, SelAdd, SelGst, SelList,
      SelGstFails, SelOn, PfStart, PfFlag, SetFlag, Workers
<1>6. pc["gui"] # "time_flag" /\ pc'["gui"] # "time_flag"
  BY <1>0, <1>1, <1>2, FlagWaits
<1> QED
  BY <1>0, <1>1, <1>2, <1>3, <1>4, <1>5, <1>6, CallerKeepsTime

\* The steps of the GUI thread that start neither the clock nor raise its flag.
LEMMA GuiKeepsTime ==
  ASSUME TypeInv, ClockInv, TimeInv, Dead => Dead', GuiOnly, ~TickTime, ~TimeFlag
  PROVE  ClockInv' /\ TimeInv'
<1>0. "gui" \in Callers /\ OnlyMoves("gui") /\ flag \in [Workers -> BOOLEAN]
  BY WhoMoves DEF Callers, TypeInv, FlagType
<1>1. pc["gui"] \notin {"time_join", "time_flag"} /\ UNCHANGED time_is_set
  BY
  DEF GuiOnly, ForceStart, EventStart, ListLock, ScanStart, Ticking, TickStop, TickEpg, Tick, EpgFlag,
      ListRead, ForceOff, ForceGst, At, objVars
<1>2. pc'["gui"] \notin {"time_join", "time_flag"}
  <2>1. TickEpg => Goto("gui", "epg_flag")
    BY <1>0, CreateCases DEF TickEpg, Workers
  <2>2. \/ \E step \in {"idle", "list_read", "epg_flag", "force_off", "event", "stop"} : Goto("gui", step)
        \/ \E step \in {"time_exit", "epg_exit"} : \E b : Call("gui", step, b)
        \/ Return("gui")
    BY <2>1
    DEF GuiOnly, ForceStart, EventStart, ListLock, ScanStart, Ticking, TickStop, EpgFlag, ListRead,
        ForceOff, ForceGst
  <2> QED
    BY <1>0, <2>2, GoesTo, ReturnLands
<1>3. Quieter(filter', filter)
  <2>1. filter' = filter \/ filter' = EmptyFilter
    BY
    DEF GuiOnly, ForceStart, EventStart, ListLock, ScanStart, Ticking, TickStop, TickEpg, EpgFlag,
        ListRead, ForceOff, ForceGst
  <2> QED
    BY <2>1, EmptyQuiet DEF TypeInv, Quieter
<1>4. /\ ClockStays /\ \A d \in Callers : d # "gui" => joining'[d] = joining[d]
      /\ EpgStarts' => EpgStarts \/ time_is_set
  <2>1. UNCHANGED threadVars \/ \E first, next : Create("gui", "epg", first, next) /\ time_is_set
    BY
    DEF GuiOnly, ForceStart, EventStart, ListLock, ScanStart, Ticking, TickStop, TickEpg, EpgFlag,
        ListRead, ForceOff, ForceGst
  <2> QED
    BY <1>0, <2>1, OtherThreads DEF Workers
<1>5. flag'["time"] = flag["time"]
  BY <1>0
  DEF GuiOnly, ForceStart, EventStart, ListLock, ScanStart, Ticking, TickStop, TickEpg, EpgFlag,
      ListRead, ForceOff, ForceGst, SetFlag, Workers
<1> QED
  BY <1>0, <1>1, <1>2, <1>3, <1>4, <1>5, CallerKeepsTime

\* The clock's thread is created when nobody is inside a call: the last one is over, and its TOT
\* is taken out.
LEMMA TickKeepsTime ==
  ASSUME TypeInv, ClockInv, TimeInv, TickTime
  PROVE  ClockInv' /\ TimeInv'
<1>a. /\ RunType /\ "time" \in Workers /\ "epg" \in Workers /\ "gui" \in Callers
      /\ \A c \in Callers : pc[c] = "idle"
  BY DEF TypeInv, Workers, Callers, TickTime, Tick, At
<1>1. ~time_is_set /\ ~flag["time"] /\ UNCHANGED <<filter, time_is_set, flag>>
  BY DEF TickTime, objVars
<1>2. ~TimeWaits /\ ~Dead
  BY <1>a DEF TimeWaits, Dead
<1>3. \A g \in Threads : wpc["time"][g] \in Ended
  BY <1>a, <1>1 DEF ClockInv
<1>4. tid["time"] \in Threads /\ Clock \in Ended
  BY <1>a, <1>3 DEF Clock, RunType
<1>5. TotSlots(filter) = {} /\ ~EpgStarts /\ ~Routed(filter, EIT, "time")
  BY <1>1, <1>2, <1>4 DEF TimeInv, Ended
<1>6. Goto("gui", "time_flag") /\ UNCHANGED joining
      /\ (UNCHANGED runVars \/ \E g \in Threads : Created("time", g, "start"))
  BY <1>a, CreateCases DEF TickTime
<1>7. pc'["gui"] = "time_flag" /\ pc'["sw"] = "idle" /\ pc'["scan"] = "idle"
  BY <1>a, <1>6, GotoMoves, MovedPc DEF Callers
<1>8. \A c \in Callers : pc'[c] # "time_join"
  BY <1>7 DEF Callers
<1>9. CASE UNCHANGED runVars
  <2>1. ClockInv'
    BY <1>3, <1>4, <1>7, <1>8, <1>9 DEF ClockInv, runVars, Clock
  <2>2. TimeInv'
    BY <1>1, <1>5, <1>9 DEF TimeInv, runVars, Clock, EpgStarts
  <2> QED
    BY <2>1, <2>2
<1>10. ASSUME NEW g \in Threads, Created("time", g, "start") PROVE ClockInv' /\ TimeInv'
  <2>1. /\ tid'["time"] = g /\ cancelled'["time"][g] = FALSE /\ wpc'["epg"] = wpc["epg"]
        /\ \A h \in Threads : wpc'["time"][h] = IF h = g THEN "start" ELSE wpc["time"][h]
    BY <1>a, <1>10 DEF Created, RunType
  <2>2. ClockInv'
    BY <1>3, <1>7, <1>8, <2>1 DEF ClockInv
  <2>3. TimeInv'
    BY <1>1, <1>5, <2>1 DEF TimeInv, EpgStarts
  <2> QED
    BY <2>2, <2>3
<1> QED
  BY <1>6, <1>9, <1>10

LEMMA FlagKeepsTime ==
  ASSUME TypeInv, ClockInv, TimeInv, Dead => Dead', TimeFlag
  PROVE  ClockInv' /\ TimeInv'
<1>1. /\ OnlyMoves("gui") /\ "gui" \in Callers /\ pc["gui"] = "time_flag" /\ pc'["gui"] = "idle"
      /\ UNCHANGED <<filter, time_is_set, tid, wpc, cancelled, joining>>
  BY WhoMoves, GoesTo DEF GuiOnly, TimeFlag, At, Callers, objVars, threadVars, runVars
<1>2. flag'["time"] = TRUE
  BY DEF TimeFlag, SetFlag, TypeInv, FlagType, Workers
<1>3. UNCHANGED Clock /\ \A c \in Callers : pc'[c] = "time_join" <=> pc[c] = "time_join"
  BY <1>1 DEF Clock, OnlyMoves
<1>4. TimeWaits' <=> TimeWaits
  BY <1>3 DEF TimeWaits
<1>5. ClockInv'
  BY <1>1, <1>2, <1>3, <1>4 DEF ClockInv
<1>6. TimeInv'
  BY <1>1, <1>3, <1>4 DEF TimeInv, EpgStarts
<1> QED
  BY <1>5, <1>6

LEMMA ScansKeepTime ==
  ASSUME TypeInv, AnyCallInv, ClockInv, TimeInv, Dead => Dead', Scanning \/ ScanSpawn
  PROVE  ClockInv' /\ TimeInv'
<1>1. CASE Scanning
  <2>1. /\ "scan" \in Callers /\ OnlyMoves("scan") /\ UNCHANGED <<threadVars, flag, time_is_set>>
        /\ pc["scan"] \in {"scan", "scan_check", "scan_on", "scan_tune"}
        /\ filter' = filter \/ filter' = EmptyFilter
    BY <1>1, WhoMoves DEF Callers, Scanning, Scan, ScanCheck, ScanOn, ScanTune, At, objVars
  <2>2. pc'["scan"] \notin {"time_join", "time_flag"}
    <3>1. \/ \E step \in {"idle", "scan_check", "scan_on", "scan_tune"} : Goto("scan", step)
          \/ Call("scan", "stop", "scan_check")
      BY <1>1 DEF Scanning, Scan, ScanCheck, ScanOn, ScanTune
    <3> QED
      BY <2>1, <3>1, GoesTo
  <2>3. Quieter(filter', filter)
    BY <2>1, EmptyQuiet DEF TypeInv, Quieter
  <2>4. ClockStays /\ UNCHANGED joining /\ EpgStarts' = EpgStarts
    BY <2>1 DEF threadVars, runVars, ClockStays, EpgStarts
  <2>5. pc["gui"] # "time_flag" /\ pc'["gui"] # "time_flag"
    BY <2>1, <2>2, FlagWaits
  <2> QED
    BY <2>1, <2>2, <2>3, <2>4, <2>5, CallerKeepsTime
<1>2. CASE ScanSpawn
  <2>1. /\ pc["gui"] = "scan_spawn" /\ pc' = [pc EXCEPT !["gui"] = "idle", !["scan"] = "scan"]
        /\ UNCHANGED <<filter, flag, time_is_set, tid, wpc, cancelled, joining>>
    BY <1>2 DEF ScanSpawn, At, threadVars, runVars, objVars
  <2>2. pc["scan"] = "idle"
    BY <2>1 DEF AnyCallInv, AnyPlaceInv, ScanWaits, Dead, Callers
  <2>3. \A c \in Callers : pc'[c] = "time_join" <=> pc[c] = "time_join"
    BY <2>1, <2>2 DEF TypeInv, ControlType, PcType, Callers
  <2>4. (TimeWaits' <=> TimeWaits) /\ UNCHANGED Clock
    BY <2>1, <2>3 DEF TimeWaits, Clock
  <2>5. pc'["gui"] = "idle" /\ pc["gui"] # "time_flag"
    BY <2>1 DEF TypeInv, ControlType, PcType, Callers
  <2>6. ClockInv'
    BY <2>1, <2>3, <2>4, <2>5 DEF ClockInv
  <2>7. TimeInv'
    BY <2>1, <2>4 DEF TimeInv, EpgStarts
  <2> QED
    BY <2>6, <2>7
<1> QED
  BY <1>1, <1>2


\* A worker that goes on: only its own step changes, and the clock's thread is the one the object has.
LEMMA WorkersKeepTime ==
  ASSUME TypeInv, ClockInv, TimeInv, Dead => Dead', NEW g \in Threads, WorkerStep(g)
  PROVE  ClockInv' /\ TimeInv'
<1>a. /\ RunType /\ FilterType(filter) /\ Quieter(filter, filter) /\ EIT \in Pids /\ TOT \in Pids
      /\ "time" \in Workers /\ "epg" \in Workers /\ "pf" \in Workers /\ tid["time"] \in Threads
      /\ flag \in [Workers -> BOOLEAN]
  BY EitIsNotTot DEF TypeInv, RunType, FlagType, Quieter, Workers
<1>0. UNCHANGED <<pc, joining, cancelled, tid>>
  BY WorkersMoveNone
<1>1. TimeWaits' = TimeWaits
  BY <1>0 DEF TimeWaits
<1>2. ASSUME NEW w \in {"epg", "pf"}, NEW step, GotoW(w, g, step)
      PROVE  wpc'["time"] = wpc["time"] /\ UNCHANGED Clock
             /\ (EpgStarts' => EpgStarts \/ (w = "epg" /\ step = "start"))
  <2>1. wpc' = [wpc EXCEPT ![w][g] = step]
    BY <1>2 DEF GotoW
  <2>2. wpc'["time"] = wpc["time"]
    BY <1>a, <2>1 DEF RunType
  <2>3. \A h \in Threads : wpc'["epg"][h] = wpc["epg"][h] \/ (w = "epg" /\ wpc'["epg"][h] = step)
    BY <1>a, <2>1 DEF RunType
  <2> QED
    BY <1>0, <2>2, <2>3 DEF Clock, EpgStarts
<1>3. ASSUME NEW step, GotoW("time", g, step), wpc["time"][g] \notin Ended
      PROVE  /\ g = tid["time"] /\ Clock = wpc["time"][g] /\ Clock' = step /\ EpgStarts' = EpgStarts
             /\ \A h \in Threads : h # g => wpc'["time"][h] \in Ended
  <2>1. wpc' = [wpc EXCEPT !["time"][g] = step]
    BY <1>3 DEF GotoW
  <2>2. g = tid["time"] /\ \A h \in Threads : h # g => wpc["time"][h] \in Ended
    BY <1>3 DEF ClockInv
  <2>3. wpc'["epg"] = wpc["epg"] /\ \A h \in Threads : wpc'["time"][h] = IF h = g THEN step ELSE wpc["time"][h]
    BY <1>a, <2>1 DEF RunType
  <2> QED
    BY <1>0, <2>2, <2>3 DEF Clock, EpgStarts
\* The clock's thread is the same, and nothing of the two tables is loaded.
<1>4. ASSUME NEW w \in {"epg", "pf"}, NEW step \in WorkerSteps \ {"start"}, GotoW(w, g, step),
             flag'["time"] = flag["time"], UNCHANGED time_is_set, Quieter(filter', filter)
      PROVE  ClockInv' /\ TimeInv'
  <2>1. wpc'["time"] = wpc["time"] /\ UNCHANGED Clock /\ (EpgStarts' => EpgStarts)
    BY <1>2, <1>4
  <2>2. ClockInv'
    BY <1>0, <1>1, <1>4, <2>1 DEF ClockInv
  <2>3. TimeInv'
    BY <1>1, <1>4, <2>1 DEF TimeInv, Quieter
  <2> QED
    BY <2>2, <2>3
\* The clock's thread goes on, its flag left alone.
<1>5. ASSUME NEW step \in WorkerSteps, GotoW("time", g, step), wpc["time"][g] \notin Ended, UNCHANGED flag
      PROVE  ClockInv'
  <2>1. /\ g = tid["time"] /\ Clock = wpc["time"][g] /\ Clock' = step
        /\ \A h \in Threads : h # g => wpc'["time"][h] \in Ended
    BY <1>3, <1>5
  <2> QED
    BY <1>0, <1>1, <1>5, <2>1 DEF ClockInv
<1>6. CASE EpgLoad(g)
  <2>1. EpgStarts /\ UNCHANGED <<time_is_set, flag>>
    BY <1>6 DEF EpgLoad, AtW, EpgStarts, objVars
  <2>2. PICK step \in {"down", "spin"} : GotoW("epg", g, step)
    BY <1>6 DEF EpgLoad
  <2>3. wpc'["time"] = wpc["time"] /\ UNCHANGED Clock /\ (EpgStarts' => EpgStarts)
    BY <1>2, <2>2
  <2>4. time_is_set /\ TotSlots(filter) = {}
    BY <2>1 DEF TimeInv
  <2>5. TotSlots(filter') \subseteq TotSlots(filter)
    BY <1>a, <1>6, AddedEitQuiet DEF EpgLoad, Buffers
  <2>6. ClockInv'
    BY <1>0, <1>1, <2>1, <2>3 DEF ClockInv
  <2>7. TimeInv'
    BY <2>1, <2>3, <2>4, <2>5 DEF TimeInv
  <2> QED
    BY <2>6, <2>7
<1>7. CASE EpgComplete(g) \/ EpgParse(g) \/ EpgLock(g) \/ EpgSave(g) \/ WorkerEnd("epg", g) \/ Die("epg", g)
  <2>1. \E step \in WorkerSteps \ {"start"} : GotoW("epg", g, step)
    BY <1>7 DEF EpgComplete, EpgParse, EpgLock, EpgSave, WorkerEnd, Die, WorkerSteps
  <2>2. UNCHANGED time_is_set /\ Quieter(filter', filter)
    BY <1>a, <1>7, RemovedQuiet
    DEF EpgComplete, EpgParse, EpgLock, EpgSave, WorkerEnd, Die, objVars
  <2>3. flag'["time"] = flag["time"]
    BY <1>a, <1>7 DEF EpgComplete, EpgParse, EpgLock, EpgSave, WorkerEnd, Die, SetFlag
  <2> QED
    BY <1>4, <2>1, <2>2, <2>3
<1>8. CASE PfLoad(g) \/ PfComplete(g) \/ PfLock(g) \/ PfRelease(g) \/ Die("pf", g)
  <2>1. \E step \in WorkerSteps : GotoW("pf", g, step)
    BY <1>8 DEF PfLoad, PfComplete, PfLock, PfRelease, Die, WorkerSteps
  <2>2. "epg" \in Buffers /\ "epg" # "time" /\ UNCHANGED <<time_is_set, flag>>
    BY <1>8 DEF PfLoad, PfComplete, PfLock, PfRelease, Die, objVars, Buffers
  <2>3. Quieter(filter', filter)
    BY <1>a, <1>8, <2>2, RemovedQuiet, AddedEitQuiet DEF PfLoad, PfComplete, PfLock, PfRelease, Die
  <2>4. wpc'["time"] = wpc["time"] /\ UNCHANGED Clock /\ (EpgStarts' => EpgStarts)
    BY <1>2, <2>1
  <2>5. ClockInv'
    BY <1>0, <1>1, <2>2, <2>4 DEF ClockInv
  <2>6. TimeInv'
    BY <1>1, <2>2, <2>3, <2>4 DEF TimeInv, Quieter
  <2> QED
    BY <2>5, <2>6
<1>9. CASE TimeLoad(g)
  <2>1. /\ GotoW("time", g, "down") /\ wpc["time"][g] = "start" /\ UNCHANGED <<flag, time_is_set>>
        /\ filter' = Added(filter, Entry(TOT, "time"))
    BY <1>9 DEF TimeLoad, AtW, objVars
  <2>2. Clock = "start" /\ Clock' = "down" /\ EpgStarts' = EpgStarts
    BY <1>3, <2>1 DEF Ended
  <2>3. ~time_is_set /\ TotSlots(filter) = {} /\ ~Routed(filter, EIT, "time") /\ ~EpgStarts
    BY <2>2 DEF TimeInv, Ended
  <2>4. /\ Entry(TOT, "time") \in Entries
        /\ \A b \in Buffers : Entry(TOT, "time") # Entry(EIT, b)
    BY EitIsNotTot, PidsTyped DEF Entry
  <2>5. \/ filter' = filter
        \/ \E i \in Slots : filter' = [filter EXCEPT ![i] = Entry(TOT, "time")]
    <3>1. CASE SlotsIn(filter, {Free}) = {}
      BY <2>1, <3>1 DEF Added
    <3>2. CASE SlotsIn(filter, {Free}) # {}
      <4>1. \E i \in Slots : filter[i] = Free
        BY <1>a, <3>2 DEF SlotsIn, FilterType
      <4> QED
        BY <1>a, <2>1, <2>4, <4>1, AddedTakes
    <3> QED
      BY <3>1, <3>2
  <2>6. (\A i, k \in TotSlots(filter') : i = k) /\ ~Routed(filter', EIT, "time")
    BY <1>a, <2>3, <2>4, <2>5, EitIsNotTot DEF TotSlots, Routed, FilterType
  <2>7. ClockInv'
    BY <1>5, <2>1 DEF Ended, WorkerSteps
  <2>8. TimeInv'
    BY <2>1, <2>2, <2>3, <2>6 DEF TimeInv
  <2> QED
    BY <2>7, <2>8
<1>10. CASE TimeComplete(g)
  <2>1. PICK step \in {"set", "start"} : GotoW("time", g, step)
    BY <1>10 DEF TimeComplete
  <2>2. wpc["time"][g] = "down" /\ UNCHANGED <<flag, time_is_set>> /\ filter' = Removed(filter, TOT)
    BY <1>10 DEF TimeComplete, AtW, objVars
  <2>3. Clock = "down" /\ Clock' = step /\ EpgStarts' = EpgStarts
    BY <1>3, <2>1, <2>2 DEF Ended
  <2>4. TotSlots(filter') = {} /\ Quieter(filter', filter)
    BY <1>a, <2>2, RemovedQuiet DEF TimeInv
  <2>5. ClockInv'
    BY <1>5, <2>1, <2>2 DEF Ended, WorkerSteps
  <2>6. TimeInv'
    BY <2>2, <2>3, <2>4 DEF TimeInv, Quieter
  <2> QED
    BY <2>5, <2>6
<1>11. CASE TimeSet(g)
  <2>1. GotoW("time", g, "end") /\ wpc["time"][g] = "set" /\ UNCHANGED <<flag, filter>>
    BY <1>11 DEF TimeSet, AtW
  <2>2. Clock = "set" /\ Clock' = "end" /\ EpgStarts' = EpgStarts
    BY <1>3, <2>1 DEF Ended
  <2>3. ClockInv'
    BY <1>5, <2>1 DEF Ended, WorkerSteps
  <2>4. ~time_is_set /\ TotSlots(filter) = {}
    BY <2>2 DEF TimeInv, Ended
  <2>5. TimeInv'
    BY <2>1, <2>2, <2>4 DEF TimeInv
  <2> QED
    BY <2>3, <2>5
<1>12. CASE WorkerEnd("time", g)
  <2>1. /\ GotoW("time", g, "done") /\ wpc["time"][g] = "end" /\ UNCHANGED time_is_set
        /\ filter' = Removed(filter, TOT)
    BY <1>12 DEF WorkerEnd, AtW, objVars
  <2>2. /\ g = tid["time"] /\ Clock = "end" /\ Clock' = "done" /\ EpgStarts' = EpgStarts
        /\ \A h \in Threads : h # g => wpc'["time"][h] \in Ended
    BY <1>3, <2>1 DEF Ended
  <2>3. \A h \in Threads : wpc'["time"][h] \in Ended
    BY <1>0, <2>2 DEF Clock, Ended
  <2>4. ClockInv'
    BY <1>0, <2>2, <2>3 DEF ClockInv, Ended
  <2>5. TotSlots(filter) = {} /\ Quieter(filter', filter)
    BY <1>a, <2>1, <2>2, RemovedQuiet DEF TimeInv, Ended
  <2>6. TimeInv'
    BY <2>1, <2>2, <2>5 DEF TimeInv, Quieter
  <2> QED
    BY <2>4, <2>6
<1>13. CASE Die("time", g)
  <2>1. /\ GotoW("time", g, "done") /\ wpc["time"][g] \in {"start", "down"} /\ cancelled["time"][g]
        /\ UNCHANGED <<flag, filter, time_is_set>>
    BY <1>13 DEF Die, Cancellable, objVars
  <2>2. g = tid["time"] /\ Clock \in {"start", "down"} /\ Clock' = "done" /\ EpgStarts' = EpgStarts
    BY <1>3, <2>1 DEF Ended
  <2>3. TimeWaits
    BY <2>1, <2>2 DEF ClockInv, Ended
  <2>4. ClockInv'
    BY <1>5, <2>1 DEF Ended, WorkerSteps
  <2>5. TimeInv'
    BY <1>1, <2>1, <2>2, <2>3 DEF TimeInv, Ended
  <2> QED
    BY <2>4, <2>5
<1> QED
  BY <1>6, <1>7, <1>8, <1>9, <1>10, <1>11, <1>12, <1>13
  DEF WorkerStep, EpgMust, PfMust, TimeMust, WorkerMay, Workers

\* Every step, whatever is called, keeps the clock and the schedule apart.
LEMMA TimeStep ==
  ASSUME TypeInv, AnyCallInv, ClockInv, TimeInv, [Next]_vars
  PROVE  ClockInv' /\ TimeInv'
<1>1. Dead => Dead'
  BY DeadStays
<1>2. ASSUME NEW c \in Callers, ExitsOf(c) PROVE ClockInv' /\ TimeInv'
  BY <1>1, <1>2, ExitsKeepTime, TimeExitKeepsTime, TimeJoinKeepsTime, StopsKeepTime DEF ExitsOf, Exit
<1>3. CASE GuiOnly
  BY <1>1, <1>3, GuiKeepsTime, TickKeepsTime, FlagKeepsTime
<1>4. CASE NullDereference
  <2>1. Dead' /\ UNCHANGED <<filter, time_is_set, tid, cancelled, joining>>
    BY <1>4 DEF NullDereference, Dead, objVars
  <2>2. \A w \in Workers, g \in Threads : wpc'[w][g] = "none"
    BY <1>4 DEF NullDereference
  <2>3. "epg" \in Workers /\ "time" \in Workers /\ tid["time"] \in Threads
    BY DEF TypeInv, RunType, Workers
  <2>4. Clock' = "none" /\ ~EpgStarts' /\ \A g \in Threads : wpc'["time"][g] = "none"
    BY <2>1, <2>2, <2>3 DEF Clock, EpgStarts
  <2>5. ClockInv'
    BY <2>1, <2>4 DEF ClockInv, Dead, Ended, Callers
  <2>6. TimeInv'
    BY <2>1, <2>4 DEF TimeInv, Ended
  <2> QED
    BY <2>5, <2>6
<1>5. CASE UNCHANGED vars
  <2>1. ClockInv'
    BY <1>5 DEF vars, objVars, threadVars, runVars, ClockInv, Clock, TimeWaits
  <2>2. TimeInv'
    BY <1>5 DEF vars, objVars, threadVars, runVars, TimeInv, Clock, TimeWaits, Dead, EpgStarts
  <2> QED
    BY <2>1, <2>2
<1> QED
  BY <1>1, <1>2, <1>3, <1>4, <1>5, SelectsKeepTime, ScansKeepTime, WorkersKeepTime, NextCases

LEMMA InitTimeInv == Init => ClockInv /\ TimeInv
<1> SUFFICES ASSUME Init PROVE ClockInv /\ TimeInv
  OBVIOUS
<1>1. /\ filter = EmptyFilter /\ ~time_is_set /\ tid["time"] \in Threads
      /\ \A g \in Threads : wpc["time"][g] = "none" /\ wpc["epg"][g] = "none"
      /\ \A c \in Callers : pc[c] = "idle"
  BY ThreadsNat DEF Init, EmptyFilter, Workers
<1>2. TotSlots(filter) = {} /\ ~Routed(filter, EIT, "time")
  BY <1>1, FreeAssumption, EitIsNotTot, PidsTyped DEF EmptyFilter, TotSlots, Routed
<1> QED
  BY <1>1, <1>2 DEF ClockInv, TimeInv, Clock, EpgStarts, Ended, Callers

\* Whatever is called, the clock update and the schedule download never have their PIDs in the
\* buffer they share at once: one runs only until the time is set, the other only from then
\* on, and a cancelled update is joined, its TOT taken out, before another starts.
THEOREM TimeBufferNeverShared == Spec => []TimeBufferNotShared
<1>1. TimeInv => TimeBufferNotShared
  <2>1. ASSUME Routed(filter, TOT, "time") PROVE TotSlots(filter) # {}
    BY <2>1, EitIsNotTot DEF Routed, TotSlots
  <2> QED
    BY <2>1 DEF TimeInv, TimeBufferNotShared
<1> QED
  BY <1>1, InitTypeInv, NextTypeInv, InitAnyCall, AnyCallStep, InitTimeInv, TimeStep, PTL DEF Spec
=============================================================================
