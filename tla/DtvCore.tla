------------------------------ MODULE DtvCore -------------------------------
(* The dtv object of libdtv/dtv_usr: selecting a service, stopping it, and   *)
(* the three worker threads that read the transport stream meanwhile.        *)
(*                                                                           *)
(* Callers run the public functions: the channel switch thread (sw), the GUI *)
(* thread (gui) and the manual scan thread (scan).  Workers are the pthreads *)
(* the object creates: the EPG schedule download (epg), the present/following*)
(* download (pf) and the clock update (time).  Nothing locks the flags, the  *)
(* service pointer or the PID filter, so every read or write another thread  *)
(* can observe is a step of its own.  A caller's pc names its next step and  *)
(* its stack the steps to return to.                                         *)
(*                                                                           *)
(* The PID filter appears as the table of what is routed where; its calls    *)
(* are atomic and succeed (PidFilter has their failures), and so is the run  *)
(* of adds, or of removes, a caller makes in a row.  The object is           *)
(* initialised and has a player; freq_locked, which nothing reads, and the   *)
(* contents of the lists and files are left out.                             *)
EXTENDS PidTable, Sequences

CONSTANTS
  Services,      \* the services on the user's list
  NoService,     \* NULL, and the service of a PID that belongs to none
  Freq,          \* service -> frequency of its multiplex
  NoFreq,        \* 0
  PfServices,    \* services with eit_present_following
  EpgServices,   \* services with eit_schedule
  NumSlots,      \* MAX_NUM_PIDS_SUPPORTED
  Free,          \* an unallocated slot
  NoOne,         \* an unlocked mutex
  Calls,         \* the optional GUI calls: subset of {"force", "event", "list", "scan"}
  MaxThreads     \* threads of one kind that may exist at a time

Callers == {"sw", "gui", "scan"}
Workers == {"epg", "pf", "time"}

ASSUME ServicesAssumption ==
  /\ NoService \notin Services
  /\ PfServices \subseteq Services /\ EpgServices \subseteq Services
ASSUME FreqAssumption == DOMAIN Freq = Services /\ \A s \in Services : Freq[s] # NoFreq
ASSUME NumSlotsAssumption == NumSlots \in Nat
ASSUME CallsAssumption == Calls \subseteq {"force", "event", "list", "scan"}
ASSUME ThreadsAssumption == MaxThreads \in Nat \ {0}
ASSUME MarkersAssumption == NoOne \notin Callers \cup Workers

VARIABLES
  \* the dtv object
  is_playing, is_scanning, current_service, curr_freq, time_is_set,
  freed,         \* the list was loaded anew under current_service
  flag,          \* dtv_epg_downloading, dtv_epg_pf_downloading, time_is_updating
  lock,          \* each mutex of the object -> who has it
  filter,        \* slot -> Free or [pid, buf]
  \* the threads
  pc,            \* caller -> its next step
  stack,         \* caller -> where the functions it is in return to
  target,        \* the service the switch thread was asked for (current_ch_index)
  selected,      \* the switch thread's res = 0
  tid,           \* worker -> the thread in epgThreadId, epg_pf_ThreadId, time_ThreadId
  wpc,           \* worker -> thread -> its next step
  cancelled,     \* worker -> thread -> pthread_cancel was called on it
  joining        \* caller -> the thread it last cancelled and is to join

objVars    == <<is_playing, is_scanning, current_service, freed, curr_freq, time_is_set>>
selVars    == <<target, selected>>
runVars    == <<tid, wpc, cancelled>>
threadVars == <<runVars, joining>>
vars == <<objVars, flag, lock, filter, pc, stack, selVars, threadVars>>

Threads == 1..MaxThreads
Locks == {"service_select_mutex", "stop_lock", "present_following_lock", "epg_schedule_lock"}

Slots == 0..(NumSlots - 1)

\* PIDs are told apart by what they carry and, for a service's own, by whose.
Pid(kind, s) == <<kind, s>>
EIT == Pid("eit", NoService)
TOT == Pid("tot", NoService)
PAT == Pid("pat", NoService)
Pids == {"eit", "tot", "pat", "pmt", "video", "audio"} \X (Services \cup {NoService})
Buffers == {"media", "epg", "time"}
Entries == [pid : Pids, buf : Buffers]
Entry(p, b) == [pid |-> p, buf |-> b]

ASSUME FreeAssumption == Free \notin Entries

CallerSteps ==
  {"idle", "dead", "stop", "stop_lock", "stop_gst", "stop_clear", "force_off", "force_gst",
   "epg_exit", "epg_join", "pf_exit", "pf_join", "time_exit", "time_join",
   "select", "sel_stop", "sel_check", "sel_index", "sel_tune", "sel_add", "sel_gst", "sel_list",
   "sel_on", "event", "ev_read", "pf_start", "pf_flag", "epg_flag", "time_flag", "list_read",
   "scan_spawn", "scan", "scan_check", "scan_on", "scan_tune"}
WorkerSteps ==
  {"none", "done", "start", "spin", "down", "got", "wait", "save", "end", "sleep", "rel", "set"}

TypeOK ==
  /\ is_playing \in BOOLEAN /\ is_scanning \in BOOLEAN /\ time_is_set \in BOOLEAN
  /\ current_service \in Services \cup {NoService} /\ freed \in BOOLEAN
  /\ curr_freq \in {Freq[s] : s \in Services} \cup {NoFreq}
  /\ flag \in [Workers -> BOOLEAN]
  /\ lock \in [Locks -> Callers \cup Workers \cup {NoOne}]
  /\ filter \in [Slots -> Entries \cup {Free}]
  /\ pc \in [Callers -> CallerSteps]
  /\ stack \in [Callers -> Seq(CallerSteps)]
  /\ target \in Services \cup {NoService}
  /\ selected \in BOOLEAN
  /\ tid \in [Workers -> Threads]
  /\ wpc \in [Workers -> [Threads -> WorkerSteps]]
  /\ cancelled \in [Workers -> [Threads -> BOOLEAN]]
  /\ joining \in [Callers -> Threads]

\* After DTV_Init, with the switch thread not started yet.
Init ==
  /\ is_playing = FALSE /\ is_scanning = FALSE /\ time_is_set = FALSE
  /\ current_service = NoService /\ freed = FALSE
  /\ curr_freq = NoFreq
  /\ flag = [w \in Workers |-> FALSE]
  /\ lock = [m \in Locks |-> NoOne]
  /\ filter = [i \in Slots |-> Free]
  /\ pc = [c \in Callers |-> "idle"]
  /\ stack = [c \in Callers |-> <<>>]
  /\ target = NoService
  /\ selected = FALSE
  /\ tid = [w \in Workers |-> 1]
  /\ wpc = [w \in Workers |-> [g \in Threads |-> "none"]]
  /\ cancelled = [w \in Workers |-> [g \in Threads |-> FALSE]]
  /\ joining = [c \in Callers |-> 1]

-----------------------------------------------------------------------------
(* The PID filter as its callers see it (tsi_add_pid_to_filter and           *)
(* tsi_remove_pid_from_filter; see PidFilter).                               *)

EmptyFilter == [i \in Slots |-> Free]

Added(f, e) ==
  LET free == SlotsIn(f, {Free})
  IN  IF free = {} THEN f ELSE [f EXCEPT ![Least(free)] = e]

\* Removal names the PID only: whichever slot comes first goes, whatever
\* buffer it feeds.
Removed(f, p) ==
  LET hit == SlotsIn(f, {Entry(p, b) : b \in Buffers})
  IN  IF hit = {} THEN f ELSE [f EXCEPT ![Least(hit)] = Free]

Routed(f, p, b) == Entry(p, b) \in {f[i] : i \in Slots}

-----------------------------------------------------------------------------
(* Control flow of a caller and of a worker *)

\* What a read through current_service finds: the service, or, once its node was
\* freed, the service the list loaded anew put in its place, or none at all.
Found == IF freed THEN Services \cup {NoService} ELSE {current_service}

\* A service of S is on the frequency of s.
Shared(S, s) == s # NoService /\ \E t \in S : Freq[t] = Freq[s]

At(c, step) == pc[c] = step
Goto(c, step) == pc' = [pc EXCEPT ![c] = step] /\ UNCHANGED stack
Call(c, step, back) ==
  /\ pc' = [pc EXCEPT ![c] = step]
  /\ stack' = [stack EXCEPT ![c] = <<back>> \o @]
Return(c) ==
  IF stack[c] = <<>>
  THEN Goto(c, "idle")
  ELSE /\ pc' = [pc EXCEPT ![c] = Head(stack[c])]
       /\ stack' = [stack EXCEPT ![c] = Tail(@)]

AtW(w, g, step) == wpc[w][g] = step
GotoW(w, g, step) == wpc' = [wpc EXCEPT ![w][g] = step] /\ UNCHANGED <<pc, stack, tid, cancelled, joining>>

Ended == {"none", "done"}
Alive(w) == \E g \in Threads : wpc[w][g] \notin Ended

JoinStep == [epg |-> "epg_join", pf |-> "pf_join", time |-> "time_join"]

\* pthread_create, which the system refuses when there is no thread to give.
\* The callers test for res < 0, but a failure returns a positive errno:
\* refused or not, they go on to set the flag.
Create(c, w, first, next) ==
  LET joined == {joining[d] : d \in {d \in Callers : At(d, JoinStep[w])}}
      room == {g \in Threads \ joined : wpc[w][g] \in Ended}
  IN  /\ IF room = {}
         THEN UNCHANGED runVars
         ELSE LET g == Least(room) IN
              /\ tid' = [tid EXCEPT ![w] = g]
              /\ wpc' = [wpc EXCEPT ![w][g] = first]
              /\ cancelled' = [cancelled EXCEPT ![w][g] = FALSE]
      /\ Goto(c, next)
      /\ UNCHANGED joining

\* pthread_cancel of the thread the object has the id of, and pthread_join,
\* after which the thread is gone.
Cancel(c, w) ==
  /\ cancelled' = [cancelled EXCEPT ![w][tid[w]] = TRUE]
  /\ joining' = [joining EXCEPT ![c] = tid[w]]
  /\ UNCHANGED <<tid, wpc>>
Join(c, w) ==
  /\ wpc[w][joining[c]] \in Ended
  /\ wpc' = [wpc EXCEPT ![w][joining[c]] = "none"]
  /\ UNCHANGED <<tid, cancelled, joining>>

Lock(m, c) == lock' = [lock EXCEPT ![m] = c]
SetFlag(w, v) == flag' = [flag EXCEPT ![w] = v]

-----------------------------------------------------------------------------
(* Ending the workers: DTV_EPG_Update_Exit,                                  *)
(* DTV_EPG_Present_Following_Update_Exit and exit_time_thread, which a stop  *)
(* and a selection call in this order.  A caller enters at epg_exit (or at   *)
(* time_exit, for the clock alone) and returns after time_join.              *)

\* Faulty: the thread is cancelled and not joined.
EpgExitNoJoin(c) ==
  /\ At(c, "epg_exit")
  /\ IF flag["epg"] THEN Cancel(c, "epg") ELSE UNCHANGED threadVars
  /\ Goto(c, "pf_exit")
  /\ SetFlag("epg", FALSE)
  /\ UNCHANGED <<objVars, lock, filter, selVars>>

EpgExit(c) ==
  /\ At(c, "epg_exit")
  /\ IF flag["epg"]
     THEN Cancel(c, "epg") /\ Goto(c, "epg_join")
     ELSE Goto(c, "pf_exit") /\ UNCHANGED threadVars
  /\ UNCHANGED <<objVars, flag, lock, filter, selVars>>

\* Faulty: the flag stays up over a thread that is gone.
EpgJoinKeepsFlag(c) ==
  /\ At(c, "epg_join") /\ Join(c, "epg")
  /\ Goto(c, "pf_exit")
  /\ filter' = Removed(filter, EIT)
  /\ UNCHANGED <<objVars, flag, lock, selVars>>

\* exit_epg_thread after the join: the flag, and one EIT out of the filter.
EpgJoin(c) ==
  /\ At(c, "epg_join") /\ Join(c, "epg")
  /\ Goto(c, "pf_exit")
  /\ SetFlag("epg", FALSE)
  /\ filter' = Removed(filter, EIT)
  /\ UNCHANGED <<objVars, lock, selVars>>

\* Faulty: the flag is lowered and the thread left alone.
PfExitFlagOnly(c) ==
  /\ At(c, "pf_exit")
  /\ SetFlag("pf", FALSE)
  /\ Goto(c, "time_exit")
  /\ UNCHANGED <<objVars, lock, filter, selVars, threadVars>>

\* The flag is lowered before the thread is even cancelled.
PfExit(c) ==
  /\ At(c, "pf_exit")
  /\ IF flag["pf"]
     THEN SetFlag("pf", FALSE) /\ Cancel(c, "pf") /\ Goto(c, "pf_join")
     ELSE Goto(c, "time_exit") /\ UNCHANGED <<flag, threadVars>>
  /\ UNCHANGED <<objVars, lock, filter, selVars>>

\* exit_epg_present_following_thread after the join.  Whoever holds
\* present_following_lock, it is unlocked.
PfJoin(c) ==
  /\ At(c, "pf_join") /\ Join(c, "pf")
  /\ current_service # NoService
  /\ Goto(c, "time_exit")
  /\ SetFlag("pf", FALSE)
  /\ filter' = Removed(filter, EIT)
  /\ Lock("present_following_lock", NoOne)
  /\ UNCHANGED <<objVars, selVars>>

TimeExit(c) ==
  /\ At(c, "time_exit")
  /\ IF flag["time"]
     THEN Cancel(c, "time") /\ Goto(c, "time_join")
     ELSE Return(c) /\ UNCHANGED threadVars
  /\ UNCHANGED <<objVars, flag, lock, filter, selVars>>

\* exit_time_thread after the join, then back to whoever asked.
TimeJoin(c) ==
  /\ At(c, "time_join") /\ Join(c, "time")
  /\ Return(c)
  /\ SetFlag("time", FALSE)
  /\ filter' = Removed(filter, TOT)
  /\ UNCHANGED <<objVars, lock, selVars>>

Exit(c) == EpgExit(c) \/ EpgJoin(c) \/ PfExit(c) \/ PfJoin(c) \/ TimeExit(c) \/ TimeJoin(c)

-----------------------------------------------------------------------------
(* DTV_Stop_Play and DTV_Force_Stop_Play *)

\* Nothing is playing: nothing to stop.
StopTest(c) ==
  /\ At(c, "stop")
  /\ IF is_playing THEN Goto(c, "stop_lock") ELSE Return(c)
  /\ UNCHANGED <<objVars, flag, lock, filter, selVars, threadVars>>

\* trylock(stop_lock): a caller that loses to a stop in progress returns.
StopLock(c) ==
  /\ At(c, "stop_lock")
  /\ IF lock["stop_lock"] = NoOne
     THEN /\ Lock("stop_lock", c)
          /\ curr_freq' = NoFreq
          /\ Call(c, "epg_exit", "stop_gst")
     ELSE Return(c) /\ UNCHANGED <<lock, curr_freq>>
  /\ UNCHANGED <<is_playing, is_scanning, current_service, freed, time_is_set, flag, filter, selVars, threadVars>>

StopGst(c) ==
  /\ At(c, "stop_gst")
  /\ is_playing' = FALSE
  /\ Goto(c, "stop_clear")
  /\ UNCHANGED <<is_scanning, current_service, freed, curr_freq, time_is_set, flag, lock, filter, selVars, threadVars>>

\* Faulty: stop_lock is not released.
StopClearKeepsLock(c) ==
  /\ At(c, "stop_clear")
  /\ filter' = EmptyFilter
  /\ Return(c)
  /\ UNCHANGED <<objVars, flag, lock, selVars, threadVars>>

StopClear(c) ==
  /\ At(c, "stop_clear")
  /\ filter' = EmptyFilter
  /\ Lock("stop_lock", NoOne)
  /\ Return(c)
  /\ UNCHANGED <<objVars, flag, selVars, threadVars>>

Stop(c) == StopTest(c) \/ StopLock(c) \/ StopGst(c) \/ StopClear(c)

\* MOST_TV_STOP_PLAY calls DTV_Force_Stop_Play on the GUI thread, whether or
\* not a switch is running.  It takes no lock.
ForceStart ==
  /\ "force" \in Calls
  /\ At("gui", "idle")
  /\ is_playing
  /\ Goto("gui", "force_off")
  /\ UNCHANGED <<objVars, flag, lock, filter, selVars, threadVars>>

ForceOff ==
  /\ At("gui", "force_off")
  /\ is_playing' = FALSE
  /\ curr_freq' = NoFreq
  /\ Call("gui", "epg_exit", "force_gst")
  /\ UNCHANGED <<is_scanning, current_service, freed, time_is_set, flag, lock, filter, selVars, threadVars>>

ForceGst ==
  /\ At("gui", "force_gst")
  /\ filter' = EmptyFilter
  /\ Return("gui")
  /\ UNCHANGED <<objVars, flag, lock, selVars, threadVars>>

-----------------------------------------------------------------------------
(* DTV_Service_Select, run by QChannelSwitchThrd *)

\* StartServiceSelect on the GUI thread: only when the thread is not running.
StartSelect(s) ==
  /\ At("gui", "idle") /\ At("sw", "idle")
  /\ pc' = [pc EXCEPT !["sw"] = "select"]
  /\ target' = s
  /\ UNCHANGED <<objVars, flag, lock, filter, stack, selected, threadVars>>

\* The thread calls getTimeRangeAndStationTitle before it looks at the result.
SelectEnd(ok) ==
  /\ selected' = ok
  /\ Lock("service_select_mutex", NoOne)
  /\ Call("sw", "event", "pf_start")
  /\ UNCHANGED <<target>>

\* trylock(service_select_mutex) cannot fail: no other thread selects.
Select ==
  /\ At("sw", "select")
  /\ lock["service_select_mutex"] = NoOne
  /\ Lock("service_select_mutex", "sw")
  /\ Goto("sw", "sel_stop")
  /\ UNCHANGED <<objVars, flag, filter, selVars, threadVars>>

SelStop ==
  /\ At("sw", "sel_stop")
  /\ is_playing => current_service # NoService
  /\ IF is_playing THEN Call("sw", "stop", "sel_check") ELSE Goto("sw", "sel_check")
  /\ UNCHANGED <<objVars, flag, lock, filter, selVars, threadVars>>

SelCheck ==
  /\ At("sw", "sel_check")
  /\ IF is_scanning
     THEN SelectEnd(FALSE)
     ELSE Call("sw", "epg_exit", "sel_index") /\ UNCHANGED <<lock, selVars>>
  /\ UNCHANGED <<objVars, flag, filter, threadVars>>

\* DTV_Index_To_Service; NULL when the list is empty.
SelIndex ==
  /\ At("sw", "sel_index")
  /\ current_service' = target /\ freed' = FALSE
  /\ IF target = NoService
     THEN is_playing' = FALSE /\ SelectEnd(FALSE)
     ELSE Goto("sw", "sel_tune") /\ UNCHANGED <<is_playing, lock, selVars>>
  /\ UNCHANGED <<is_scanning, curr_freq, time_is_set, flag, filter, threadVars>>

\* The service has no audio or no video PID.
SelNoPids ==
  /\ At("sw", "sel_tune")
  /\ is_playing' = FALSE
  /\ SelectEnd(FALSE)
  /\ UNCHANGED <<is_scanning, current_service, freed, curr_freq, time_is_set, flag, filter, threadVars>>

\* Faulty: something else of the service is kept as the frequency.
SelTuneOtherField ==
  /\ At("sw", "sel_tune")
  /\ curr_freq' = current_service
  /\ \/ Goto("sw", "sel_add") /\ UNCHANGED <<is_playing, lock, selVars>>
     \/ is_playing' = FALSE /\ SelectEnd(FALSE)
  /\ UNCHANGED <<is_scanning, current_service, freed, time_is_set, flag, filter, threadVars>>

\* HW_Lock; curr_freq is set whether or not the tuner locked.
SelTune ==
  /\ At("sw", "sel_tune")
  /\ curr_freq' = Freq[current_service]
  /\ \/ Goto("sw", "sel_add") /\ UNCHANGED <<is_playing, lock, selVars>>
     \/ is_playing' = FALSE /\ SelectEnd(FALSE)
  /\ UNCHANGED <<is_scanning, current_service, freed, time_is_set, flag, filter, threadVars>>

OwnPid(kind) == Entry(Pid(kind, current_service), "media")

\* tsi_restart, then the service's four PIDs.
SelAdd ==
  /\ At("sw", "sel_add")
  /\ filter' = Added(Added(Added(Added(filter, OwnPid("pmt")), Entry(PAT, "media")),
                          OwnPid("video")), OwnPid("audio"))
  /\ Goto("sw", "sel_gst")
  /\ UNCHANGED <<objVars, flag, lock, selVars, threadVars>>

\* GST_Play.  A pipeline that finds other PIDs in the stream than the list has
\* (need_upadate_tv_list) has the list written, destroyed and loaded anew;
\* current_service still points to the node it had.
SelGst ==
  /\ At("sw", "sel_gst")
  /\ freed' \in BOOLEAN
  /\ Goto("sw", "sel_list")
  /\ UNCHANGED <<is_playing, is_scanning, current_service, curr_freq, time_is_set,
                 flag, lock, filter, selVars, threadVars>>

\* Faulty: the video goes with the table PIDs.
SelListDropsVideo ==
  /\ At("sw", "sel_list")
  /\ filter' = Removed(Removed(filter, OwnPid("video").pid), PAT)
  /\ Goto("sw", "sel_on")
  /\ UNCHANGED <<objVars, flag, lock, selVars, threadVars>>

\* The pipeline has parsed PAT and PMT, which are not needed any more.
SelList ==
  /\ At("sw", "sel_list")
  /\ \E s \in Found : filter' = Removed(Removed(filter, Pid("pmt", s)), PAT)
  /\ Goto("sw", "sel_on")
  /\ UNCHANGED <<objVars, flag, lock, selVars, threadVars>>

SelGstFails ==
  /\ At("sw", "sel_gst")
  /\ filter' = EmptyFilter
  /\ is_playing' = FALSE
  /\ SelectEnd(FALSE)
  /\ UNCHANGED <<is_scanning, current_service, freed, curr_freq, time_is_set, flag, threadVars>>

SelOn ==
  /\ At("sw", "sel_on")
  /\ is_playing' = TRUE
  /\ SelectEnd(TRUE)
  /\ UNCHANGED <<is_scanning, current_service, freed, curr_freq, time_is_set, flag, filter, threadVars>>

\* Faulty: the download is started whether or not the selection succeeded.
PfStartAlways ==
  /\ At("sw", "pf_start")
  /\ IF current_service # NoService /\ ~flag["pf"]
     THEN Create("sw", "pf", "sleep", "pf_flag")
     ELSE Goto("sw", "idle") /\ UNCHANGED threadVars
  /\ UNCHANGED <<objVars, flag, lock, filter, selVars>>

\* DTV_EPG_Present_Following_Start_Update, only after a successful selection.
PfStart ==
  /\ At("sw", "pf_start")
  /\ IF selected /\ current_service # NoService /\ ~flag["pf"]
     THEN Create("sw", "pf", "sleep", "pf_flag")
     ELSE Goto("sw", "idle") /\ UNCHANGED threadVars
  /\ UNCHANGED <<objVars, flag, lock, filter, selVars>>

PfFlag ==
  /\ At("sw", "pf_flag")
  /\ SetFlag("pf", TRUE)
  /\ Goto("sw", "idle")
  /\ UNCHANGED <<objVars, lock, filter, selVars, threadVars>>

Selecting ==
  \/ Select \/ SelStop \/ SelCheck \/ SelIndex \/ SelNoPids \/ SelTune
  \/ SelAdd \/ SelGst \/ SelList \/ SelGstFails \/ SelOn \/ PfStart \/ PfFlag

-----------------------------------------------------------------------------
(* DTV_Get_Current_Event, on the GUI thread and on the switch thread *)

EventStart ==
  /\ "event" \in Calls
  /\ At("gui", "idle")
  /\ Goto("gui", "event")
  /\ UNCHANGED <<objVars, flag, lock, filter, selVars, threadVars>>

\* Nothing to read: no such service, another frequency, no download, or the
\* lock is taken.
EventNone(c) ==
  /\ At(c, "event")
  /\ \/ \E s \in PfServices : Freq[s] # curr_freq
     \/ ~flag["pf"]
     \/ lock["present_following_lock"] # NoOne
     \/ target = NoService
  /\ Return(c)
  /\ UNCHANGED <<objVars, flag, lock, filter, selVars, threadVars>>

\* A service without present/following: the function unlocks a mutex it never
\* locked.
EventUnlocks(c) ==
  /\ At(c, "event")
  /\ Services \ PfServices # {}
  /\ Lock("present_following_lock", NoOne)
  /\ Return(c)
  /\ UNCHANGED <<objVars, flag, filter, selVars, threadVars>>

EventLock(c) ==
  /\ At(c, "event")
  /\ \E s \in PfServices : Freq[s] = curr_freq
  /\ flag["pf"]
  /\ lock["present_following_lock"] = NoOne
  /\ Lock("present_following_lock", c)
  /\ Goto(c, "ev_read")
  /\ UNCHANGED <<objVars, flag, filter, selVars, threadVars>>

\* The events are copied out of the service's list, then the lock is released,
\* whoever has it by then.
EventRead(c) ==
  /\ At(c, "ev_read")
  /\ Lock("present_following_lock", NoOne)
  /\ Return(c)
  /\ UNCHANGED <<objVars, flag, filter, selVars, threadVars>>

Event(c) == EventNone(c) \/ EventUnlocks(c) \/ EventLock(c) \/ EventRead(c)

-----------------------------------------------------------------------------
(* The timer slot DoDEBUG: it does nothing while the switch thread runs, and *)
(* the manual scan stops the timer.                                          *)

\* Faulty: the tick does not ask whether a selection is running.
TickWhileSelecting == At("gui", "idle") /\ At("scan", "idle")

Tick == At("gui", "idle") /\ At("sw", "idle") /\ At("scan", "idle")

\* The stream must be restarted (pipeline, frozen picture, CRC errors) or the
\* signal is lost.
TickStop ==
  /\ Tick /\ is_playing
  /\ Goto("gui", "stop")
  /\ UNCHANGED <<objVars, flag, lock, filter, selVars, threadVars>>

\* Faulty: no look at whether the time is set.
TickEpgAnyTime ==
  /\ Tick /\ is_playing
  /\ Found \cap EpgServices # {}
  /\ ~flag["epg"]
  /\ Create("gui", "epg", "start", "epg_flag")
  /\ UNCHANGED <<objVars, flag, lock, filter, selVars>>

\* DTV_EPG_Start_Update; the flag is set by the caller, after pthread_create.
TickEpg ==
  /\ Tick /\ is_playing /\ time_is_set
  /\ Found \cap EpgServices # {}
  /\ ~flag["epg"]
  /\ Create("gui", "epg", "start", "epg_flag")
  /\ UNCHANGED <<objVars, flag, lock, filter, selVars>>

EpgFlag ==
  /\ At("gui", "epg_flag")
  /\ SetFlag("epg", TRUE)
  /\ Goto("gui", "idle")
  /\ UNCHANGED <<objVars, lock, filter, selVars, threadVars>>

\* Faulty: a second clock update over one that runs.
TickTimeAgain ==
  /\ Tick /\ is_playing /\ ~time_is_set
  /\ Create("gui", "time", "start", "time_flag")
  /\ UNCHANGED <<objVars, flag, lock, filter, selVars>>

\* DTV_TimeUpdate
TickTime ==
  /\ Tick /\ is_playing /\ ~time_is_set
  /\ ~flag["time"]
  /\ Create("gui", "time", "start", "time_flag")
  /\ UNCHANGED <<objVars, flag, lock, filter, selVars>>

TimeFlag ==
  /\ At("gui", "time_flag")
  /\ SetFlag("time", TRUE)
  /\ Goto("gui", "idle")
  /\ UNCHANGED <<objVars, lock, filter, selVars, threadVars>>

\* DTV_EPG_Get_Channel_Events_List, when epg_schedule_lock is free.
ListLock ==
  /\ "list" \in Calls
  /\ At("gui", "idle")
  /\ lock["epg_schedule_lock"] = NoOne
  /\ Lock("epg_schedule_lock", "gui")
  /\ Goto("gui", "list_read")
  /\ UNCHANGED <<objVars, flag, filter, selVars, threadVars>>

\* Faulty: a return that forgets the unlock.
ListReadKeepsLock ==
  /\ At("gui", "list_read")
  /\ Goto("gui", "idle")
  /\ UNCHANGED <<objVars, flag, lock, filter, selVars, threadVars>>

ListRead ==
  /\ At("gui", "list_read")
  /\ Lock("epg_schedule_lock", NoOne)
  /\ Goto("gui", "idle")
  /\ UNCHANGED <<objVars, flag, filter, selVars, threadVars>>

Ticking == TickStop \/ TickEpg \/ TickTime

-----------------------------------------------------------------------------
(* Manual scan: doScanTimerTimeOut ends the clock update and starts a thread *)
(* that stops the playback and calls DTV_Scan.                               *)

ScanStart ==
  /\ "scan" \in Calls
  /\ At("gui", "idle") /\ At("scan", "idle")
  /\ Call("gui", "time_exit", "scan_spawn")
  /\ UNCHANGED <<objVars, flag, lock, filter, selVars, threadVars>>

ScanSpawn ==
  /\ At("gui", "scan_spawn")
  /\ pc' = [pc EXCEPT !["gui"] = "idle", !["scan"] = "scan"]
  /\ UNCHANGED <<objVars, flag, lock, filter, stack, selVars, threadVars>>

Scan ==
  /\ At("scan", "scan")
  /\ IF is_playing THEN Call("scan", "stop", "scan_check") ELSE Goto("scan", "scan_check")
  /\ UNCHANGED <<objVars, flag, lock, filter, selVars, threadVars>>

ScanCheck ==
  /\ At("scan", "scan_check")
  /\ Goto("scan", IF is_playing \/ is_scanning THEN "idle" ELSE "scan_on")
  /\ UNCHANGED <<objVars, flag, lock, filter, selVars, threadVars>>

ScanOn ==
  /\ At("scan", "scan_on")
  /\ is_scanning' = TRUE
  /\ filter' = EmptyFilter
  /\ Goto("scan", "scan_tune")
  /\ UNCHANGED <<is_playing, current_service, freed, curr_freq, time_is_set, flag, lock, selVars, threadVars>>

\* HW_Lock and the collection of PAT, SDT and PMT, whose PIDs are unloaded again.
ScanTune ==
  /\ At("scan", "scan_tune")
  /\ is_scanning' = FALSE
  /\ Goto("scan", "idle")
  /\ UNCHANGED <<is_playing, current_service, freed, curr_freq, time_is_set, flag, lock, filter, selVars, threadVars>>

Gui == EpgFlag \/ TimeFlag \/ ListRead \/ ForceOff \/ ForceGst \/ ScanSpawn
Scanning == Scan \/ ScanCheck \/ ScanOn \/ ScanTune

-----------------------------------------------------------------------------
(* The workers.  A cancelled worker ends at its next cancellation point; the *)
(* steps below that are not in Cancellable run with cancellation disabled or *)
(* have no such point.                                                       *)

Cancellable(w) ==
  CASE w = "epg"  -> {"start", "down", "got"}
    [] w = "pf"   -> {"sleep", "down"}
    [] w = "time" -> {"start", "down"}

Die(w, g) ==
  /\ cancelled[w][g] /\ wpc[w][g] \in Cancellable(w)
  /\ GotoW(w, g, "done")
  /\ UNCHANGED <<objVars, flag, lock, filter, selVars>>

\* The thread lowers its own flag and returns; nobody has joined it.
WorkerEnd(w, g) ==
  /\ AtW(w, g, "end")
  /\ SetFlag(w, FALSE)
  /\ filter' = IF w = "time" THEN Removed(filter, TOT) ELSE filter
  /\ GotoW(w, g, "done")
  /\ UNCHANGED <<objVars, lock, selVars>>

\* epg_thread: get_eit_for_all_service for the services with a schedule on the
\* frequency.  When there is none it returns 1 at once and is called again, past
\* no cancellation point, for ever ("spin") ...
EpgLoad(g) ==
  /\ AtW("epg", g, "start")
  /\ current_service # NoService
  /\ \E s \in Found :
     IF Shared(EpgServices, s)
     THEN filter' = Added(filter, Entry(EIT, "time")) /\ GotoW("epg", g, "down")
     ELSE GotoW("epg", g, "spin") /\ UNCHANGED filter
  /\ UNCHANGED <<objVars, flag, lock, selVars>>

EpgComplete(g) ==
  /\ AtW("epg", g, "down")
  /\ filter' = Removed(filter, EIT)
  /\ GotoW("epg", g, "got")
  /\ UNCHANGED <<objVars, flag, lock, selVars>>

\* ... parse_eit_sections_for_epg, which may fail ...
EpgParse(g) ==
  /\ AtW("epg", g, "got")
  /\ GotoW("epg", g, "wait") \/ GotoW("epg", g, "end")
  /\ UNCHANGED <<objVars, flag, lock, filter, selVars>>

\* ... and Save_EPG_data_for_each_service under epg_schedule_lock.
EpgLock(g) ==
  /\ AtW("epg", g, "wait")
  /\ lock["epg_schedule_lock"] = NoOne
  /\ Lock("epg_schedule_lock", "epg")
  /\ GotoW("epg", g, "save")
  /\ UNCHANGED <<objVars, flag, filter, selVars>>

\* Faulty: the thread ends without releasing the lock.
EpgSaveKeepsLock(g) ==
  /\ AtW("epg", g, "save")
  /\ GotoW("epg", g, "end")
  /\ UNCHANGED <<objVars, flag, lock, filter, selVars>>

EpgSave(g) ==
  /\ AtW("epg", g, "save")
  /\ Lock("epg_schedule_lock", NoOne)
  /\ GotoW("epg", g, "end")
  /\ UNCHANGED <<objVars, flag, filter, selVars>>

\* epg_pf_thread: after its interval it downloads under present_following_lock.
PfLock(g) ==
  /\ AtW("pf", g, "sleep")
  /\ lock["present_following_lock"] = NoOne
  /\ Lock("present_following_lock", "pf")
  /\ GotoW("pf", g, "start")
  /\ UNCHANGED <<objVars, flag, filter, selVars>>

PfLoad(g) ==
  /\ AtW("pf", g, "start")
  /\ current_service # NoService
  /\ \E s \in Found :
     IF Shared(PfServices, s)
     THEN filter' = Added(filter, Entry(EIT, "epg")) /\ GotoW("pf", g, "down")
     ELSE GotoW("pf", g, "rel") /\ UNCHANGED filter
  /\ UNCHANGED <<objVars, flag, lock, selVars>>

PfComplete(g) ==
  /\ AtW("pf", g, "down")
  /\ filter' = Removed(filter, EIT)
  /\ GotoW("pf", g, "rel")
  /\ UNCHANGED <<objVars, flag, lock, selVars>>

PfRelease(g) ==
  /\ AtW("pf", g, "rel")
  /\ Lock("present_following_lock", NoOne)
  /\ GotoW("pf", g, "sleep")
  /\ UNCHANGED <<objVars, flag, filter, selVars>>

\* time_update_thread: get_tot, tried again until it succeeds.
TimeLoad(g) ==
  /\ AtW("time", g, "start")
  /\ filter' = Added(filter, Entry(TOT, "time"))
  /\ GotoW("time", g, "down")
  /\ UNCHANGED <<objVars, flag, lock, selVars>>

TimeComplete(g) ==
  /\ AtW("time", g, "down")
  /\ filter' = Removed(filter, TOT)
  /\ GotoW("time", g, "set") \/ GotoW("time", g, "start")
  /\ UNCHANGED <<objVars, flag, lock, selVars>>

\* settimeofday, which may be refused.
TimeSet(g) ==
  /\ AtW("time", g, "set")
  /\ time_is_set' \in BOOLEAN
  /\ GotoW("time", g, "end")
  /\ UNCHANGED <<is_playing, is_scanning, current_service, freed, curr_freq, flag, lock, filter, selVars>>

\* The reads of current_service->frequency nobody guards: the workers' as they
\* start a download, a selection's before it stops what plays, and the one
\* after the pf thread was joined.  The process dies.
NullDereference ==
  /\ current_service = NoService
  /\ \/ \E w \in {"epg", "pf"}, g \in Threads : AtW(w, g, "start")
     \/ At("sw", "sel_stop") /\ is_playing
     \/ \E c \in Callers : At(c, "pf_join") /\ wpc["pf"][joining[c]] \in Ended
  /\ pc' = [c \in Callers |-> "dead"]
  /\ wpc' = [w \in Workers |-> [g \in Threads |-> "none"]]
  /\ UNCHANGED <<objVars, flag, lock, filter, stack, selVars, tid, cancelled, joining>>

-----------------------------------------------------------------------------
\* What users and timers start, and what a caller then does; what the workers
\* do without waiting for the stream, and what they wait for it to do.
Start ==
  \/ \E s \in Services \cup {NoService} : StartSelect(s)
  \/ ForceStart \/ EventStart \/ ListLock \/ ScanStart \/ Ticking

SwStep   == Exit("sw") \/ Stop("sw") \/ Event("sw") \/ Selecting
GuiStep  == Exit("gui") \/ Stop("gui") \/ Event("gui") \/ Gui
ScanStep == Exit("scan") \/ Stop("scan") \/ Scanning

EpgMust(g)  == EpgParse(g) \/ EpgLock(g) \/ EpgSave(g) \/ WorkerEnd("epg", g)
PfMust(g)   == PfLoad(g) \/ PfRelease(g)
TimeMust(g) == TimeSet(g) \/ WorkerEnd("time", g)
WorkerMay(g) ==
  EpgLoad(g) \/ EpgComplete(g) \/ PfLock(g) \/ PfComplete(g) \/ TimeLoad(g) \/ TimeComplete(g)

Next ==
  \/ Start \/ SwStep \/ GuiStep \/ ScanStep
  \/ \E g \in Threads : EpgMust(g) \/ PfMust(g) \/ TimeMust(g) \/ WorkerMay(g) \/ \E w \in Workers : Die(w, g)
  \/ NullDereference

\* Threads run: a caller inside a function and a worker that need not wait for
\* data go on, and a cancelled worker that keeps coming to a cancellation
\* point ends at one.  A step that reads through the service pointer is a step
\* or the end of the process.  Nothing makes the user act or the stream deliver.
Fairness ==
  /\ WF_vars(SwStep \/ NullDereference)
  /\ WF_vars(GuiStep \/ NullDereference)
  /\ WF_vars(ScanStep \/ NullDereference)
  /\ WF_vars(\E g \in Threads : EpgMust(g))
  /\ WF_vars((\E g \in Threads : PfMust(g)) \/ NullDereference)
  /\ WF_vars(\E g \in Threads : TimeMust(g))
  /\ \A w \in Workers : SF_vars(\E g \in Threads : Die(w, g))

Spec == Init /\ [][Next]_vars /\ Fairness

-----------------------------------------------------------------------------
(* Correctness *)

\* Whoever joins a worker joins a thread that exists and that nobody else is
\* joining: pthread_join on a thread joined before, or by two threads at once,
\* is undefined.  The flags alone, set and cleared by different threads, are
\* what the exits go by.
JoinOnce ==
  \A w \in Workers, c \in Callers :
    At(c, JoinStep[w]) =>
      /\ wpc[w][joining[c]] # "none"
      /\ \A d \in Callers \ {c} : At(d, JoinStep[w]) => joining[d] # joining[c]

\* A worker's flag is never up without a thread behind it to cancel and join,
\* running or ended and not joined yet, whichever of the two, creator or worker,
\* wrote it last.  The creator writes late: the flag may stay up over a thread
\* that has ended until the next exit lowers it.
FlagHasThread == \A w \in Workers : flag[w] => wpc[w][tid[w]] # "none"

\* No thread is created over a worker that still runs: the object keeps one
\* thread id per kind of worker and would lose the first one.
NoThreadLost ==
  [][ \A w \in Workers : Alive(w) /\ wpc[w][tid[w]] # "done" => tid'[w] = tid[w] ]_vars

\* When the tuner is moved and the new service's PIDs are loaded, every worker
\* of the old service has ended and left nothing in the filter.
QuietAtTune ==
  At("sw", "sel_tune") \/ At("sw", "sel_add") =>
    /\ \A w \in Workers : ~Alive(w)
    /\ \A b \in Buffers : ~Routed(filter, EIT, b) /\ ~Routed(filter, TOT, b)

\* What plays is what is routed: the media buffer gets the video and the audio
\* of the current service for as long as the object says it is playing,
\* whatever the workers load and unload meanwhile.
PlayingIsRouted ==
  is_playing => /\ current_service \in Services
                /\ \A kind \in {"video", "audio"} : Routed(filter, OwnPid(kind).pid, "media")

\* The clock update and the schedule download read the same buffer.  Never
\* does one of them load its PID while the other's is routed there.
TimeBufferNotShared == ~(Routed(filter, EIT, "time") /\ Routed(filter, TOT, "time"))

\* The downloads follow the service pointer without a lock: no step changes it,
\* or frees what it points to, under a worker that is running.  One that starts
\* after the list was loaded anew does read freed memory.
ServiceStable ==
  [][ \A w \in {"epg", "pf"} : Alive(w) => UNCHANGED <<current_service, freed>> ]_vars

\* "This function works while we play TV" (DTV_EPG_Present_Following_Start_
\* Update): once the switch thread and the GUI are back, nothing downloads
\* unless something plays.
WorkersOnlyWhilePlaying ==
  At("sw", "idle") /\ At("gui", "idle") /\ At("scan", "idle") /\ ~is_playing =>
    \A w \in Workers : ~Alive(w)

\* A selection ends, whatever it has to wait for, unless the user keeps
\* reading the schedule: an epg worker polls for the lock that guards it.  It
\* joins workers, so none of them may hold a lock it waits for or have been
\* started for a multiplex without a schedule.  A worker that read its frequency
\* from a freed service may be, so the selection that has to join it is excepted
\* up to the point where it sets the pointer.
SelectEnds ==
  <>[]~At("gui", "list_read") => (~At("sw", "idle") /\ ~freed ~> At("sw", "idle"))

\* The locks of the object outlive no one: when every caller is back, those a
\* caller takes are free, and a lock a worker has is held by one that runs.
LocksReleased ==
  (\A c \in Callers : At(c, "idle")) =>
    /\ \A m \in Locks : lock[m] \notin Callers
    /\ \A m \in Locks : lock[m] \in Workers => Alive(lock[m])

\* Every call returns, or the process has died.  A call made after the list was
\* loaded anew may have to join a worker that read a freed frequency and never
\* comes to a cancellation point: it is excepted until the pointer is set.
CallsEnd ==
  \A c \in Callers : ~At(c, "idle") /\ ~freed ~> At(c, "idle") \/ At(c, "dead")
=============================================================================
