------------------------- MODULE MediaPlayerProofs --------------------------
(* The media player, for every folder, every set of files that do not play   *)
(* and any number of nested calls and of events: its types, and that play()  *)
(* deletes the GStreamer player and starts a track, and setFile deletes it   *)
(* after stop(), only when no track thread runs.  The latter is not          *)
(* inductive: a call that was interrupted by a key comes back to the top of  *)
(* the stack when the call above it returns, so one has to know where calls  *)
(* can be interrupted (Frames).  A setFile without a stop does delete the    *)
(* player under the track thread; that nothing else does is the last theorem. *)
EXTENDS MediaPlayer, SequenceTheorems, TLAPS

-----------------------------------------------------------------------------
(* The stack of calls *)

Places == {"wait", "stop", "set", "setbus", "free", "freebus", "play", "join", "remake", "remakebus", "pause"}

\* Where events are handled.
Interruptible == {"wait", "stop", "play"}

\* A pick knows its file; the calls below the top one are where they handle events.
Frames(s) ==
  /\ s \in Seq(Calls)
  /\ \A i \in 1..Len(s) : s[i].kind \in {"pick", "resume"} => s[i].file \in Files
  /\ \A i \in 1..(Len(s) - 1) : s[i].at \in Interruptible

LEMMA FramesPush ==
  ASSUME NEW s, Frames(s),
         s # <<>> => s[Len(s)].at \in Interruptible,
         NEW c \in Calls, c.kind \in {"pick", "resume"} => c.file \in Files
  PROVE  LET p == Append(s, c) IN Frames(p) /\ p # <<>> /\ p[Len(p)] = c
<1> DEFINE p == Append(s, c)
<1>1. s \in Seq(Calls) /\ Len(s) \in Nat
  BY LenProperties DEF Frames
<1>2. p \in Seq(Calls) /\ Len(p) = Len(s) + 1 /\ p[Len(s) + 1] = c
      /\ \A i \in 1..Len(s) : p[i] = s[i]
  BY <1>1, AppendProperties
<1>3. p # <<>>
  BY <1>1, <1>2
<1>5. ASSUME NEW i \in 1..Len(p), p[i].kind \in {"pick", "resume"}
      PROVE  p[i].file \in Files
  <2>1. CASE i = Len(s) + 1
    BY <1>2, <1>5, <2>1
  <2>2. CASE i \in 1..Len(s)
    BY <1>2, <1>5, <2>2 DEF Frames
  <2> QED
    BY <1>1, <1>2, <2>1, <2>2
<1>6. ASSUME NEW i \in 1..(Len(p) - 1)
      PROVE  p[i].at \in Interruptible
  <2>1. i \in 1..Len(s) /\ p[i] = s[i]
    BY <1>1, <1>2
  <2>2. CASE i = Len(s)
    BY <2>1, <2>2, <1>1
  <2>3. CASE i \in 1..(Len(s) - 1)
    BY <2>1, <2>3 DEF Frames
  <2> QED
    BY <1>1, <2>1, <2>2, <2>3
<1> QED
  BY <1>1, <1>2, <1>3, <1>5, <1>6 DEF Frames

LEMMA FramesMove ==
  ASSUME NEW s, Frames(s), s # <<>>, NEW place \in Places
  PROVE  LET m == [s EXCEPT ![Len(s)].at = place]
         IN  Frames(m) /\ m # <<>> /\ Len(m) = Len(s) /\ m[Len(m)].at = place
<1> DEFINE n == Len(s)
           m == [s EXCEPT ![n].at = place]
<1>1. s \in Seq(Calls) /\ n \in Nat \ {0} /\ s \in [1..n -> Calls]
  BY LenProperties, EmptySeq DEF Frames
<1>2. [s[n] EXCEPT !.at = place] \in Calls
  BY <1>1 DEF Calls, Places
<1>3. m = [s EXCEPT ![n] = [s[n] EXCEPT !.at = place]]
  BY <1>1
<1>4. m \in Seq(Calls) /\ Len(m) = n /\ m[n] = [s[n] EXCEPT !.at = place]
      /\ \A i \in 1..n : i # n => m[i] = s[i]
  BY <1>1, <1>2, <1>3, ExceptSeq
<1>5. m # <<>>
  BY <1>1, <1>4
<1>6. s[n] \in Calls
  BY <1>1
<1>7. m[n].at = place /\ m[n].kind = s[n].kind /\ m[n].file = s[n].file
  BY <1>4, <1>6 DEF Calls
<1>8. \A i \in 1..Len(m) : m[i].kind \in {"pick", "resume"} => m[i].file \in Files
  BY <1>1, <1>4, <1>7 DEF Frames
<1>9. \A i \in 1..(Len(m) - 1) : m[i].at \in Interruptible
  BY <1>1, <1>4 DEF Frames
<1> QED
  BY <1>1, <1>4, <1>5, <1>7, <1>8, <1>9 DEF Frames

LEMMA FramesReturn ==
  ASSUME NEW s, Frames(s), s # <<>>
  PROVE  LET r == SubSeq(s, 1, Len(s) - 1)
         IN  Frames(r) /\ (r # <<>> => r[Len(r)].at \in Interruptible)
<1> DEFINE n == Len(s)
           r == SubSeq(s, 1, n - 1)
<1>1. s \in Seq(Calls) /\ n \in Nat \ {0}
  BY LenProperties, EmptySeq DEF Frames
<1>2. r \in Seq(Calls) /\ Len(r) = n - 1 /\ \A i \in 1..(n - 1) : r[i] = s[i]
  <2> DEFINE k == n - 1
  <2>1. k \in Int /\ 1 \in Int /\ \A i \in 1..k : s[i] \in Calls
    BY <1>1, LenProperties
  <2>2. /\ SubSeq(s, 1, k) \in Seq(Calls)
        /\ Len(SubSeq(s, 1, k)) = IF 1 <= k THEN k - 1 + 1 ELSE 0
        /\ \A i \in 1..(k - 1 + 1) : SubSeq(s, 1, k)[i] = s[1 + i - 1]
    <3> HIDE DEF k
    <3> QED
      BY <2>1, SubSeqProperties
  <2>3. k - 1 + 1 = n - 1 /\ (~(1 <= k) => n - 1 = 0)
    <3> HIDE DEF n
    <3> QED
      BY <1>1
  <2>4. \A i \in 1..(n - 1) : 1 + i - 1 = i
    OBVIOUS
  <2> QED
    BY <2>2, <2>3, <2>4
<1>3. r # <<>> => Len(r) \in 1..(n - 1)
  BY <1>1, <1>2, EmptySeq
<1>5. \A i \in 1..Len(r) : r[i].kind \in {"pick", "resume"} => r[i].file \in Files
  BY <1>1, <1>2 DEF Frames
<1>6. \A i \in 1..(n - 1) : r[i].at \in Interruptible
  BY <1>1, <1>2 DEF Frames
<1>7. \A i \in 1..(Len(r) - 1) : r[i].at \in Interruptible
  BY <1>1, <1>2, <1>6
<1> QED
  BY <1>2, <1>3, <1>5, <1>6, <1>7 DEF Frames

-----------------------------------------------------------------------------
(* Types *)

TypeInv ==
  /\ Frames(gui)
  /\ track \in {"no", "source", "prepare", "prepared", "start", "flags"}
  /\ bus \in {"idle", "complete", "error"}
  /\ pipe \in {"new", "ready", "paused", "playing"}
  /\ cur \in Files /\ selected \in Files /\ last_file \in Files \cup {None}
  /\ play_flag \in BOOLEAN /\ pause_play \in BOOLEAN /\ error_flag \in BOOLEAN
  /\ selecting_flag \in BOOLEAN /\ selecting \in BOOLEAN /\ blocked \in BOOLEAN
  /\ seek \in BOOLEAN /\ ff \in BOOLEAN /\ keys \in BOOLEAN /\ stick \in BOOLEAN
  /\ update \in BOOLEAN /\ tv \in BOOLEAN /\ crashed \in BOOLEAN /\ failed \in BOOLEAN
  /\ timers \subseteq {"pause", "ff"}
  /\ posted \in Seq({"prepared", "eos", "tvon", "tick"})
  /\ left \in 0..MaxEvents

LEMMA TypeInvType == TypeInv => TypeOK
  BY DEF TypeInv, TypeOK, Frames

\* The file after f is a file of the folder.
LEMMA FileAfterType ==
  ASSUME NEW f \in Files
  PROVE  FileAfter(f) \in Files
<1> DEFINE n == Len(Folder)
<1>1. n \in Nat \ {0}
  BY FolderAssumption
<1>2. PICK i \in 1..n : Folder[i] = f /\ FileAfter(f) = Folder[(i % n) + 1]
  BY DEF Files, FileAfter
<1>3. i % n \in 0..(n - 1)
  BY <1>1, <1>2
<1>4. (i % n) + 1 \in 1..n
  BY <1>1, <1>3
<1> QED
  BY <1>2, <1>4 DEF Files

LEMMA FilesNotEmpty == Folder[1] \in Files
  BY FolderAssumption DEF Files

LEMMA InitTypeInv == Init => TypeInv /\ DeletesAlone
<1> SUFFICES ASSUME Init PROVE TypeInv /\ DeletesAlone
  OBVIOUS
<1>1. Frames(<<>>)
  BY EmptySeq, FilesAssumption DEF Frames
<1>2. <<>> \in Seq({"prepared", "eos", "tvon", "tick"})
  BY EmptySeq
<1>3. MaxEvents \in 0..MaxEvents
  BY FilesAssumption
<1>4. TypeInv
  BY <1>1, <1>2, <1>3, FilesNotEmpty DEF Init, TypeInv
<1>5. DeletesAlone
  BY DEF Init, DeletesAlone
<1> QED
  BY <1>4, <1>5

\* What holds of the stack after each way of changing it.
TopAt(s, places) == s # <<>> /\ s[Len(s)].at \in places

LEMMA PushStep ==
  ASSUME TypeInv, Open, NEW c \in Calls,
         c.kind \in {"pick", "resume"} => c.file \in Files, Push(c)
  PROVE  Frames(gui') /\ gui' # <<>> /\ gui'[Len(gui')] = c
<1>1. gui # <<>> => gui[Len(gui)].at \in Interruptible
  BY DEF Open, Top, Interruptible
<1> QED
  BY <1>1, FramesPush DEF TypeInv, Push

LEMMA MoveStep ==
  ASSUME TypeInv, gui # <<>>, NEW place \in Places, MoveTo(place)
  PROVE  Frames(gui') /\ TopAt(gui', {place})
  BY FramesMove DEF TypeInv, MoveTo, TopAt

LEMMA ReturnStep ==
  ASSUME TypeInv, gui # <<>>, Returns
  PROVE  Frames(gui') /\ (gui' # <<>> => TopAt(gui', Interruptible))
  BY FramesReturn DEF TypeInv, Returns, TopAt

LEMMA PostStep ==
  ASSUME TypeInv, NEW signal \in {"prepared", "eos", "tvon", "tick"}, Post(signal)
  PROVE  posted' \in Seq({"prepared", "eos", "tvon", "tick"})
  BY AppendProperties DEF TypeInv, Post

LEMMA DeliverStep ==
  ASSUME TypeInv, NEW signal, Deliver(signal)
  PROVE  posted' \in Seq({"prepared", "eos", "tvon", "tick"})
  BY HeadTailProperties DEF TypeInv, Deliver

\* stop() has waited for the track thread.
LEMMA StopStep ==
  ASSUME TypeInv, StopBody
  PROVE  /\ track = "no"
         /\ pipe' \in {"new", "ready", "paused", "playing"} /\ play_flag' \in BOOLEAN
         /\ ff' \in BOOLEAN /\ selecting_flag' \in BOOLEAN /\ pause_play' \in BOOLEAN
  BY DEF StopBody, TypeInv

\* A pick begins in stop() or in setFile; neither deletes yet.
LEMMA PickStep ==
  ASSUME TypeInv, Open, NEW f \in Files, NEW kind \in {"pick", "resume"},
         on_file_selected(f, kind)
  PROVE  /\ Frames(gui') /\ TopAt(gui', {"stop", "set"})
         /\ blocked' \in BOOLEAN /\ selecting' \in BOOLEAN /\ failed' \in BOOLEAN
         /\ cur' \in Files /\ ff' \in BOOLEAN /\ selecting_flag' \in BOOLEAN
         /\ update' \in BOOLEAN
<1> DEFINE at == IF play_flag THEN "stop" ELSE "set"
           c == Call(kind, at, f)
<1>1. c \in Calls /\ c.file \in Files /\ c.at = at
  BY DEF Call, Calls
<1>2. Push(c)
  BY DEF on_file_selected
<1>3. Frames(gui') /\ gui' # <<>> /\ gui'[Len(gui')] = c
  <2> HIDE DEF c
  <2> QED
    BY <1>1, <1>2, PushStep
<1>4. blocked' \in BOOLEAN /\ selecting' \in BOOLEAN /\ failed' \in BOOLEAN
  BY DEF on_file_selected
<1>5. CASE play_flag
  <2>1. update' = FALSE /\ UNCHANGED <<cur, ff, selecting_flag>>
    BY <1>5 DEF on_file_selected, StopBegins
  <2> QED
    BY <1>1, <1>3, <1>4, <1>5, <2>1 DEF TypeInv, TopAt
<1>6. CASE ~play_flag
  <2>1. SetFile(f) /\ UNCHANGED update
    BY <1>6 DEF on_file_selected
  <2> QED
    BY <1>1, <1>3, <1>4, <1>6, <2>1 DEF SetFile, TopAt, TypeInv
<1> QED
  BY <1>5, <1>6

LEMMA AloneNow == DeletesAlone <=> (track = "no" \/ ~TopAt(gui, Deleting))
  BY DEF DeletesAlone, Top, TopAt

LEMMA AloneNext == DeletesAlone' <=> (track' = "no" \/ ~TopAt(gui', Deleting))
  BY DEF DeletesAlone, Top, TopAt

-----------------------------------------------------------------------------
(* The invariant *)

Inv == TypeInv /\ DeletesAlone

\* The GUI thread goes on with the call on top.
LEMMA GuiCallInv == Inv /\ GuiCall => Inv'
<1> SUFFICES ASSUME TypeInv, DeletesAlone, GuiCall PROVE TypeInv' /\ DeletesAlone'
  BY DEF Inv
<1>1. CASE DeleteLocks
  <2>1. CASE At("set") /\ MoveTo("setbus")
    <3>1. Frames(gui') /\ TopAt(gui', {"setbus"})
      BY <2>1, MoveStep DEF At, Places
    <3>2. DeletesAlone'
      BY <3>1, AloneNext DEF TopAt, Deleting
    <3> QED
      BY <1>1, <3>1, <3>2 DEF DeleteLocks, TypeInv, flags, pick, outside
  <2>2. CASE (At("free") \/ At("remake")) /\ (MoveTo("freebus") \/ MoveTo("remakebus"))
    <3>1. Frames(gui')
      BY <2>2, MoveStep DEF At, Places
    <3>2. track = "no"
      BY <2>2, AloneNow DEF At, Top, TopAt, Deleting
    <3> QED
      BY <1>1, <3>1, <3>2, AloneNext DEF DeleteLocks, TypeInv, flags, pick, outside
  <2> QED
    BY <1>1, <2>1, <2>2 DEF DeleteLocks
<1>2. CASE Freed
  <2>1. gui # <<>>
    BY <1>2 DEF Freed, At
  <2>2. Frames(gui') /\ (gui' # <<>> => TopAt(gui', Interruptible))
    <3>1. CASE pause_play
      BY <1>2, <2>1, <3>1, ReturnStep DEF Freed
    <3>2. CASE ~pause_play
      <4>1. Frames(gui') /\ TopAt(gui', {"play"})
        BY <1>2, <2>1, <3>2, MoveStep DEF Freed, Places
      <4> QED
        BY <4>1 DEF TopAt, Interruptible
    <3> QED
      BY <3>1, <3>2
  <2>3. DeletesAlone'
    BY <2>2, AloneNext DEF TopAt, Interruptible, Deleting
  <2>4. seek' \in BOOLEAN /\ keys' \in BOOLEAN /\ pause_play' \in BOOLEAN /\ update' \in BOOLEAN
        /\ crashed' \in BOOLEAN
    BY <1>2 DEF Freed, TypeInv
  <2> QED
    BY <1>2, <2>2, <2>3, <2>4 DEF Freed, TypeInv
<1>3. CASE PlayBegins
  <2>1. Frames(gui') /\ TopAt(gui', {"join"})
    BY <1>3, MoveStep DEF PlayBegins, At, Places
  <2>2. DeletesAlone'
    BY <2>1, AloneNext DEF TopAt, Deleting
  <2> QED
    BY <1>3, <2>1, <2>2 DEF PlayBegins, TypeInv, pick, outside
<1>4. CASE PlayJoins
  <2>1. Frames(gui')
    BY <1>4, MoveStep DEF PlayJoins, At, Places
  <2> QED
    BY <1>4, <2>1, AloneNext DEF PlayJoins, TypeInv, flags, pick, outside
<1>5. CASE PlayStarts
  <2>1. Frames(gui') /\ (gui' # <<>> => TopAt(gui', Interruptible))
    BY <1>5, ReturnStep DEF PlayStarts, At
  <2>2. DeletesAlone'
    BY <2>1, AloneNext DEF TopAt, Interruptible, Deleting
  <2>3. seek' \in BOOLEAN /\ keys' \in BOOLEAN
    BY <1>5 DEF PlayStarts, TypeInv
  <2> QED
    BY <1>5, <2>1, <2>2, <2>3 DEF PlayStarts, TypeInv, flags
<1>6. CASE StoppedForPick
  <2>1. gui # <<>> /\ Top.kind \in {"pick", "resume"} /\ Frames(gui) /\ Len(gui) \in 1..Len(gui)
    BY <1>6, EmptySeq DEF StoppedForPick, At, TypeInv, Frames
  <2>2. Top.file \in Files
    BY <2>1 DEF Frames, Top
  <2>3. Frames(gui')
    BY <1>6, <2>1, MoveStep DEF StoppedForPick, Places
  <2>4. /\ StopBody /\ cur' \in Files
        /\ UNCHANGED <<track, bus, error_flag, timers, update, pick, outside, posted, crashed, failed, left>>
    BY <1>6, <2>2 DEF StoppedForPick
  <2>5. DeletesAlone'
    BY <2>4, StopStep, AloneNext
  <2> QED
    BY <2>3, <2>4, <2>5, StopStep DEF TypeInv, pick, outside
<1>7. CASE QuitWaited
  <2>1. Frames(gui') /\ TopAt(gui', {"stop"})
    BY <1>7, MoveStep DEF QuitWaited, At, Places
  <2>2. DeletesAlone'
    BY <2>1, AloneNext DEF TopAt, Deleting
  <2>3. /\ update' \in BOOLEAN
        /\ UNCHANGED <<track, bus, pipe, cur, flags, ff, timers, pick, outside, posted, crashed,
                       failed, left>>
    BY <1>7 DEF QuitWaited, StopBegins
  <2> QED
    BY <2>1, <2>2, <2>3 DEF TypeInv, flags, pick, outside
<1>8. CASE QuitLeaves \/ RemoveStops
  <2>1. /\ gui # <<>> /\ Returns /\ StopBody
        /\ UNCHANGED <<track, bus, cur, error_flag, timers, update, pick, stick, tv, crashed,
                       failed, left>>
        /\ keys' \in {keys, FALSE}
        /\ posted' = posted \/ Post("tvon")
    BY <1>8 DEF QuitLeaves, RemoveStops, At, outside
  <2>2. Frames(gui')
    BY <2>1, ReturnStep
  <2>3. posted' \in Seq({"prepared", "eos", "tvon", "tick"})
    BY <2>1, PostStep DEF TypeInv
  <2>4. DeletesAlone'
    BY <2>1, StopStep, AloneNext
  <2>5. keys' \in BOOLEAN
    BY <2>1 DEF TypeInv
  <2> QED
    BY <2>1, <2>2, <2>3, <2>4, <2>5, StopStep DEF TypeInv, pick
<1>9. CASE doPauseEnds
  <2>1. Frames(gui') /\ (gui' # <<>> => TopAt(gui', Interruptible))
    BY <1>9, ReturnStep DEF doPauseEnds, At
  <2>2. DeletesAlone'
    BY <2>1, AloneNext DEF TopAt, Interruptible, Deleting
  <2> QED
    BY <1>9, <2>1, <2>2 DEF doPauseEnds, TypeInv, flags, pick, outside
<1> QED
  BY <1>1, <1>2, <1>3, <1>4, <1>5, <1>6, <1>7, <1>8, <1>9 DEF GuiCall

\* A queued signal is delivered where events are handled: no deletion is under way there.
LEMMA GuiEventInv == Inv /\ GuiEvent => Inv'
<1> SUFFICES ASSUME TypeInv, DeletesAlone, GuiEvent PROVE TypeInv' /\ DeletesAlone'
  BY DEF Inv
<1>1. posted' \in Seq({"prepared", "eos", "tvon", "tick"}) /\ Open
  BY DeliverStep DEF GuiEvent, onTimer, onMediaPrepared, onEOSForgets, onEOSNext, TvOn, Deliver
<1>0. CASE onTimer
  <2>1. DeletesAlone'
    BY <1>0, AloneNow, AloneNext DEF onTimer, TopAt
  <2>2. UNCHANGED <<gui, track, bus, pipe, cur, play_flag, pause_play, selecting_flag, ff,
                    timers, update, pick, outside, crashed, failed, left>>
        /\ error_flag' \in BOOLEAN
    BY <1>0 DEF onTimer
  <2> QED
    BY <1>1, <2>1, <2>2 DEF TypeInv, pick, outside
<1>2. CASE onMediaPrepared \/ onEOSForgets \/ TvOn
  <2>1. /\ UNCHANGED <<gui, track, bus, pipe, cur, flags, ff, timers, update, crashed, failed,
                       left, keys, stick>>
        /\ last_file' \in Files \cup {None} /\ selected' \in Files
        /\ selecting' \in BOOLEAN /\ blocked' \in BOOLEAN /\ seek' \in BOOLEAN /\ tv' \in BOOLEAN
    <3>1. CASE onMediaPrepared
      BY <3>1 DEF onMediaPrepared, outside, TypeInv
    <3>2. CASE onEOSForgets
      BY <3>2 DEF onEOSForgets, outside, TypeInv
    <3>3. CASE TvOn
      BY <3>3 DEF TvOn, pick, TypeInv
    <3> QED
      BY <1>2, <3>1, <3>2, <3>3
  <2>2. DeletesAlone'
    BY <2>1, AloneNow, AloneNext DEF TopAt
  <2> QED
    BY <1>1, <2>1, <2>2 DEF TypeInv, flags
<1>3. CASE onEOSNext
  <2>1. CASE UNCHANGED <<gui, cur, ff, selecting_flag>>
    <3>1. DeletesAlone'
      BY <1>3, <2>1, AloneNow, AloneNext DEF TopAt, onEOSNext
    <3> QED
      BY <1>1, <1>3, <2>1, <3>1 DEF onEOSNext, TypeInv, pick, outside
  <2>2. CASE SetFile(FileAfter(cur)) /\ Push(Call("next", "set", FileAfter(cur)))
    <3> DEFINE c == Call("next", "set", FileAfter(cur))
    <3>1. FileAfter(cur) \in Files
      BY FileAfterType DEF TypeInv
    <3>2. c \in Calls /\ c.file \in Files /\ c.at = "set"
      BY <3>1 DEF Call, Calls
    <3>3. Frames(gui') /\ gui' # <<>> /\ gui'[Len(gui')] = c
      <4> HIDE DEF c
      <4> QED
        BY <1>1, <1>3, <2>2, <3>2, PushStep DEF onEOSNext, c
    <3>5. DeletesAlone'
      BY <3>2, <3>3, AloneNext DEF TopAt, Deleting
    <3>6. UNCHANGED <<track, bus, pipe, play_flag, pause_play, error_flag, timers, update,
                      pick, outside, crashed, failed, left>>
      BY <1>3 DEF onEOSNext
    <3>7. cur' \in Files /\ ff' \in BOOLEAN /\ selecting_flag' \in BOOLEAN
      BY <2>2, <3>1 DEF SetFile
    <3> QED
      BY <1>1, <3>3, <3>5, <3>6, <3>7 DEF TypeInv, pick, outside
  <2> QED
    BY <1>3, <2>1, <2>2 DEF onEOSNext
<1> QED
  BY <1>0, <1>2, <1>3 DEF GuiEvent

LEMMA GuiTimerInv == Inv /\ GuiTimer => Inv'
<1> SUFFICES ASSUME TypeInv, DeletesAlone, GuiTimer PROVE TypeInv' /\ DeletesAlone'
  BY DEF Inv
<1>1. CASE doPauseResumes
  <2>1. DeletesAlone'
    BY <1>1, AloneNow, AloneNext DEF doPauseResumes, TopAt
  <2>2. pipe' \in {"new", "ready", "paused", "playing"} /\ timers' \subseteq {"pause", "ff"}
        /\ pause_play' \in BOOLEAN
    BY <1>1 DEF doPauseResumes, TypeInv
  <2>3. UNCHANGED <<gui, track, bus, cur, play_flag, error_flag, selecting_flag, ff, update,
                    pick, outside, posted, crashed, failed, left>>
    BY <1>1 DEF doPauseResumes
  <2> QED
    BY <2>1, <2>2, <2>3 DEF TypeInv, pick, outside
<1>2. CASE doPauseBegins
  <2> DEFINE c == Call("pause", "pause", None)
  <2>1. c \in Calls /\ c.kind = "pause" /\ c.at = "pause"
    BY DEF Call, Calls
  <2>2. Frames(gui') /\ gui' # <<>> /\ gui'[Len(gui')] = c
    <3> HIDE DEF c
    <3> QED
      BY <1>2, <2>1, PushStep DEF doPauseBegins, c
  <2>3. DeletesAlone'
    BY <2>1, <2>2, AloneNext DEF TopAt, Deleting
  <2> QED
    BY <1>2, <2>2, <2>3 DEF doPauseBegins, TypeInv, pick, outside
<1>3. CASE onTimerFfFb
  <2>1. posted' \in Seq({"prepared", "eos", "tvon", "tick"})
    BY <1>3, PostStep DEF onTimerFfFb, TypeInv
  <2>2. DeletesAlone'
    BY <1>3, AloneNow, AloneNext DEF onTimerFfFb, TopAt
  <2>3. pipe' \in {"new", "ready", "paused", "playing"} /\ timers' \subseteq {"pause", "ff"}
        /\ ff' \in BOOLEAN
    BY <1>3 DEF onTimerFfFb, TypeInv
  <2>4. UNCHANGED <<gui, track, bus, cur, flags, update, pick, outside, crashed, failed, left>>
    BY <1>3 DEF onTimerFfFb
  <2> QED
    BY <2>1, <2>2, <2>3, <2>4 DEF TypeInv, flags, pick, outside
<1> QED
  BY <1>1, <1>2, <1>3 DEF GuiTimer

\* A key, the stick, or the change back from the TV part, handled at any place that handles events.
LEMMA UserInv == Inv /\ User => Inv'
<1> SUFFICES ASSUME TypeInv, DeletesAlone, User PROVE TypeInv' /\ DeletesAlone'
  BY DEF Inv
<1>a. left > 0 /\ left' = left - 1 => left' \in 0..MaxEvents
  BY FilesAssumption DEF TypeInv
<1>b. ASSUME TopAt(gui', {"stop", "set"})
      PROVE  DeletesAlone'
  BY <1>b, AloneNext DEF TopAt, Deleting
<1>c. ASSUME UNCHANGED <<gui, track>>
      PROVE  DeletesAlone'
  BY <1>c, AloneNow, AloneNext DEF TopAt
<1>1. CASE MediaPlayerResume
  <2>1. CASE last_file # None /\ stick
    <3>1. on_file_selected(last_file, "resume") /\ last_file \in Files /\ UNCHANGED keys
      BY <1>1, <2>1 DEF MediaPlayerResume, TypeInv
    <3>2. /\ Open /\ tv' \in BOOLEAN /\ left > 0 /\ left' = left - 1
          /\ UNCHANGED <<track, bus, pipe, play_flag, pause_play, error_flag, timers,
                         seek, selected, last_file, stick, posted, crashed>>
      BY <1>1 DEF MediaPlayerResume
    <3>3. /\ Frames(gui') /\ TopAt(gui', {"stop", "set"})
          /\ blocked' \in BOOLEAN /\ selecting' \in BOOLEAN /\ failed' \in BOOLEAN
          /\ cur' \in Files /\ ff' \in BOOLEAN /\ selecting_flag' \in BOOLEAN
          /\ update' \in BOOLEAN
      BY <3>1, <3>2, PickStep
    <3> QED
      BY <1>a, <1>b, <3>1, <3>2, <3>3 DEF TypeInv
  <2>2. CASE ~(last_file # None /\ stick)
    <3>1. /\ blocked' \in BOOLEAN /\ keys' \in BOOLEAN /\ tv' \in BOOLEAN /\ left > 0 /\ left' = left - 1
          /\ UNCHANGED <<gui, cur, ff, selecting_flag, selecting, update, failed>>
          /\ UNCHANGED <<track, bus, pipe, play_flag, pause_play, error_flag, timers,
                         seek, selected, last_file, stick, posted, crashed>>
      BY <1>1, <2>2 DEF MediaPlayerResume
    <3> QED
      BY <1>a, <1>c, <3>1 DEF TypeInv
  <2> QED
    BY <2>1, <2>2
<1>2. CASE onMediaInsert
  <2>1. CASE ~seek /\ ~play_flag /\ last_file # None
    <3>1. on_file_selected(last_file, "pick") /\ last_file \in Files /\ seek' = TRUE
      BY <1>2, <2>1 DEF onMediaInsert, TypeInv
    <3> QED
      BY <1>2, <1>a, <1>b, <3>1, PickStep DEF onMediaInsert, TypeInv
  <2>2. CASE ~(~seek /\ ~play_flag /\ last_file # None)
    BY <1>2, <1>a, <1>c, <2>2 DEF onMediaInsert, TypeInv
  <2> QED
    BY <2>1, <2>2
<1>3. CASE onMediaRemove
  <2>a. /\ left > 0 /\ left' = left - 1 /\ stick' \in BOOLEAN
        /\ update' \in BOOLEAN
        /\ UNCHANGED <<track, bus, pipe, cur, flags, ff, timers, pick, keys, posted, tv, crashed,
                       failed>>
    BY <1>3 DEF onMediaRemove, StopBegins, TypeInv
  <2>1. CASE play_flag
    <3> DEFINE c == Call("remove", "stop", None)
    <3>1. c \in Calls /\ c.kind = "remove" /\ c.at = "stop"
      BY DEF Call, Calls
    <3>2. Frames(gui') /\ gui' # <<>> /\ gui'[Len(gui')] = c
      <4> HIDE DEF c
      <4> QED
        BY <1>3, <2>1, <3>1, PushStep DEF onMediaRemove, c
    <3>3. DeletesAlone'
      BY <3>1, <3>2, AloneNext DEF TopAt, Deleting
    <3> QED
      BY <1>a, <2>a, <3>2, <3>3 DEF TypeInv, flags, pick
  <2>2. CASE ~play_flag
    <3>1. UNCHANGED gui
      BY <1>3, <2>2 DEF onMediaRemove
    <3> QED
      BY <1>a, <1>c, <2>a, <3>1 DEF TypeInv, flags, pick
  <2> QED
    BY <2>1, <2>2
<1>4. CASE KeyQuit
  <2> DEFINE c == Call("quit", "wait", None)
  <2>1. c \in Calls /\ c.kind = "quit" /\ c.at = "wait"
    BY DEF Call, Calls
  <2>2. Frames(gui') /\ gui' # <<>> /\ gui'[Len(gui')] = c
    <3> HIDE DEF c
    <3> QED
      BY <1>4, <2>1, PushStep DEF KeyQuit, c
  <2>3. DeletesAlone'
    BY <2>1, <2>2, AloneNext DEF TopAt, Deleting
  <2> QED
    BY <1>4, <1>a, <2>2, <2>3 DEF KeyQuit, TypeInv, flags, pick, outside
<1>5. CASE KeyWind
  BY <1>5, <1>a, <1>c DEF KeyWind, TypeInv, flags, pick, outside
<1>6. ASSUME NEW f \in Files, KeyOk(f)
      PROVE  TypeInv' /\ DeletesAlone'
  <2>1. CASE on_file_selected(f, "pick") /\ UNCHANGED timers
    BY <1>6, <1>a, <1>b, <2>1, PickStep DEF KeyOk, TypeInv, outside
  <2>2. CASE timers' = timers \cup {"pause"}
             /\ UNCHANGED <<gui, cur, ff, selecting_flag, selecting, blocked, update, failed>>
    BY <1>6, <1>a, <1>c, <2>2 DEF KeyOk, TypeInv, outside
  <2> QED
    BY <1>6, <2>1, <2>2 DEF KeyOk
<1> QED
  BY <1>1, <1>2, <1>3, <1>4, <1>5, <1>6 DEF User

\* The track thread runs only when no deletion is under way, and so changes nothing of it.
LEMMA TrackInv == Inv /\ TrackThread => Inv'
<1> SUFFICES ASSUME TypeInv, DeletesAlone, TrackThread PROVE TypeInv' /\ DeletesAlone'
  BY DEF Inv
<1>1. /\ track # "no" /\ ~crashed
      /\ UNCHANGED <<gui, bus, cur, ff, timers, pick, outside, crashed, left>>
  BY DEF TrackThread, TrackSource, TrackPrepare, TrackGoesOn, TrackStart, TrackRuns
<1>2. DeletesAlone'
  BY <1>1, AloneNow, AloneNext DEF TopAt
<1>3. posted' \in Seq({"prepared", "eos", "tvon", "tick"})
  <2>1. posted' = posted \/ Post("prepared") \/ Post("eos")
    BY DEF TrackThread, TrackSource, TrackPrepare, TrackGoesOn, TrackStart, TrackRuns, TrackFails
  <2> QED
    BY <2>1, PostStep DEF TypeInv
<1>4. /\ track' \in {"no", "source", "prepare", "prepared", "start", "flags"}
      /\ pipe' \in {"new", "ready", "paused", "playing"}
  BY DEF TrackThread, TrackSource, TrackPrepare, TrackGoesOn, TrackStart, TrackRuns, TrackFails, TypeInv
<1>5. /\ play_flag' \in BOOLEAN /\ pause_play' \in BOOLEAN /\ error_flag' \in BOOLEAN
      /\ selecting_flag' \in BOOLEAN
  BY DEF TrackThread, TrackSource, TrackPrepare, TrackGoesOn, TrackStart, TrackRuns, TrackFails, TypeInv, flags
<1>6. update' \in BOOLEAN /\ failed' \in BOOLEAN
  BY DEF TrackThread, TrackSource, TrackPrepare, TrackGoesOn, TrackStart, TrackRuns, TrackFails,
         NoteFailure, TypeInv
<1> QED
  BY <1>1, <1>2, <1>3, <1>4, <1>5, <1>6 DEF TypeInv, pick, outside

LEMMA BusInv == Inv /\ (Callbacks \/ TrackEnds \/ StreamFails \/ UpdateTick) => Inv'
<1> SUFFICES ASSUME TypeInv, DeletesAlone, Callbacks \/ TrackEnds \/ StreamFails \/ UpdateTick
             PROVE  TypeInv' /\ DeletesAlone'
  BY DEF Inv
<1>1. UNCHANGED <<gui, track, cur, play_flag, pause_play, ff, timers, pick, outside, crashed>>
  BY DEF Callbacks, PlaybackComplete, MediaError, TrackEnds, StreamFails, UpdateTick, flags
<1>2. DeletesAlone'
  BY <1>1, AloneNow, AloneNext DEF TopAt
<1>3. posted' \in Seq({"prepared", "eos", "tvon", "tick"})
  <2>1. posted' = posted \/ Post("eos") \/ Post("tick")
    BY DEF Callbacks, PlaybackComplete, MediaError, TrackEnds, StreamFails, UpdateTick, Reported
  <2> QED
    BY <2>1, PostStep DEF TypeInv
<1>4. /\ bus' \in {"idle", "complete", "error"}
      /\ pipe' \in {"new", "ready", "paused", "playing"}
  BY DEF Callbacks, PlaybackComplete, MediaError, TrackEnds, StreamFails, UpdateTick, TypeInv
<1>5. error_flag' \in BOOLEAN /\ selecting_flag' \in BOOLEAN
  BY DEF Callbacks, PlaybackComplete, MediaError, TrackEnds, StreamFails, UpdateTick, TypeInv, flags
<1>6. left' \in 0..MaxEvents
  <2>1. left' = left \/ (left > 0 /\ left' = left - 1)
    BY DEF Callbacks, PlaybackComplete, MediaError, TrackEnds, StreamFails, UpdateTick
  <2> QED
    BY <2>1, FilesAssumption DEF TypeInv
<1>7. update' \in BOOLEAN /\ failed' \in BOOLEAN
  BY DEF Callbacks, PlaybackComplete, MediaError, TrackEnds, StreamFails, UpdateTick, NoteFailure,
         TypeInv
<1> QED
  BY <1>1, <1>2, <1>3, <1>4, <1>5, <1>6, <1>7 DEF TypeInv, pick, outside

LEMMA StutterInv == Inv /\ UNCHANGED vars => Inv'
  BY AloneNow, AloneNext DEF Inv, TypeInv, TopAt, vars, flags, pick, outside

LEMMA InvAlways == Spec => []Inv
<1>1. Inv /\ [Next]_vars => Inv'
  BY GuiCallInv, GuiEventInv, GuiTimerInv, UserInv, TrackInv, BusInv, StutterInv DEF Next
<1> QED
  BY <1>1, InitTypeInv, PTL DEF Spec, Inv

-----------------------------------------------------------------------------
(* Theorems *)

\* Whatever is nested on the GUI thread's stack, every call on it and every variable of the
\* player keeps its type, and a file that is picked or played is one of the folder.
THEOREM TypeCorrect == Spec => []TypeOK
  BY InvAlways, TypeInvType, PTL DEF Inv

\* play() deletes the player and makes the next one, and setFile does so after stop(), with no
\* track thread running, whatever keys and signals were handled inside those calls.  A setFile
\* that follows no stop() is not spoken of (see OnlySetFileFreesUnderTrack).
THEOREM DeletesAlwaysAlone == Spec => []DeletesAlone
  BY InvAlways, PTL DEF Inv

\* play() starts the track thread only when the one before has ended: no start is lost on a
\* QThread that still runs, and no two tracks use the player at once.
THEOREM NoStartLost == Spec => [][PlayStarts => track = "no"]_vars
<1>1. Inv /\ [Next]_vars => [PlayStarts => track = "no"]_vars
  BY AloneNow DEF Inv, PlayStarts, At, Top, TopAt, Deleting
<1> QED
  BY <1>1, InvAlways, PTL DEF Spec

\* The player is freed while the track thread uses it in one case only, which the code does not
\* prevent: a setFile that no stop() came before, that is, of a pick while nothing plays yet
\* (QMostMediaPlayer.cpp:518) or of next() (QMediaPlayer.cpp:1279).
FreesUnderTrack == crashed' /\ ~crashed

THEOREM OnlySetFileFreesUnderTrack ==
    Spec => [][FreesUnderTrack => At("setbus") /\ track # "no"]_vars
<1>1. Inv /\ [Next]_vars => [FreesUnderTrack => At("setbus") /\ track # "no"]_vars
  <2> SUFFICES ASSUME DeletesAlone, Next, FreesUnderTrack
               PROVE  At("setbus") /\ track # "no"
    BY DEF Inv, FreesUnderTrack, vars
  <2>1. Freed
    BY DEF Next, FreesUnderTrack, GuiCall, DeleteLocks, PlayBegins, PlayJoins, PlayStarts,
           StoppedForPick, QuitWaited, QuitLeaves, RemoveStops, doPauseEnds, GuiEvent, onTimer,
           onMediaPrepared, onEOSForgets, onEOSNext, TvOn, GuiTimer, doPauseResumes,
           doPauseBegins, onTimerFfFb, User, MediaPlayerResume, onMediaInsert, onMediaRemove,
           KeyQuit, KeyWind, KeyOk, TrackThread, TrackSource, TrackPrepare, TrackGoesOn,
           TrackStart, TrackRuns, Callbacks, PlaybackComplete, MediaError, TrackEnds,
           StreamFails, UpdateTick
  <2>2. track # "no"
    BY <2>1 DEF Freed, FreesUnderTrack
  <2>3. ~At("freebus")
    BY <2>2 DEF DeletesAlone, At, Deleting
  <2> QED
    BY <2>1, <2>2, <2>3 DEF Freed
<1> QED
  BY <1>1, InvAlways, PTL DEF Spec
=============================================================================
