---------------------------- MODULE MediaPlayer ----------------------------
(***************************************************************************)
(* The media player: QMediaPlayerMain (QMostMediaPlayer.cpp) decides which *)
(* file plays, QMediaPlayer owns the GstPlayer object, QMpStartThrd starts *)
(* a track in its own thread and the GStreamer bus thread reports the end  *)
(* of a track and errors through testGstPlayerCB.                          *)
(*                                                                         *)
(* stop() and play() call QCoreApplication::processEvents, and quitToTv    *)
(* does it in a loop: a key or a queued signal can be handled inside them, *)
(* so the calls of the GUI thread form a stack.  Two things make that      *)
(* thread wait without handling events: the end of the track thread, and   *)
(* the destructor of GstPlayer, which waits for the pipeline's mutex and   *)
(* holds it while it joins the bus thread.                                 *)
(***************************************************************************)
EXTENDS Integers, Sequences

CONSTANTS Folder,      \* the files of the only folder, in the order they are listed
          Bad,         \* the files GStreamer cannot play
          None,        \* no last file in the settings
          MaxEvents,   \* bound: keys, insertions and removals of the stick, stream errors
          MaxNest      \* bound: calls on the GUI thread's stack once the user acts

ASSUME FolderAssumption == Len(Folder) \in Nat \ {0}

Files == {Folder[i] : i \in 1..Len(Folder)}

ASSUME FilesAssumption == /\ Bad \subseteq Files
                          /\ None \notin Files
                          /\ MaxEvents \in Nat /\ MaxNest \in Nat

VARIABLES
    gui,        \* the GUI thread's calls, the innermost one last
    track,      \* where QMpStartThrd::run is, "no" when it does not run
    bus,        \* the callback the bus thread is in
    pipe,       \* state of the pipeline of gstplayer
    cur,        \* current_file_name
    play_flag, pause_play, error_flag,
    selecting_flag,   \* QMediaPlayer's: a track is being selected
    ff,         \* a winding key is held: ff_fb_flag with ff_fb_flag2 or 3
    timers,     \* the single-shot timers that run
    update,     \* update_timer runs: once a second the display is drawn anew
    selecting,  \* QMediaPlayerMain's: a pick is on its way, quitToTv waits
    blocked,    \* blockSignals(true) is in force
    seek,       \* seekToLastPosition
    selected,   \* the file of selected_browser_item
    last_file,  \* the last file saved in the settings
    keys,       \* sigMenuAction is connected
    stick,      \* the medium is inserted
    posted,     \* queued signals: sigMediaPrepared, sigEOS, sigTvOnOff, the display's tick
    tv,         \* the TV part runs
    crashed,    \* the player was freed under the track thread
    failed,     \* history: the track of the last pick has failed
    left        \* events left

vars == <<gui, track, bus, pipe, cur, play_flag, pause_play, error_flag,
          selecting_flag, ff, timers, update, selecting, blocked, seek, selected,
          last_file, keys, stick, posted, tv, crashed, failed, left>>
flags    == <<play_flag, pause_play, error_flag, selecting_flag>>
pick     == <<selecting, blocked, seek, selected, last_file>>
outside  == <<keys, stick, tv>>

Call(kind, at, file) == [kind |-> kind, at |-> at, file |-> file]
Calls == [kind : {"pick", "next", "resume", "remove", "quit", "pause"},
          at   : {"wait", "stop", "set", "setbus", "free", "freebus", "play", "join",
                  "remake", "remakebus", "pause"},
          file : Files \cup {None}]

TypeOK ==
    /\ gui \in Seq(Calls)
    /\ track \in {"no", "source", "prepare", "prepared", "start", "flags"}
    /\ bus \in {"idle", "complete", "error"}
    /\ pipe \in {"new", "ready", "paused", "playing"}
    /\ cur \in Files /\ selected \in Files /\ last_file \in Files \cup {None}
    /\ {play_flag, pause_play, error_flag, selecting_flag, selecting, blocked,
        seek, ff, update, keys, stick, tv, crashed, failed} \subseteq BOOLEAN
    /\ timers \subseteq {"pause", "ff"}
    /\ posted \in Seq({"prepared", "eos", "tvon", "tick"})
    /\ left \in 0..MaxEvents

\* The program has started into the media player and the last file plays.
Init ==
    /\ gui = <<>> /\ track = "no" /\ bus = "idle" /\ pipe = "playing"
    /\ cur = Folder[1] /\ selected = cur /\ last_file = cur
    /\ play_flag = TRUE /\ pause_play = FALSE /\ error_flag = FALSE
    /\ selecting_flag = FALSE /\ ff = FALSE /\ timers = {} /\ update = TRUE
    /\ selecting = FALSE /\ blocked = FALSE /\ seek = FALSE
    /\ keys = TRUE /\ stick = TRUE /\ posted = <<>> /\ tv = FALSE
    /\ crashed = FALSE /\ failed = FALSE /\ left = MaxEvents

-----------------------------------------------------------------------------
(***************************************************************************)
(* The stack and the mutex.                                                *)
(***************************************************************************)
Top == gui[Len(gui)]
At(place) == ~crashed /\ gui # <<>> /\ Top.at = place
Push(call) == gui' = Append(gui, call)
MoveTo(place) == gui' = [gui EXCEPT ![Len(gui)].at = place]
Returns == gui' = SubSeq(gui, 1, Len(gui) - 1)

\* The GUI thread handles events: in its main loop or in processEvents.
Open == /\ ~crashed
        /\ gui # <<>> => Top.at \in {"wait", "stop", "play"}

Room == Len(gui) < MaxNest

\* The destructor has mActionMutex and joins the bus thread with it.
Joining == At("setbus") \/ At("freebus") \/ At("remakebus")

\* mActionMutex is not held: prepare() and start() hold it while they wait for
\* GStreamer, the destructor (which gives it up while it joins the thread for
\* winding) while it joins the bus thread.
MutexFree == track \notin {"prepare", "start"} /\ ~Joining

\* The destructor joins the bus thread, whose callback needs the mutex the
\* destructor holds.
Stuck == Joining /\ bus # "idle"

Post(signal) == posted' = Append(posted, signal)

-----------------------------------------------------------------------------
(***************************************************************************)
(* setFile, stop and play, for whoever called them.                        *)
(***************************************************************************)
\* setFile: the file is noted, the flags are cleared and the player will be
\* deleted, whether or not the track thread is still using it.
SetFile(f) ==
    /\ cur' = f
    /\ ff' = FALSE
    /\ selecting_flag' = FALSE

\* The destructor takes the mutex: setFile's for a call that has not waited for the
\* track thread ("set"), setFile's after stop() ("free"), play's ("remake").
DeleteLocks ==
    /\ MutexFree
    /\ \/ At("set") /\ MoveTo("setbus")
       \/ At("free") /\ MoveTo("freebus")
       \/ At("remake") /\ MoveTo("remakebus")
    /\ UNCHANGED <<track, bus, pipe, cur, flags, ff, timers, update, pick, outside,
                   posted, crashed, failed, left>>

\* The destructor returns once the bus thread has ended; if the track thread still
\* runs, what it does with the freed player is undefined, and the model ends.
\* setFile makes a new player and play() begins: the display's timer is stopped
\* and events are handled.  A paused player is only resumed: a call of play()
\* that finds pause_play set starts no track.
Freed ==
    /\ At("setbus") \/ At("freebus")
    /\ bus = "idle"
    /\ pipe' = "new"
    /\ crashed' = (track # "no")
    /\ IF pause_play THEN /\ pause_play' = FALSE
                          /\ Returns
                          /\ seek' = (seek \/ Top.kind = "resume")
                          /\ keys' = (keys \/ Top.kind = "resume")
                          /\ UNCHANGED update
                     ELSE /\ MoveTo("play")
                          /\ update' = FALSE
                          /\ UNCHANGED <<pause_play, seek, keys>>
    /\ UNCHANGED <<track, bus, cur, play_flag, error_flag, selecting_flag, ff, timers,
                   selecting, blocked, selected, last_file, stick, posted, tv, failed,
                   left>>

\* play(): the events have been handled, a selection begins.
PlayBegins ==
    /\ At("play")
    /\ selecting_flag' = TRUE
    /\ MoveTo("join")
    /\ UNCHANGED <<track, bus, pipe, cur, play_flag, pause_play, error_flag, ff,
                   timers, update, pick, outside, posted, crashed, failed, left>>

\* play() without the wait for the track thread (a slip).
PlayJoinsNoWait ==
    /\ At("join") /\ MutexFree
    /\ pipe' = "ready"
    /\ MoveTo("remake")
    /\ UNCHANGED <<track, bus, cur, flags, ff, timers, update, pick, outside, posted,
                   crashed, failed, left>>

\* The track thread has ended; the player is stopped and deleted.
PlayJoins ==
    /\ At("join") /\ track = "no" /\ MutexFree
    /\ pipe' = "ready"
    /\ MoveTo("remake")
    /\ UNCHANGED <<track, bus, cur, flags, ff, timers, update, pick, outside, posted,
                   crashed, failed, left>>

\* A new player, and the track thread is started; the caller returns.
PlayStarts ==
    /\ At("remakebus") /\ bus = "idle"
    /\ pipe' = "new"
    /\ track' = "source"
    /\ Returns
    /\ seek' = (seek \/ Top.kind = "resume")
    /\ keys' = (keys \/ Top.kind = "resume")
    /\ UNCHANGED <<bus, cur, flags, ff, timers, update, selecting, blocked, selected,
                   last_file, stick, posted, tv, crashed, failed, left>>

\* stop() after its processEvents: the flags are cleared, the track thread is
\* waited for, and a paused or a playing player is stopped.
StopBody ==
    /\ track = "no"
    /\ ff' = FALSE
    /\ selecting_flag' = FALSE
    /\ pause_play' = FALSE
    /\ pipe' = IF pause_play \/ pipe = "playing" THEN "ready" ELSE pipe
    /\ play_flag' = (play_flag /\ (pause_play \/ pipe # "playing"))

-----------------------------------------------------------------------------
(***************************************************************************)
(* on_file_selected, quitToTv and the medium.                              *)
(***************************************************************************)
\* stop() begins: the display's timer is stopped and events are handled.
StopBegins == update' = FALSE

\* on_file_selected: signals are blocked until the track is prepared; a player
\* that plays is stopped first.
on_file_selected(f, kind) ==
    /\ blocked' = TRUE
    /\ selecting' = TRUE
    /\ failed' = FALSE
    /\ IF play_flag THEN /\ Push(Call(kind, "stop", f))
                         /\ StopBegins
                         /\ UNCHANGED <<cur, ff, selecting_flag>>
                    ELSE /\ Push(Call(kind, "set", f))
                         /\ SetFile(f)
                         /\ UNCHANGED update

\* stop() returns to on_file_selected, which goes on to setFile.
StoppedForPick ==
    /\ At("stop") /\ Top.kind \in {"pick", "resume"}
    /\ StopBody
    /\ cur' = Top.file
    /\ MoveTo("free")
    /\ UNCHANGED <<track, bus, error_flag, timers, update, pick, outside, posted,
                   crashed, failed, left>>

\* quitToTv has waited until no pick is on its way.
QuitWaited ==
    /\ At("wait") /\ ~selecting
    /\ MoveTo("stop")
    /\ StopBegins
    /\ UNCHANGED <<track, bus, pipe, cur, flags, ff, timers, pick, outside,
                   posted, crashed, failed, left>>

\* stop() returns to quitToTv: the keys are disconnected and the TV part is
\* called, unless the signals are blocked.
QuitLeaves ==
    /\ At("stop") /\ Top.kind = "quit"
    /\ StopBody
    /\ keys' = FALSE
    /\ IF blocked THEN UNCHANGED posted ELSE Post("tvon")
    /\ Returns
    /\ UNCHANGED <<track, bus, cur, error_flag, timers, update, pick, stick, tv,
                   crashed, failed, left>>

\* stop() returns to onMediaRemove.
RemoveStops ==
    /\ At("stop") /\ Top.kind = "remove"
    /\ StopBody
    /\ Returns
    /\ UNCHANGED <<track, bus, cur, error_flag, timers, update, pick, outside, posted,
                   crashed, failed, left>>

\* doStartMediaMplayer and MediaPlayerResume: the TV part is stopped, the last
\* file is picked again if it is found.
MediaPlayerResume ==
    /\ Open /\ Room /\ tv /\ left > 0
    /\ left' = left - 1
    /\ tv' = FALSE
    /\ IF last_file # None /\ stick
       THEN on_file_selected(last_file, "resume") /\ UNCHANGED keys
       ELSE /\ blocked' = FALSE /\ keys' = TRUE
            /\ UNCHANGED <<gui, cur, ff, selecting_flag, selecting, update, failed>>
    /\ UNCHANGED <<track, bus, pipe, play_flag, pause_play, error_flag, timers, seek,
                   selected, last_file, stick, posted, crashed>>

\* onMediaInsert: if nothing plays, the last file is picked; the TV state is
\* not looked at.
onMediaInsert ==
    /\ Open /\ Room /\ ~stick /\ left > 0
    /\ left' = left - 1
    /\ stick' = TRUE
    /\ IF ~seek /\ ~play_flag /\ last_file # None
       THEN seek' = TRUE /\ on_file_selected(last_file, "pick")
       ELSE UNCHANGED <<gui, cur, ff, selecting_flag, selecting, blocked, seek,
                        update, failed>>
    /\ UNCHANGED <<track, bus, pipe, play_flag, pause_play, error_flag, timers,
                   selected, last_file, keys, posted, tv, crashed>>

onMediaRemove ==
    /\ Open /\ Room /\ stick /\ left > 0
    /\ left' = left - 1
    /\ stick' = FALSE
    /\ IF play_flag THEN Push(Call("remove", "stop", None)) /\ StopBegins
                    ELSE UNCHANGED <<gui, update>>
    /\ UNCHANGED <<track, bus, pipe, cur, flags, ff, timers, pick, keys, posted, tv,
                   crashed, failed>>

-----------------------------------------------------------------------------
(***************************************************************************)
(* Keys and timers.                                                        *)
(***************************************************************************)
\* OK on a file of the list: the pause timer if it is the one selected and the
\* player plays, or if the player is paused without playing; a pick otherwise.
KeyOk(f) ==
    /\ Open /\ Room /\ keys /\ stick /\ left > 0
    /\ left' = left - 1
    /\ IF (play_flag /\ f = selected) \/ (~play_flag /\ pause_play)
       THEN /\ timers' = timers \cup {"pause"}
            /\ UNCHANGED <<gui, cur, ff, selecting_flag, selecting, blocked,
                           update, failed>>
       ELSE on_file_selected(f, "pick") /\ UNCHANGED timers
    /\ UNCHANGED <<track, bus, pipe, play_flag, pause_play, error_flag, seek,
                   selected, last_file, outside, posted, crashed>>

KeyQuit ==
    /\ Open /\ Room /\ keys /\ left > 0
    /\ left' = left - 1
    /\ Push(Call("quit", "wait", None))
    /\ UNCHANGED <<track, bus, pipe, cur, flags, ff, timers, update, pick, outside,
                   posted, crashed, failed>>

\* ff and fb: each press starts the timer again.
KeyWind ==
    /\ Open /\ keys /\ left > 0
    /\ left' = left - 1
    /\ ff' = TRUE
    /\ timers' = timers \cup {"ff"}
    /\ UNCHANGED <<gui, track, bus, pipe, cur, flags, update, pick, outside, posted,
                   crashed, failed>>

\* doPause of a paused player is play(), which resumes it.
doPauseResumes ==
    /\ Open /\ "pause" \in timers /\ pause_play /\ MutexFree
    /\ timers' = timers \ {"pause"}
    /\ pause_play' = FALSE
    /\ pipe' = IF pipe = "new" THEN pipe ELSE "playing"
    /\ UNCHANGED <<gui, track, bus, cur, play_flag, error_flag, selecting_flag, ff,
                   update, pick, outside, posted, crashed, failed, left>>

\* doPause otherwise: pause() sets the flag and then waits for the mutex.
doPauseBegins ==
    /\ Open /\ "pause" \in timers /\ ~pause_play
    /\ timers' = timers \ {"pause"}
    /\ pause_play' = TRUE
    /\ Push(Call("pause", "pause", None))
    /\ UNCHANGED <<track, bus, pipe, cur, play_flag, error_flag, selecting_flag, ff,
                   update, pick, outside, posted, crashed, failed, left>>

doPauseEnds ==
    /\ At("pause") /\ MutexFree
    /\ pipe' = IF pipe = "new" THEN pipe ELSE "paused"
    /\ Returns
    /\ UNCHANGED <<track, bus, cur, flags, ff, timers, update, pick, outside, posted,
                   crashed, failed, left>>

\* onTimerFfFb: winding forward past the end stops the player and reports the end of
\* the track; otherwise the player goes on, or is started again if a callback
\* has stopped it meanwhile.
onTimerFfFb ==
    /\ Open /\ "ff" \in timers /\ MutexFree
    /\ timers' = timers \ {"ff"}
    /\ ff' = FALSE
    /\ \/ ff /\ pipe' = "ready" /\ Post("eos")
       \/ /\ ff /\ UNCHANGED posted
          /\ pipe' = IF pipe = "new" THEN pipe ELSE "playing"
       \/ ~ff /\ UNCHANGED <<pipe, posted>>
    /\ UNCHANGED <<gui, track, bus, cur, flags, update, pick, outside, crashed,
                   failed, left>>

-----------------------------------------------------------------------------
(***************************************************************************)
(* Queued signals.                                                         *)
(***************************************************************************)
Playable == stick /\ cur \notin Bad

\* Bound: only a tick that can meet an error is looked at, one at a time.
TickCounts ==
    /\ \A i \in DOMAIN posted : posted[i] # "tick"
    /\ \/ error_flag
       \/ track # "no" /\ ~Playable
       \/ track = "no" /\ pipe = "playing" /\ bus = "idle" /\ left > 0

\* The display's timer runs out in the event loop; its slot is called through the
\* queue.
UpdateTick ==
    /\ Open /\ update /\ TickCounts
    /\ Post("tick")
    /\ UNCHANGED <<gui, track, bus, pipe, cur, flags, ff, timers, update, pick, outside,
                   crashed, failed, left>>

Deliver(signal) == /\ Open /\ posted # <<>> /\ Head(posted) = signal
                   /\ posted' = Tail(posted)

\* onTimer: an error that was noted is forgotten.
onTimer ==
    /\ Deliver("tick")
    /\ error_flag' = FALSE
    /\ UNCHANGED <<gui, track, bus, pipe, cur, play_flag, pause_play, selecting_flag, ff,
                   timers, update, pick, outside, crashed, failed, left>>

\* onMediaPrepared with selecting reset only when the last position is sought
\* (a slip).
PreparedKeepsWaiting ==
    /\ Deliver("prepared")
    /\ selecting' = (selecting /\ ~seek)
    /\ blocked' = FALSE
    /\ seek' = FALSE
    /\ last_file' = IF seek THEN last_file ELSE cur
    /\ selected' = cur
    /\ UNCHANGED <<gui, track, bus, pipe, cur, flags, ff, timers, update, outside,
                   crashed, failed, left>>

\* onMediaPrepared: the pick is over; a file that was not resumed is saved as
\* the last one.
onMediaPrepared ==
    /\ Deliver("prepared")
    /\ selecting' = FALSE
    /\ blocked' = FALSE
    /\ seek' = FALSE
    /\ last_file' = IF seek THEN last_file ELSE cur
    /\ selected' = cur
    /\ UNCHANGED <<gui, track, bus, pipe, cur, flags, ff, timers, update, outside,
                   crashed, failed, left>>

\* next(): the file after f, the first one after the last.
FileAfter(f) == LET i == CHOOSE n \in 1..Len(Folder) : Folder[n] = f
                IN  Folder[(i % Len(Folder)) + 1]

\* onEOS after an error: the file is removed from the settings.
onEOSForgets ==
    /\ Deliver("eos") /\ error_flag
    /\ last_file' = None
    /\ UNCHANGED <<gui, track, bus, pipe, cur, flags, ff, timers, update, selecting,
                   blocked, seek, selected, outside, crashed, failed, left>>

\* onEOS and next(true): the next file of the folder, unless a track is being
\* selected, nothing was played, or the folder is gone.
onEOSNext ==
    /\ Deliver("eos") /\ ~error_flag
    /\ IF ~selecting_flag /\ play_flag /\ stick
       THEN SetFile(FileAfter(cur)) /\ Push(Call("next", "set", FileAfter(cur)))
       ELSE UNCHANGED <<gui, cur, ff, selecting_flag>>
    /\ UNCHANGED <<track, bus, pipe, play_flag, pause_play, error_flag, timers,
                   update, pick, outside, crashed, failed, left>>

\* doSigTvOnOff(true).
TvOn ==
    /\ Deliver("tvon")
    /\ tv' = TRUE
    /\ UNCHANGED <<gui, track, bus, pipe, cur, flags, ff, timers, update, pick, keys,
                   stick, crashed, failed, left>>

-----------------------------------------------------------------------------
(***************************************************************************)
(* QMpStartThrd::run.                                                      *)
(***************************************************************************)
\* What the history notes when a track fails: a pick that is still on the stack has
\* not started its own.
NoteFailure ==
    failed' = (failed \/ (selecting /\ \A i \in DOMAIN gui : gui[i].kind \notin {"pick", "resume"}))

\* A failure that is not reported (a slip).
TrackFailsSilently ==
    /\ track' = "no"
    /\ play_flag' = FALSE /\ error_flag' = TRUE /\ selecting_flag' = FALSE
    /\ NoteFailure
    /\ UNCHANGED <<posted, pipe, pause_play>>

\* setDataSource, prepare or start fails: the error is noted and the end of the
\* track is reported.
TrackFails ==
    /\ track' = "no"
    /\ play_flag' = FALSE /\ error_flag' = TRUE /\ selecting_flag' = FALSE
    /\ Post("eos")
    /\ NoteFailure
    /\ UNCHANGED <<pipe, pause_play>>

\* setDataSource, and prepare() takes the mutex.
TrackSource ==
    /\ ~crashed /\ track = "source" /\ ~Joining
    /\ \/ /\ track' = "prepare"
          /\ UNCHANGED <<flags, posted, pipe, failed>>
       \/ ~Playable /\ TrackFails
    /\ UNCHANGED <<gui, bus, cur, ff, timers, update, pick, outside, crashed, left>>

\* prepare() reports MEDIA_PREPARED and gives the mutex back; when it fails the
\* display's timer is stopped.
TrackPrepare ==
    /\ ~crashed /\ track = "prepare"
    /\ \/ /\ track' = "prepared"
          /\ pipe' = "paused"
          /\ Post("prepared")
          /\ selecting_flag' = FALSE
          /\ UNCHANGED <<play_flag, pause_play, error_flag, update, failed>>
       \/ ~Playable /\ TrackFails /\ update' = FALSE
    /\ UNCHANGED <<gui, bus, cur, ff, timers, pick, outside, crashed, left>>

\* start() takes the mutex.
TrackGoesOn ==
    /\ ~crashed /\ track = "prepared" /\ ~Joining
    /\ track' = "start"
    /\ UNCHANGED <<gui, bus, pipe, cur, flags, ff, timers, update, pick, outside,
                   posted, crashed, failed, left>>

TrackStart ==
    /\ ~crashed /\ track = "start"
    /\ \/ /\ track' = "flags"
          /\ pipe' = "playing"
          /\ Playable
          /\ UNCHANGED <<flags, posted, failed>>
       \/ ~Playable /\ TrackFails
    /\ UNCHANGED <<gui, bus, cur, ff, timers, update, pick, outside, crashed, left>>

TrackRuns ==
    /\ ~crashed /\ track = "flags"
    /\ track' = "no"
    /\ pause_play' = FALSE /\ error_flag' = FALSE /\ play_flag' = TRUE
    /\ update' = TRUE
    /\ UNCHANGED <<gui, bus, pipe, cur, selecting_flag, ff, timers, pick, outside,
                   posted, crashed, failed, left>>

TrackThread == TrackSource \/ TrackPrepare \/ TrackGoesOn \/ TrackStart \/ TrackRuns

-----------------------------------------------------------------------------
(***************************************************************************)
(* testGstPlayerCB in the bus thread.                                      *)
(***************************************************************************)
\* The callback for the end of the track begins.
TrackEnds ==
    /\ ~crashed /\ bus = "idle" /\ pipe = "playing" /\ ~Joining
    /\ bus' = "complete"
    /\ UNCHANGED <<gui, track, pipe, cur, flags, ff, timers, update, pick, outside,
                   posted, crashed, failed, left>>

\* The callback for an error begins: the file cannot be played, or the stream
\* breaks off while it plays.  The display's timer is stopped, half a second passes.
StreamFails ==
    /\ ~crashed /\ bus = "idle" /\ ~Joining
    /\ \/ track \in {"prepare", "start"} /\ ~Playable
       \/ pipe = "playing" /\ track = "no"
    /\ left > 0 /\ left' = left - 1
    /\ bus' = "error"
    /\ update' = FALSE
    /\ UNCHANGED <<gui, track, pipe, cur, flags, ff, timers, pick, outside, posted,
                   crashed, failed>>

\* The player is stopped; the end is reported unless a winding key is held.
Reported == IF ff THEN UNCHANGED posted ELSE Post("eos")

PlaybackComplete ==
    /\ ~crashed /\ bus = "complete" /\ MutexFree
    /\ bus' = "idle"
    /\ pipe' = "ready"
    /\ Reported
    /\ UNCHANGED <<gui, track, cur, flags, ff, timers, update, pick, outside, crashed,
                   failed, left>>

MediaError ==
    /\ ~crashed /\ bus = "error" /\ MutexFree
    /\ bus' = "idle"
    /\ pipe' = "ready"
    /\ error_flag' = TRUE /\ selecting_flag' = FALSE
    /\ Reported
    /\ NoteFailure
    /\ UNCHANGED <<gui, track, cur, play_flag, pause_play, ff, timers, update, pick,
                   outside, crashed, left>>

-----------------------------------------------------------------------------
Callbacks == PlaybackComplete \/ MediaError

GuiCall == \/ DeleteLocks \/ Freed \/ PlayBegins \/ PlayJoins \/ PlayStarts
           \/ StoppedForPick \/ QuitWaited \/ QuitLeaves \/ RemoveStops
           \/ doPauseEnds

GuiEvent == onTimer \/ onMediaPrepared \/ onEOSForgets \/ onEOSNext \/ TvOn

GuiTimer == doPauseResumes \/ doPauseBegins \/ onTimerFfFb

User == \/ MediaPlayerResume \/ onMediaInsert \/ onMediaRemove
        \/ KeyQuit \/ KeyWind
        \/ \E f \in Files : KeyOk(f)

Next == \/ GuiCall \/ GuiEvent \/ GuiTimer \/ User
        \/ TrackThread \/ Callbacks \/ TrackEnds \/ StreamFails \/ UpdateTick

\* Calls go on, queued signals are delivered, timers fire, and the two threads
\* are scheduled.  Nothing makes a user press a key or a track end.
Fairness == /\ WF_vars(GuiCall) /\ WF_vars(GuiEvent) /\ WF_vars(GuiTimer)
            /\ WF_vars(TrackThread) /\ WF_vars(Callbacks)

Spec == Init /\ [][Next]_vars /\ Fairness

-----------------------------------------------------------------------------
(***************************************************************************)
(* Properties.                                                             *)
(***************************************************************************)
\* While play() deletes the player and makes the one it starts the track thread
\* with, and while setFile does so after stop(), no track thread runs: play() and
\* stop() wait for it, and no key or signal handled inside those calls starts one
\* behind their back.  Hence no start of a track is lost on a thread that still runs.
\* This is not so where setFile is called without a stop ("set"): for a pick while
\* nothing plays yet, and at the end of a track.  Its destructor waits for the mutex
\* only, and the player is freed under the track thread if that still runs (crashed).
Deleting == {"free", "freebus", "remake", "remakebus"}
DeletesAlone == (gui # <<>> /\ Top.at \in Deleting) => track = "no"

\* Four ways this code loses a track on its way: the GUI thread hangs in the
\* destructor; quitToTv waits inside the call it waits for; play() takes the
\* player it has just made for the paused one and starts nothing; setFile frees
\* the player under the track thread.
WaitsForItself == /\ At("wait") /\ selecting
                  /\ \E i \in 1 .. Len(gui) - 1 : gui[i].kind \in {"pick", "resume"}
ResumesNothing == (At("setbus") \/ At("freebus")) /\ pause_play
Lost == Stuck \/ WaitsForItself \/ ResumesNothing \/ crashed

\* A pick whose play() has begun is prepared, which ends what quitToTv waits for, or
\* its own track fails, or it is lost in one of the ways above.  A pick that fails or
\* is lost leaves selecting up, for only onMediaPrepared takes it down: quitToTv
\* (QMostMediaPlayer.cpp:417) then waits for ever.  That is what the code does; the
\* property says that there is no further way to make it wait.
PickSettles ==
    (selecting /\ \E i \in DOMAIN gui :
                     gui[i].at \in {"play", "join", "remake", "remakebus"})
        ~> (~selecting \/ failed \/ Lost)

\* The display's timer takes the error away before the signal that tells of it.
ErrorWiped ==
    /\ error_flag
    /\ \E i, j \in DOMAIN posted : i < j /\ posted[i] = "tick" /\ posted[j] = "eos"

\* A file that cannot be played, started when nobody touches the keys or the
\* stick any more, does not stay the last file of the settings, to be started
\* again with every start of the program, unless a tick of the display stands in the
\* queue before the signal of the error (QMediaPlayer.cpp:579).  Which file an error
\* of an earlier track makes the settings forget is not said.
BadFileForgotten ==
    (track = "source" /\ cur \in Bad /\ left = 0)
        ~> (last_file \notin Bad \/ ErrorWiped \/ Lost)

\* The destructor of the player ends: the bus thread it waits for can finish.
DeleteEnds == Stuck ~> ~Stuck
=============================================================================
