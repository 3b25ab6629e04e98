# A verification development of the RNS 510 DVB-T receiver

The program (`src/`) is a Qt/embedded application for an SSD1938 board in a car:
it plays digital television, downloads the programme guide (EPG), sets the
clock from the stream, scans for stations, plays media files, and talks to the
car's radio unit over a serial MOST/CAN adapter. Comments in the source are
Polish; quotations in the modules are translated.

This directory holds TLA+ modules of the parts that coordinate threads and
shared state, TLC configurations that check them on small instances, and proofs
that TLAPS checks for every instance. `PROJECT.json` maps each definition to
the lines it models and lists runs, mutants, findings, hazards and theorems.

## 1. Inventory

### Components

| component | source | state it keeps | operations | who calls it |
|---|---|---|---|---|
| PID filter wrapper | `src/libdtv/ts_live/interface.cpp` | `inited`, `pid_val`, `fid_bitmap`, `pid_number`, `en`, one shared `cfg`; no lock | initial, add, remove (one or all), check, fill/clear buffer, release | dtv object, all three workers, scan |
| dtv object | `src/libdtv/dtv_usr/dtv_core.cpp`, `dtv_usr_epg.cpp`, `dtv_usr_time.cpp` | `is_playing`, `is_scanning`, `current_service`, `current_freq`, three "downloading" flags, three thread ids, four mutexes, EPG lists | init/close, select, stop, force stop, scan, start/exit of each worker, read the current event, read the schedule | switch thread, GUI thread, scan threads, MOST callbacks |
| EPG schedule worker | `dtv_usr_epg.cpp:46`, `epg/eit.cpp` | its section list, EPG files | download all schedules of the multiplex, parse, save | created by the timer slot |
| present/following worker | `dtv_usr_epg.cpp:378`, `epg/eit.cpp` | `present_following_lock`, event list | loop: sleep, download, parse | created at the end of a selection |
| time worker | `dtv_usr_time.cpp:60`, `dvb_time/dtv_time.cpp` | `time_is_set`, `time_is_updating` | read TOT until it comes, set the clock | created by the timer slot |
| channel switch thread | `QT/QChannelSwitchThrd` | `busy`, `res` | one selection per run | `StartServiceSelect` |
| GUI control | `play_ctrl.cpp`, `player_ctrl_*.cpp` | `need_change`, `current_ch_index`, menu windows, counters of the watch over the picture | remote control keys, 1 s timer slot, signals of the threads, MOST callbacks | Qt event loop |
| automatic scan | `QT/QAutoScanWindow`, `QT/QAutoScanThread` | `scanning`, `quit`, `was_scanned`, `total_channels_found`; `dvb_services.dat` and `_old.dat` | start, exit, menu, message after the scan | menu, MOST |
| manual scan | `QT/main_menu/manual_scan.cpp` | `scanning` | scan one frequency in a thread | menu |
| service list and file | `service_management.cpp`, `misc/service_list.cpp` | `dvb_services.dat`, the list in memory | load with filters, append, rewrite, delete, move, hide | dtv object, menus |
| EPG event lists and files | `epg/eit.cpp`, `misc/epg_events_list.cpp`, `dtv_usr_epg.cpp` | `*.epg` files | collect sections, parse, merge, save, look up | schedule worker, readers |
| sections, PSI, descriptors | `libdtv/interface/section.cpp`, `misc/descriptors.cpp`, ... | buffers | parse | scan, workers |
| GStreamer playback | `libdtv/gst` | pipelines | play, stop, record, restart | dtv object |
| MOST/CAN interface | `QT/QMostInterface` | serial state, send queues | messages of the car | GUI control |
| media player | `QT/QMostMediaPlayer`, `QT/QMediaPlayer`, `media_player/GstPlayerPipeline.cpp` | the file picked, `selecting`, `selecting_flag`, `error_flag`, the pipeline and its mutex | pick, play, pause, wind, next, stick in and out, back to the TV | GUI control, its own keys; a thread that starts tracks; GStreamer's bus thread |
| supervision | `main.cpp` | child process id | restart the child, feed the watchdog | the system |

### How they interact

Five kinds of threads meet in the dtv object. The *GUI thread* runs the Qt event
loop: keys, the MOST callbacks and the one second timer slot (`DoDEBUG`), which
starts the schedule and the clock download and stops what plays when the
signal is gone. The *switch thread* runs one `DTV_Service_Select` at a time. The
*scan threads* run `DTV_Scan`. The three *workers* are pthreads created by the
object and ended with `pthread_cancel` and `pthread_join`. They share the PID
filter, the tuner, the service pointer and the flags with no lock at all; the
mutexes only guard selections against each other, the two stops, the event list
and the EPG files. What keeps the threads apart is the *order* in which a
selection ends the workers, stops the player, tunes, loads PIDs and starts the
next worker, and the flags `isSelecting()`, `is_playing`, `is_scanning` which
callers test some time before they act.

The *files* are the second meeting place. `dvb_services.dat` is appended to by
scans, rewritten by selections that find other PIDs and by edits of the list, and
read at start and after each of these; the automatic scan renames it meanwhile. The
EPG files are written by the schedule worker and read, and in some cases removed, by
the GUI.

The third are *handlers inside handlers*: `StartServiceSelect`, the switch-off, the
start of the media player, its `play()` and `stop()` and the automatic scan's window
all call `processEvents` while they wait, so any key, timer or queued signal may be
handled in the middle of them.

### What is hard here

* Tests of a flag and the action that relies on it are steps apart, in
  different threads (`is_playing` and `is_scanning`; `busy` of the switch thread;
  `dtv_epg_pf_downloading` before a lock).
* The flags of the workers are written by creator, worker and canceller.
* Cancellation ends a worker at any cancellation point, with locks to clean up.
* Removal from the filter is by PID only, and two workers load the same PID.
* A stop that loses a `trylock` returns at once and its caller goes on.
* Files are renamed, removed and rewritten around work that can be interrupted.
* Wishes of the user wait in timers, single shots and flags while a thread tunes
  and a watch stops and restarts what plays on its own.
* Downloads end by counting what arrives, in any order, from a broadcaster who may
  change it meanwhile; two readers take packets from one stream.
* Threads of the media player are joined with a mutex held, or in loops that
  handle events.

What makes each component correct is the list of hazards in `PROJECT.json`,
each at its line with the properties that cover it.

## 2. Modules

| module | models | kind |
|---|---|---|
| `PidTable` | searching the slot table | operators |
| `PidFilter` | the PID filter wrapper with a device whose calls may fail | state machine |
| `PidBag` | what the filter promises: a bag of PIDs of limited size | abstract specification |
| `PidFilterProofs` | theorems about the filter and its table | proofs |
| `DtvCore` | the dtv object, the threads that call it and its workers | state machine |
| `DtvCoreProofs` | theorems about it | proofs |
| `AutoScan` | the automatic scan: window, thread and the two service files | state machine |
| `AutoScanProofs` | theorems about it | proofs |
| `ServiceList` | the linked list of services, node by node | state machine |
| `StationSeq` | what that list promises: a sequence | abstract specification |
| `ServiceFile` | the service file, the viewer's list and the station manager; extends `ServiceList` | state machine, composition |
| `StationStore` | what the file promises: a store of stations | abstract specification |
| `StationLists` | the copying loops over lists of stations, used by both | operators |
| `ServiceFileProofs` | theorems about the linked list, and about the file as a store of stations | proofs |
| `PsiScan` | one scan of a frequency: sections, PAT, SDT, PMT, the services kept | state machine |
| `PsiScanProofs` | theorems about it | proofs |
| `PlayCtrl` | the GUI's control of the TV screen with the switch thread | state machine |
| `PlayCtrlProofs` | theorems about it | proofs |
| `EpgFile` | the programme guide: collection, files, reader | state machine |
| `EpgFileProofs` | theorems about it | proofs |
| `MediaPlayer` | the media player and its two threads | state machine |
| `MediaPlayerProofs` | theorems about it | proofs |
| `MC...` | values for TLC, one for each state machine | model checking |

Plan, in the order of what matters to a viewer:

1. `PidFilter` / `PidBag`: done, model-checked and proved.
2. `DtvCore`: done, model-checked; its invariants and action properties proved.
3. `AutoScan`: done, model-checked; its invariants and action properties proved.
4. `ServiceFile`, `ServiceList`, with `StationStore` and `StationSeq`: done,
   model-checked; all four properties proved, both refinements among them.
5. `PsiScan`, `PlayCtrl`, `EpgFile`, `MediaPlayer`: done, model-checked; their invariants
   proved.
6. Done with 4: `SavedIsListed` and the refinement of `StationStore`.
7. `PidFilterThreads`: the calls of `PidFilter` split into their reads and
   writes, to show what the missing lock costs.
8. The serial protocol of the MOST/CAN adapter, if its other side can be found.

### PidFilter

Variables have the names of the source. Each public function is an action (or two:
`AddOk` and `AddCfgFails`, `InitialOk` and `InitialFails`); `EnableFilter` is
`enable_filter`. Calls that return early change nothing and are stuttering steps.
`hw_en` and `hw_cfg` are the device as far as the wrapper sets it. `refused` and
`lag` are history: the slots whose last configuration the device refused, and
that the last change of the table never reached the enable register. Calls are
atomic: the module says what the filter guarantees to callers that do not
overlap, which is what the code assumes of them.

Not in the module: the ring buffers, and `tsi_check_pid_status`, which changes
nothing and which nobody calls (it returns the opposite of its comment).

### DtvCore

The program counter of a caller (`sw`, `gui`, `scan`) names the next step of the
function it is in, `stack` the steps to return to, so that
`DTV_Stop_Play` is modelled once although three functions call it. A worker
has a step per *thread* created for it (`wpc[w][g]`), since the object can lose or
reuse a thread id. The steps are cut where another thread can see or
change something between two statements: each test of a shared flag, each
write of one, each lock, each join and each call to the tuner, the player or
the filter. Runs of filter calls by one caller are one step, and so are the
statements that end a function after its last visible effect.

`Start` holds what the environment decides (a channel is chosen, MOST says
stop, the timer ticks, a list is opened, a manual scan is started); `TickStop` is
the timer slot's decision to stop because of the signal or the picture, which
is left open here and belongs to `PlayCtrl`. `Die` is a cancelled worker that
reaches a cancellation point; `NullDereference` is the end of the process at the
unguarded reads of `current_service->frequency`. A second `pthread_join` of the
same thread is undefined: the model lets it return and `JoinOnce` says it never
happens (in the runs where it can, nothing else is concluded from what follows).

A selection that finds other PIDs than the list has rewrites the file and loads the list
anew (`SelGst`, step `sel_list`, `SelList`; `dtv_core.cpp:723-730`): the nodes of the old
one are freed and `current_service` still points to one of them. `freed` says so until the
next selection sets the pointer; what a thread reads through it meanwhile is left open
(`Found`): a service of the new list, or none.

Left out: recording, subtitles, audio tracks, `DTV_Init` and `DTV_Close` (the
object is taken between the two), and the contents of lists and files.

The module has behaviours that are against what comments of the source say, and
which no property here claims to be absent: a MOST stop during a selection leaves
a present/following worker running with nothing playing (`player_ctrl_most.cpp:51`
against `dtv_core.cpp:773`); a manual scan during a selection scans while the
selected service plays (`dtv_core.cpp:271`); the schedule download can take the
slot of EIT away from present/following, since removal is by PID only
(`eit.cpp:322`); the GUI can read events while they are freed
(`dtv_usr_epg.cpp:455`); a refused `pthread_create` is taken for a success, since
the result is compared with `< 0` (`dtv_usr_epg.cpp:104`); the schedule uses the
clock's ring buffer (`eit.cpp:110` against `include/interface.h:60`).

### AutoScan

The window is a state machine of the GUI thread whose key handler calls
`processEvents` while it waits, so that keys, the timer slot and the message after
the scan are handled *inside* it. `frames` is the stack of handlers that wait:
`ok` waits the second before the start, `ok_flag` is between the start of the
thread and `scanning = true`, `exit` and `menu` wait for the end of the thread.
`window = "freed"` is a window deleted under a handler that still has to return
into it. `DeletedInUse` is what ends the process: a return into a freed window,
or the deletion of the window with its thread running (`QThread` aborts).
`PowerCut` and every other death keep only the two files.

A list is the set of frequencies whose stations it holds: enough to tell the
user's list, a whole scan and half a scan apart. `DTV_Scan` and
`DTV_Save_Scan` appear as their outcomes; what they do is in `PsiScan` and
`ServiceFile`. Of the timer slot the module keeps that it selects (`TickSelects`) and stops
(`TickStops`). It selects only with a list that has a service in it
(`total_channles_num`, `play_ctrl.cpp:1037`): `listed` is that list, loaded at the start and
again after a scan (`Reload`), so what is selected between two frequencies is a service
of the list loaded before the scan. `before`, `whole` and `orderly` are history.

One assumption on time is built in: `FlagDown`, the end of a scan, does not come
while a handler is still in the second before the start of that scan, since 57
frequencies with 200 ms each take longer.

Left out: the scan from MOST, which is dead code (`doScanFromMOST` is called only
from `play_ctrl.cpp:1500`, under `most_scan==true`, and only that function sets it),
and the messages that only update the display.

### ServiceList and ServiceFile

`ServiceList` has the list's own variables (`list_head`, `list_end`, `list_cnt`) and
the `next` pointer of every allocated node; the operations change pointers in the
order of the code, and a step that follows the null pointer or a freed node sets
`badAccess`. `ImplementsSequence` maps the nodes met from `list_head` to a sequence.
`remove_nth_node` leaves `list_end` where it was; that this is harmless follows from
how lists are used: filled, then edited, then destroyed (`filling`). A list that is
added to after an edit would not be.

`ServiceFile` extends it: the list of the station manager window is that linked
list, with a station on each node (`data`). The file is a count and records. `job`
is the function at work on the file: `append` is `save_services2file`,
`create`/`count`/`records` are the three parts of `services_update`, `load` the loop
of `load_services_from_file`; every write is a step of its own and `CrashRestart`
can come between any two. A file may not open: then `save_services2file` saves nothing
(`SaveScanRefused`, 62-68), and `services_update`, which has removed the old file before, loses
the list (`RewriteRefused`, 367-369). `Selected` (`StationLists`) is the loop that copies some
elements of a list: what a load accepts, what a save has to write, what the viewer is
shown. `shifted` is what becomes of a file without a count: the
first record is written in its place.

Conditions: the GUI thread and the switch thread do not work on the file at once
(selections and edits are serialised); a crash comes between records, not inside one;
a shifted file lists nothing, which is one of the things that reading records from
the wrong offset can give; a multiplex lists a service once (`MultiplexAssumption`:
`save_services2file` compares the services found with the file, lines 100-119, not with
each other, so an SDT that repeats one would have it saved twice). The station manager's menu entry is commented out
(`main_menu.cpp:121-129`) and `Service_Delete` and `ServiceRemoveFromList` have no
caller, but all of it is compiled and kept here.

What the module shows and no property denies: stations of type MPEG-2 HD are
accepted by the SDT parser and dropped by every load, so each scan appends them again
(`service_management.cpp:95` against the comment at line 41); a selection that
rewrites the file drops the stations that are hidden (`dtv_core.cpp:726`,
`StoreShown`); a crash during a rewrite costs the rest of the list, at worst all of it, and so does
a new file that cannot be opened.

### PsiScan

`phase` is where `DTV_Scan` is. In `psi`, `get_data_from_network` calls the readers of
the PAT and of the SDT in turn (`turn`) on one stream: a packet is given to the
reader that is called, and the other one never sees it. So the SDT reader misses
packets (`lost`), and puts a section together only as far as the continuity counter
lets it. In `pmt`/`section`, `find_pmt_for_services` reads one PMT after the other, and again, without a limit, one
that comes with a wrong CRC (`PmtCrcError`) or that the parser refuses (`PmtRefused`;
`dvb_pmt_data.cpp:106-149`): `garbled` are the PIDs on which such a thing is sent; in
`filter` the loop over the list drops what cannot be played, with the index set to 0
and then incremented after a removal. `s` is used again after it was freed there:
both outcomes of that test are in `KeepOrDrop`. Two services may share the PID of a
PMT, and a service may be missing in the PAT.

`PlayableList` is about the list at the end of that loop, before it is handed on
(`LoopOver`), with and without an error. Its exceptions are what the code does: the first
service of the list is not checked again after a removal, so it may be one without audio or
video; services that share a PMT PID get each other's streams; and when the last PMT does not
come, its service is missing, and with it one that could be played, if the freed service
read at `dtv_core.cpp:388` looks as if it had no streams (`Missing`).

`ScanEnds` says that nothing but the loop over a garbled PMT keeps a scan from ending
(`ReadsGarbled`); there it may stay for ever.

### PlayCtrl

The keys and the MOST list change `current_ch_index` and start timers
(`ch_sw_timeout`, `sw_timer`); the timers and the tick's single shots (`shots`) call
`StartServiceSelect`, which starts the thread or, while it runs, leaves the wish in
`need_change`. `TickServesWish`, `TickRestarts`, `TickWatchesSignal` and `TickRetries`
are the parts of `DoDEBUG` and `HandleTvSignal`, in the order of the code. `frames` is the stack of
handlers interrupted in `processEvents`: `Start` frames are in `StartServiceSelect`,
`close` and `media` in the switch-off and in the start of the media player.

`WatchRuns` is about the tick `DoDEBUG`: the hardware watchdog, the signal and the picture are
looked after there and nowhere else. `switched` is history: how the last
`MOST_TV_RESUME_PLAY` or switch-off went. With it the property covers all but one case, in which
the code does play unwatched: after a switch-off a `ch_sw_timeout` still pending starts a
channel, and the switch-on that follows finds it playing and returns at once
(`player_ctrl_most.cpp:215`), with the tick off and `stop_tv_from_most` up ("found").

`dropped` marks the two places where the code throws a wish away: `StartServiceSelect`
during a selection with a bad signal, and a typed number that is not on the list (which
is put into `current_ch_index` before it is tested). Every channel is taken to have
audio and video; menus, EPG, scans and an empty list are left out.

### EpgFile

`have` is the set of sections collected for a service, `table_usage`, `table_cnt` and
`tmp_cnt` the counters that end the collection. A section carries one event, so that
a file is an index of days (`index`) and a sequence of events (`data`).
`save_service_2epg` opens the file (it is `empty` or `cut` if the process dies before
`SaveClose`), and the reader takes the first day by its size in the index. The last
event is added to that size twice (`eit.cpp:1221`), so a guide of a single day is read past its end; the reader then finds a wrong
header and removes the file (`ReadPastEnd`). A file that does not open costs the guide of that service
(`SaveRefused`, `eit.cpp:1160-1164`). `current` is the service that plays; a selection ends the
worker and changes it (`UpdateExit`, `SelectService`). Locks and the worker's flag are in
`DtvCore`. Here a selection ends the worker only while it can be cancelled, and the
reader does not run beside the worker.

`GuideOfToday` is about whichever service plays in the end, and about what is in its file,
not its date alone. Two exceptions are what the code does: a file that a crash left empty
or cut counts as good until midnight, because only its date is looked at (`eit.cpp:1850`); and a
guide of one day is removed by every read and downloaded again.

Two more things of this code the module does not touch: a file of length 0 is left
open at each read (`dtv_usr_epg.cpp:196`), and the event after the last one of a list
is used without a test for NULL (`dtv_usr_epg.cpp:847`).

### MediaPlayer

`gui` is the stack of calls of the GUI thread. `at` says where a call is:
`stop` and `play` handle events, `join` waits for the track thread, `free` and
`freebus` are in the destructor of the player (before and with its mutex held) called by
`play()` and, after a `stop()`, by `setFile`; `set` and `setbus` are the same in a `setFile` that no
`stop()` came before; `wait` is `quitToTv` waiting for `selecting` to fall. `track` is
`QMpStartThrd::run`, which has the pipeline's mutex in `prepare()` and in `start()` but not
between them (`prepared`), `bus` the callback of GStreamer's thread (`testGstPlayerCB`), `posted` the
queued signals, the display's tick among them (`UpdateTick`, `onTimer`). `crashed` is a player freed
while the track thread uses it; the model ends there. `failed` is history: the track of the
last pick has failed.

`DeletesAlone` is what the two waits for the track thread are for. `play()` and `stop()`
handle events first, so a key or a signal can play or stop a track in a call nested in
theirs; each call then waits again before it goes on, and from its wait to its last step
it handles no events. A `setFile` without `stop()`, that is of a pick while nothing plays yet
(`QMostMediaPlayer.cpp:518`) and of `next()` (`QMediaPlayer.cpp:1279`), waits for nothing
but the mutex and does free the player under the track thread. The property does not
speak of these (`set`, `setbus`).

`PickSettles` says that a pick is prepared, or its own track fails, or it is lost. A pick that
fails or is lost leaves `selecting` up, and `quitToTv` waits for ever; the property says that
there is no further way to that. `Lost` names four: the destructor that hangs,
`quitToTv` waiting inside the very call it waits for, `play()`
that takes a new player for the paused one, and the crash just named. `BadFileForgotten` has one
exception more: the display's tick resets `error_flag` when it is handled before the signal
that tells of the error (`ErrorWiped`). Without any one of these
exceptions TLC finds a counterexample.

Left out: folders and browsing, a second medium, `prev`, `DoTrackSwitch`,
`MediaPlayerStop`, `handleMediaStop`.

## 3. Runs

| run | configuration | checks |
|---|---|---|
| `pid_filter` | `PidFilter.cfg` | types; the three records agree (`TableConsistent`); an enabled slot is configured for its PID (`ConfiguredAsTable`); enable bits follow the table once a call gets through (`HardwareFollowsTable`); refinement of `PidBag` (`ImplementsBag`) |
| `viewer` | `DtvCoreViewer.cfg` | selections, timer slot, event and schedule readers interleaved: eight invariants, `ServiceStable`, `NoThreadLost`, and `SelectEnds` |
| `force_stop` | `DtvCoreForce.cfg` | with MOST stops at any time: every call returns or the process has died (`CallsEnd`) |
| `scan_locks` | `DtvCoreScan.cfg` | with manual scans at any time: `LocksReleased` |
| `auto_scan` | `AutoScan.cfg` | a list is always on the disk (`SomeListOnDisk`); a user who leaves the scan has a whole one (`WholeListKept`); leaving a scan puts back what it put aside (`CancelRestores`) |
| `service_file` | `ServiceFile.cfg` | no freed node is followed (`NoBadAccess`); the nodes are a sequence (`ImplementsSequence`); what a scan saved is listed beside what was there (`SavedIsListed`); refinement of `StationStore` (`ImplementsStore`) |
| `psi_scan` | `PsiScan.cfg` | no PID is left behind (`FilterClean`); no SDT from two sections (`SdtWhole`); what can be played is kept, but for what a freed service costs (`PlayableList`); a scan ends or reads a garbled PMT (`ScanEnds`) |
| `play_ctrl` | `PlayCtrl.cfg` | a channel that is not the one chosen is about to be replaced (`ScreenFollowsWish`); the tick runs once the TV is switched on, unless it was found playing (`WatchRuns`); with a steady signal the last choice plays in the end (`LastChosenPlays`) |
| `epg_file` | `EpgFile.cfg` | what is saved is the whole guide (`GuideWhole`) and fits its index (`IndexFits`); a read gives the first day, or nothing of a guide that has only one (`FirstDayRead`); a download ends (`DownloadEnds`); the guide of what plays becomes that of today (`GuideOfToday`) |
| `media_player` | `MediaPlayer.cfg` | `play()`, and `setFile` after `stop()`, delete the player with no track thread running (`DeletesAlone`); a pick is prepared, fails or is lost in a known way (`PickSettles`); a bad file is forgotten unless the display's timer wipes the error (`BadFileForgotten`) |
| `auto_scan_playing` | `AutoScanPlaying.cfg` | violation: a service of the list loaded before the scan is selected between two frequencies |
| `media_delete_hangs` | `MediaPlayerDelete.cfg` | violation: the player's destructor and the bus thread wait for each other |

What `viewer` shows: nobody joins a thread twice
or one that does not exist; a raised flag always has a created thread behind
it that is not yet joined, though it may have ended; when the
tuner moves, all workers have ended and their PIDs are gone; what plays stays
routed while workers load and unload; no worker sees the service pointer change
or its service freed;
every selection ends although it joins workers that wait for locks. Without the
MOST stop and the manual scan, which start without asking `isSelecting()`, the
protocol is sound.

`TypeOK` and `FileTypeOK` of the modules that no run names hold in the same
configurations; they are kept for the proofs.

### Bounds

* `PidFilter`: 3 slots and 2 PIDs: one PID twice beside the other, a hole in the
  middle taken again, a full table. The proofs cover every size.
* `DtvCore`: 2 services on 2 multiplexes, one with EPG and one without: enough to
  tell "the same service", "another frequency" and "no schedule" apart.
  `NumSlots = 4` is what one service loads (PAT, PMT, video and audio
  before PAT and PMT are dropped), so every leftover PID shows up as a full table.
  `MaxThreads` is the number of threads of one kind at a time: 2 lets a lost
  thread run beside its successor (`viewer`). With 1 (`force_stop`,
  `scan_locks`) a creation over a living thread is refused, which is one of
  the outcomes the code handles. `NumSlots = 0` in those two: they ask about calls and locks,
  the filter guards no step of either, and a call that finds it full is what an empty table gives.
* `AutoScan`: 2 frequencies, so that a scan can be left between them and find
  something on one, both or none; `MaxDepth = 2`, one handler inside another.
  (3 frequencies with depth 3 were tried once, 4.5 million states, same result.)
  `MaxScans = 1` and `SavesFail = FALSE` are not bounds but conditions under
  which the properties hold: with a second scan in one window, or with a save
  that fails, `SomeListOnDisk` does not hold (`total_channels_found` is never
  reset, and stations of a failed save count). `WholeListKept` and
  `CancelRestores` speak of histories without a death of the process and of
  users who had a list: a first scan that is left keeps what it found, and
  after a power cut the list has its second name, which nothing reads.
* `ServiceFile`: two multiplexes, one with a station that is not loaded, three
  loadable stations (a middle one to remove and exchange), five records and
  addresses, so that a multiplex can be saved beside leftovers of a cut append,
  and three rewrites.
* `PsiScan`: a section of 3 packets and a counter modulo 4, with at most 2 packets
  missed in a row (the code: 16; `LossAssumption` says how they relate); four
  multiplexes of one to five services that hold every reason to drop one, in one of them
  with the last PMT garbled.
* `PlayCtrl`: 2 channels and one number too large; counters of the watch shortened
  to 1, since only their being zero or not decides; 3 events of the user and the aerial, at most
  2 of a kind, and one handler inside another.
* `EpgFile`: an index of 3 days (8 in the code) and a guide that fills it exactly, a
  service with two parsed tables and one that is not parsed, whose second schedule is of a
  single day, and one of two days; one change of the schedule, one cancellation, one file that does
  not open, one crash and one midnight, of the first four at most three together
  (`MaxTroubles`).
* `MediaPlayer`: a file that plays and one that does not, three events, and two calls
  on the stack where the user acts; what the program calls by itself may go deeper
  (`MaxNest`). Ticks of the display are sent one at a time and only while there is an error to
  meet (`TickCounts`). `DeletesAlone` was checked once with three files too (2.3 million states).

`CHECK_DEADLOCK FALSE` appears where the system may stop: where the process may die
(`NullDereference`, `crashed`), with the TV off and nothing left to do (`PlayCtrl`), and
where the bounds on the environment are used up (`EpgFile`, `MediaPlayer`).
The other runs check deadlock.

### Fairness

`DtvCore`: a caller inside a function goes on (`WF` of each caller's steps), and a worker
that needs nothing from the stream goes on (`WF` of the `Must` actions, for the threads of a
worker together).
Nothing makes the user act, the stream deliver, or the present/following
interval end: those actions have no fairness. A cancelled worker gets `SF` on
`Die`: it passes cancellation points in its download loop (reads and sleeps)
over and over, and acts on the request at the first; between two of them
the step is disabled, hence strong fairness. `SelectEnds` assumes the user
does not read the schedule over and over: the worker polls for that lock with
`trylock`, so a reader can starve it, and with it the join.
`SelectEnds` and `CallsEnd` except calls made while the service is `freed`: a worker that reads
a frequency out of freed memory may never come to a cancellation point.

`PsiScan`: the six seconds of the PSI phase pass whatever arrives, and a PMT comes or
times out, unless what is sent on its PID is garbled (`WF` of `PmtSection \/ PmtTimeout` outside
`ReadsGarbled`). Each wrong CRC starts the seconds anew and each refused table goes round the
loop again, so nothing is assumed of that loop. Nothing makes a packet arrive.

`PlayCtrl`: timers fire, queued calls are delivered, `processEvents` returns and the
thread is scheduled. The environment has no fairness.

`EpgFile`: the tick that starts a download comes again and again, the worker is
scheduled, and a broadcaster repeats every section (it is a carousel). That every
announced service sends its sections is part of this: the code saves nothing before
all of them are complete (`eit.cpp:269`), so one service that is announced and silent
keeps the guides of all from the disk.

`MediaPlayer`: calls of the GUI thread go on, queued signals are delivered, timers fire and the
two threads are scheduled; nothing makes a user press a key or a track end. The
violation of `DeleteEnds` is found under this fairness: all steps that could end the
wait are disabled by the two threads themselves.

## 4. Proofs

`PidFilterProofs` proves, for every number of slots, every set of PIDs and
buffers, and every pattern of device failures:

* `TypeCorrect`: no call writes outside the table. The slot written is found by a
  scan; `ScanFindsSlot` (from `LeastIsFirst`, by well-foundedness of `<`) says a
  successful scan stops at a slot that satisfies it.
* `TableAlwaysConsistent`: `TypeOK /\ TableConsistent` is inductive. Each action
  adds or removes one slot, so the argument is two lemmas on the set of loaded
  slots (`AllocateLoads`, `RemoveUnloads`) with the library's facts on
  cardinality. It matters because removal is guarded by the counter.
* `SlotsConfiguredAsTable`: inductive with `TypeOK`. The history variable
  `refused` is what makes it so: a slot whose configuration was refused is
  excepted until it is configured again.
* `HardwareAlwaysFollows`: from `TableConsistent` before and after the step, since
  `enable_filter` writes the bitmap and the bitmap is the table.
* `FilterImplementsBag`: each step of the filter is a step of `PidBag` or a
  stutter, under the refinement that counts the slots of each PID;
  `FreeSlotIsRoom` shows that a free slot in the table means room by the counter.

Assumptions: `NumSlots` is a natural number, 0 is a PID (the value a zeroed table
holds), -1 is not, and "never configured" is no configuration.

`DtvCoreProofs` proves of the dtv object, for any services and frequencies and any
number of threads:

* `TypeCorrect`: the types, with every call allowed, MOST stops and manual scans
  included.
* `LocksAlwaysReleased`: with every call allowed, too. `LockInv` says of each lock at which
  steps of a call its holder is (`CallerLocks`) and that a download that has one still runs
  (`WorkerLocks`); so callers that are back hold none. The exit of the present and following
  download is the hard case: it cancels a thread that may have `present_following_lock` and
  unlocks it after the join, so a cancelled thread has to have a caller that waits for it
  (`PfCancelled`). `AnyPlaceInv` says where the three callers can be at all. All this is
  claimed while the process lives: a worker without a service takes it down (`Dead`).
* `TimeBufferNeverShared`: again with every call. `TimeInv`: the schedule shares the clock's
  buffer and starts only with the time set, so a TOT left in the filter would show; it is taken
  out before the time is set, or by an exit that joins the clock. `ClockInv` is what this needs
  of the threads: there is one clock thread, its flag is up unless it is just being created,
  and who cancels it waits for it. Two exits at once may cancel and join it both; the flag
  and the timer slot, which does nothing while another call is on, keep a second one from starting.
* The rest under `ViewerCalls`: the calls of a viewer, without the MOST stop and the
  manual scan, which start without asking `isSelecting()` and for which most of these
  properties do not hold (see *DtvCore* above). `ViewerInv` is the argument. `PlaceInv` says
  where the two threads can be at once and what they return to: while the switch
  thread selects, the GUI thread only reads events. `StopLockInv` says that whoever holds
  `stop_lock` is inside its stop. So no two threads are ever in the exits of the
  workers, and `WorkInv` can say what each step of an exit has established: the one
  thread of a worker that may run is the one whose id the object has, its flag is up unless it is being
  created or joined, and after an exit it stays down until the stop is over. `PlayInv` ties that
  to `is_playing`. None of the four is inductive alone. From them follow `JoinsOnce`,
  `FlagsHaveThreads`, `WorkersEndWithPlaying`, `ThreadsNeverLost` and
  `ServicePointerStable`. `FlagsHaveThreads` says of a raised flag that its thread exists, not
  that it still runs: one that ended before its creator raised the flag waits to be joined.
  `ServicePointerStable` covers the list loaded anew, which is freed under
  `current_service` after the workers ended and before the next ones start.
* `PlayingAlwaysRouted` and `TunesInQuiet`, if the table has the four slots that one
  service takes (`FourFit`): the filter is empty when a selection starts to load, so its four
  entries fit, and later removals are of other PIDs (`RouteInv`).

Assumptions: the named ones of the module, and its abstraction of PIDs, which are told apart
by what they carry, so that the PIDs of a service are never those of a table.

`AutoScanProofs` proves `TypeCorrect` without conditions, and three properties whatever
keys are handled inside whatever handlers, for every number of frequencies and
every depth, assuming one scan in a window and saves that succeed (the conditions named
under *Bounds*):

* `ListSurvives`: `SomeListOnDisk` holds whenever the process dies. It is not
  inductive alone: `AfterScan` removes the old
  list when stations were counted, and `PutAside` overwrites it. `ListSaved` adds
  what those rely on: stations are counted only when the new file is there, and a
  thread about to put the list aside runs in a window that has counted none.
* `WholeListAlwaysKept` and `CancelAlwaysRestores`: `WholeInv` follows the whole list
  through the stages of the thread: in place or put aside, and put aside for certain while a
  half scan is in place. It rests on `FrameInv`, what the interrupted handlers imply of the thread
  (`ok_flag` only over a running one, a pending quit only with a handler that waits for it), and
  `StageInv`, that the message after a scan is never of one that was left.

`PsiScanProofs` proves, for any multiplexes and any pattern of lost packets:

* `FilterAlwaysClean`: every way out of a phase has taken out what the phase loaded.
* `SdtAlwaysWhole`: for every section length and every modulus of the continuity counter
  such that fewer packets are missed in a row than one turn (`LossAssumption`, in the module: the
  code compares only the counter). The reader's invariant is
  that it has the first parts of one section; the arithmetic of the counter is in
  the lemmas before it (`RemShift` to `ExpectedIsNext`).
* `ListAlwaysPlayable`: while PMTs are read the list is that of the SDT, and the services passed have
  their streams (`ReadInv`); the loop that drops keeps `PlaysFrom` for what it has passed, from the
  second service on. `KeptInv` counts what it may have lost: nothing as long as every PMT came; the
  last service once its PMT did not, and one other only after that one was removed and freed.
* `TypeCorrect`.

`PlayCtrlProofs` proves, for any number of channels and any depth of nested handlers, bounds
included only as parameters:

* `TypeCorrect`.
* `WatchAlwaysRuns`: `WatchInv` has a part for the flag (`stop_tv_from_most` down) and a part for
  the last switch-on that went through (`switched`), which holds whatever the flag says. With the
  television on the tick is off only inside the handler that starts the media player, or after a switch-on that found
  a channel playing.
* `ScreenAlwaysFollows`: a wish that the running selection does not serve is in a
  timer, a single shot or `need_change` (`WishKept`). `IdleInv` alone would break when
  the thread starts; `SelectionInv` says of each stage of the thread what plays and which
  channel it is tuned to.

`ServiceFileProofs` proves, for any number of stations, nodes and records, first of the
linked list, under all steps of the file and of the window:

* `NeverBadAccess`: `ListInv` says that the nodes met from `list_head` are a chain
  without repetition, `list_cnt` is its length, and as long as the list is `filling`,
  `list_end` is its last node. `AppendChain`, `RemoveChain` and `ExchangeChain` are the
  pointer surgery of `list.cpp`, with its special cases for the head and for
  neighbours.
* `NodesImplementSequence`: the refinement of `StationSeq`. `PathIsChain` says that the path
  evaluated by hops from `list_head` is that chain.

Then of the file, the viewer's list and the window, with a crash between any two writes:

* `FileKept`: the inductive invariant `FileInv`. For each kind of work under way it says
  how far the file has got: a rewrite has written the first records of its list and holds
  the others (`RewritingPart`); a load has turned the first records into nodes, and their
  data is what is kept of these (`Loading`); a save has put records behind the old ones,
  and as long as no crash has cut one, those that are left are of stations the file does
  not have (`AppendingUncut`). `ImplementsStore` alone is not inductive: that a new count
  adds no station twice depends on what was found missing when the save began.
* `SavedStaysListed`: the count written last covers every record that was put behind the
  old ones; without `UncutFile` it would not, since a cut append leaves records past the
  count and the next save starts behind them (line 97).
* `FileImplementsStore`: the refinement of `StationStore`, one step lemma for each action
  (`SaveScanStep` to `CrashRestartStep`), files that do not open included (`SaveScanRefusedStep`,
  `RewriteRefusedStep`, a step `Refused` of the store). A crash shortens a list under rewrite to what is
  written (`RewrittenBegins`); the edits of nodes are edits of the list they carry
  (`EditedAdds`, `EditedMoves`, `EditedRemoves`, `EditedHides`).

The copying loop is a recursive function, so its lemmas (`SelectedAppend`, `SelectedValues`,
`SelectedNoRepeat`, `SelectedBegins`) come from the least index at which two copies could
differ (`CountingUp`, `CopiesAgree`), which stands in for induction. `MultiplexAssumption`
is used by `NewStations` only.

Assumptions: there are finitely many addresses, numbers other than the null pointer
(`NodeAssumption`, `NodesAssumption`). `LoadRecord` asks for a free one: `malloc` that
fails is not modelled.

`EpgFileProofs` proves, for any services and schedules of finitely many sections
(`ScheduleAssumption`):

* `GuideAlwaysWhole`: as long as no schedule changes, `table_usage`, `table_cnt` and
  `tmp_cnt` are the numbers of complete segments, tables and services, in whatever
  order sections arrive and however often. `CollectCounted` shows that the code's
  tests for the last section of a segment, the last segment and the last table
  raise each counter exactly when one more is complete; the collection then ends when all sections are there
  (`AllSegmentsAreATable`, `AllTablesAreAService`).
* `FirstDayAlwaysRead`: `FilesInv` says that a file that can be read has the index of a
  whole list of events and a beginning of that list, through every crash.
  `IndexOfFirstDay` says what the first entry of that index counts, the last event
  counted twice included. A read that gives nothing had a list of a single day
  (`PastEndIsOneDay`).
* `EventsAlwaysInOrder`: what is saved of a service is the parsed part of its schedule, each
  section once, in the order `InOrder` of tables, segments and sections, given one section
  in a slot (`IsSchedule`). The sorted list is a recursive function over the number
  of sections before each; `OrderedListsAll` shows that every position names one section
  (`FewerBefore`, with the library's facts on cardinality).
* `IndexAlwaysFits`: `IndexFits`, if the events come in order of time over no more than `DAYS` local
  dates (`SchedulesFit`). The code tests neither: by the DVB standard the two
  tables it parses carry four days of UTC each, which can be nine dates of local time, and
  then the array is one entry short. The
  index is a recursive function too; `IndexLength`, from the entry that the next
  day adds (`NextEntry`), bounds its length by the dates passed.

`MediaPlayerProofs` proves, for any folder with a file in it, any depth of nested calls and any
number of events:

* `TypeCorrect`: `Frames` says what the GUI thread's stack may hold: a call that was
  interrupted is at one of the steps that handle events, and what a pick or a resume carries is a
  file of the folder. A call, a step and a return keep it (`FramesPush`, `FramesMove`,
  `FramesReturn`).
* `DeletesAlwaysAlone`: `DeletesAlone` looks only at the call on top and is not inductive by itself: a
  return brings back a call from below, and only `Frames` says that this one has yet to
  wait for the thread.
  The places `set` and `setbus` are not in it.
* `NoStartLost`: what follows from it for the start of a `QThread`.
* `OnlySetFileFreesUnderTrack`: the player is freed under the track thread nowhere but
  in such a `setFile`. With `DeletesAlwaysAlone` it names the two calls to repair.

Assumptions: the folder holds a file (`FolderAssumption`), of which any may be bad.

Only model-checked: all liveness (`SelectEnds`, `CallsEnd`, `ScanEnds`, `LastChosenPlays`,
`DownloadEnds`, `GuideOfToday`, `PickSettles`, `BadFileForgotten`), which is beyond the
prover.

## 5. Not modelled

Most of the lines of this repository have no behaviour to check. `qrc/qrc_Images.cpp` (35814 lines) is
generated image data; `QT/qserialdevice-qserialdevice` and `gst/gstqueue.c` are
vendored; a large part of `libdtv` decodes descriptors into fields; most of `QT` paints.
The models cover the code that keeps state which several actors share, which is the smaller part.

* *GStreamer playback of TV* (`libdtv/gst`): calls into plugins of the board; play and stop are
  outcomes in `DtvCore`. Recording has no caller in the user interface.
* *MOST and CAN interface* (`QT/QMostInterface`): the adapter's firmware, the other side of the
  protocol, is not in the repository. Read, not modelled: an acknowledgement can be
  parsed as a command (226-290), and waiting for one swallows a command that arrives
  meanwhile (363-392).
* *Fast forward inside the pipeline* and the rest of `GstPlayerPipeline`: GStreamer calls.
* *Descriptors, texts, character sets, the NIT*: data decoding without shared state. Some
  of it has no caller (`dvb_sdt_data::find_sdt`, `dvb_pat_data`, the `exec_*` functions
  of `dvb_network_info`).
* *Supervision* (`main.cpp`): a loop; its effect is the crash-and-restart of the modules.
* *Menus, windows, settings, language, overlay*: user interface without protocol.
* Concurrent calls of the PID filter (plan, 7).
