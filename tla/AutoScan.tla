------------------------------ MODULE AutoScan ------------------------------
(* The automatic scan: QT/QAutoScanWindow on the GUI thread and              *)
(* QT/QAutoScanThread, which puts the station list aside, tunes every        *)
(* frequency and appends what it finds to a new list.                        *)
(*                                                                           *)
(* The key handler of the window runs the event loop while it waits, so keys *)
(* are handled inside a handler: frames is the stack of handlers that wait,  *)
(* last on top.  Deleting the window under a handler that still uses it, or  *)
(* with its thread running, ends the process: so does a power cut, at any    *)
(* moment, and what is left are the two files.                               *)
(*                                                                           *)
(* A list is the set of frequencies whose stations it holds.  The scan from  *)
(* MOST is left out: nothing calls doScanFromMOST until most_scan is true,   *)
(* and nothing else makes it true.                                           *)
EXTENDS Integers, Sequences

CONSTANTS
  NumFreqs,   \* frequencies to tune (57)
  NoFile,     \* the file does not exist
  SavesFail,  \* the service file may refuse to be opened for writing
  MaxScans,   \* bound: scans started in one window
  MaxDepth    \* bound: handlers waiting inside one another

ASSUME NumFreqsAssumption == NumFreqs \in Nat
ASSUME NoFileAssumption == \A l \in SUBSET (1..NumFreqs) : l # NoFile
ASSUME SavesFailAssumption == SavesFail \in BOOLEAN
ASSUME BoundsAssumption == MaxScans \in Nat /\ MaxDepth \in Nat

VARIABLES
  window,     \* "none", "open", or "freed" under a handler still on the stack
  scanning, quit, total_channels_found,
  frames,     \* the handlers that wait
  thread,     \* the scan thread's next step, "none" when it does not run
  freq,       \* the frequency it is at
  msg,        \* sigShowMessageAfterScan waits in the GUI thread's queue
  playing,    \* the dtv object's is_playing
  listed,     \* total_channles_num > 0: the list loaded last has a service
  dat, old,   \* dvb_services.dat and dvb_services_old.dat
  scans,      \* history: scans started in this window
  before,     \* history: the list the running scan put aside
  whole,      \* history: the user's first list and those of scans that got through
  orderly     \* history: there was a list at first and the process never died

winVars  == <<window, scanning, quit, total_channels_found, scans>>
thrVars  == <<thread, freq>>
tvVars   == <<playing, listed>>
fileVars == <<dat, old>>
histVars == <<before, whole, orderly>>
vars == <<winVars, frames, thrVars, msg, tvVars, fileVars, histVars>>

Freqs == 1..NumFreqs
Lists == SUBSET Freqs

TypeOK ==
  /\ window \in {"none", "open", "freed"}
  /\ scanning \in BOOLEAN /\ quit \in BOOLEAN /\ total_channels_found \in BOOLEAN
  /\ frames \in Seq({"ok", "ok_flag", "exit", "menu"}) /\ Len(frames) <= MaxDepth
  /\ thread \in {"none", "mv", "test", "scan", "save", "count", "flag", "emit", "end"}
  /\ freq \in 0..NumFreqs
  /\ msg \in BOOLEAN /\ playing \in BOOLEAN /\ listed \in BOOLEAN
  /\ dat \in {NoFile} \cup Lists /\ old \in {NoFile} \cup Lists
  /\ scans \in 0..MaxScans
  /\ before \in {NoFile} \cup Lists /\ whole \subseteq Lists /\ orderly \in BOOLEAN

\* TV mode with the user's list, if there is one.
Init ==
  /\ window = "none" /\ scanning = FALSE /\ quit = FALSE
  /\ total_channels_found = FALSE
  /\ frames = <<>>
  /\ thread = "none" /\ freq = 0
  /\ msg = FALSE
  /\ dat \in {NoFile} \cup (Lists \ {{}}) /\ old = NoFile
  /\ playing = FALSE /\ listed = (dat # NoFile)
  /\ scans = 0
  /\ before = NoFile /\ whole = {dat} \ {NoFile} /\ orderly = (dat # NoFile)

-----------------------------------------------------------------------------
\* "mv" and "rm" of a file that does not exist change nothing.
Move(from, to) == IF from = NoFile THEN to ELSE from

HasService(file) == file \notin {NoFile, {}}

InLoop == frames # <<>> /\ frames[Len(frames)] \in {"ok", "exit", "menu"}
Top(f) == frames # <<>> /\ frames[Len(frames)] = f
Popped == SubSeq(frames, 1, Len(frames) - 1)

\* The GUI thread handles an event from its own loop or from a waiting handler.
Handles == frames = <<>> \/ InLoop

\* The process is gone and starts again: only the files are left.
Dies ==
  /\ window' = "none" /\ scanning' = FALSE /\ quit' = FALSE
  /\ total_channels_found' = FALSE /\ scans' = 0
  /\ frames' = <<>>
  /\ thread' = "none" /\ freq' = 0
  /\ msg' = FALSE /\ playing' = FALSE /\ listed' = HasService(dat)
  /\ before' = NoFile /\ orderly' = FALSE
  /\ UNCHANGED <<dat, old, whole>>

\* delete this, with the handlers in rest still to return into the window.  Its
\* queued messages go with it.
Deleted(rest) ==
  /\ window' = (IF rest = <<>> THEN "none" ELSE "freed")
  /\ frames' = rest
  /\ scanning' = FALSE /\ quit' = FALSE
  /\ total_channels_found' = FALSE /\ scans' = 0
  /\ msg' = FALSE

-----------------------------------------------------------------------------
(* The window *)

\* submenu_scan: OK on "automatic".
OpenWindow ==
  /\ window = "none" /\ frames = <<>>
  /\ window' = "open"
  /\ UNCHANGED <<scanning, quit, total_channels_found, scans, frames, thrVars, msg, tvVars, fileVars, histVars>>

\* OK: one second of event loop first ...
KeyOk ==
  /\ window = "open" /\ Handles /\ Len(frames) < MaxDepth
  /\ ~scanning
  /\ scans < MaxScans
  /\ frames' = Append(frames, "ok")
  /\ UNCHANGED <<winVars, thrVars, msg, tvVars, fileVars, histVars>>

\* ... then playback is stopped and the thread started, unless it runs.
OkStart ==
  /\ Top("ok") /\ window = "open"
  /\ playing' = FALSE
  /\ \/ thread # "none" /\ UNCHANGED <<scans, thrVars>>
     \/ thread = "none" /\ scans < MaxScans
        /\ thread' = "mv" /\ freq' = 0 /\ scans' = scans + 1
  /\ frames' = Append(Popped, "ok_flag")
  /\ UNCHANGED <<window, scanning, quit, total_channels_found, msg, listed, fileVars, histVars>>

OkFlag ==
  /\ Top("ok_flag")
  /\ scanning' = TRUE
  /\ frames' = Popped
  /\ UNCHANGED <<window, quit, total_channels_found, scans, thrVars, msg, tvVars, fileVars, histVars>>

\* EXIT or MENU during a scan: ask the thread to stop and wait for its end.
KeyCancel(key) ==
  /\ window = "open" /\ Handles /\ Len(frames) < MaxDepth
  /\ scanning
  /\ scanning' = FALSE /\ quit' = TRUE
  /\ frames' = Append(frames, key)
  /\ UNCHANGED <<window, total_channels_found, scans, thrVars, msg, tvVars, fileVars, histVars>>

\* UpdateChannelsNumber reads the file that is there now, and StartServiceSelect has its
\* first service selected: what plays is stopped, and that plays if there is one and it can.
Reload ==
  /\ listed' = HasService(dat')
  /\ playing' \in {FALSE, listed'}

\* Faulty: the old list is put back without waiting for the thread's end.
RestoreAtOnce(key) ==
  /\ Top(key) /\ window = "open"
  /\ dat' = Move(old, dat) /\ old' = NoFile
  /\ Reload
  /\ Deleted(Popped)
  /\ UNCHANGED <<thrVars, histVars>>

\* The thread has ended: the old list is put back and its first service chosen.
Restore(key) ==
  /\ Top(key) /\ window = "open"
  /\ thread = "none"
  /\ dat' = Move(old, dat) /\ old' = NoFile
  /\ Reload
  /\ Deleted(Popped)
  /\ UNCHANGED <<thrVars, histVars>>

\* EXIT or MENU with no scan: the window goes at once.
KeyClose ==
  /\ window = "open" /\ Handles
  /\ ~scanning /\ thread = "none"
  /\ Deleted(frames)
  /\ UNCHANGED <<thrVars, tvVars, fileVars, histVars>>

\* Faulty: the old list goes whether or not anything was found.
AfterScanRemoves ==
  /\ msg /\ window = "open" /\ Handles
  /\ msg' = FALSE
  /\ old' = NoFile /\ UNCHANGED dat
  /\ Reload
  /\ UNCHANGED <<winVars, frames, thrVars, histVars>>

\* doShowMessageAfterScan
AfterScan ==
  /\ msg /\ window = "open" /\ Handles
  /\ msg' = FALSE
  /\ IF total_channels_found THEN UNCHANGED dat ELSE dat' = Move(old, dat)
  /\ old' = NoFile
  /\ Reload
  /\ UNCHANGED <<winVars, frames, thrVars, histVars>>

\* The timer slot: most_scan is not set during this scan ("most_scan==true;" is
\* a comparison), so HandleTvSignal selects a service when the signal is good and the
\* list loaded before the scan has one.
\* DTV_Service_Select refuses only while a frequency is being scanned.
TickSelects ==
  /\ Handles /\ ~playing /\ listed
  /\ thread # "scan"
  /\ playing' = TRUE
  /\ UNCHANGED <<winVars, frames, thrVars, msg, listed, fileVars, histVars>>

\* ... and stops what plays when the signal is bad.
TickStops ==
  /\ Handles /\ playing
  /\ playing' = FALSE
  /\ UNCHANGED <<winVars, frames, thrVars, msg, listed, fileVars, histVars>>

-----------------------------------------------------------------------------
(* The thread *)

\* Faulty: the list is left in its place.
PutAsideNot ==
  /\ thread = "mv"
  /\ before' = dat
  /\ thread' = "test" /\ freq' = 0
  /\ UNCHANGED <<winVars, frames, msg, tvVars, fileVars, whole, orderly>>

PutAside ==
  /\ thread = "mv"
  /\ before' = dat
  /\ old' = Move(dat, old) /\ dat' = NoFile
  /\ thread' = "test" /\ freq' = 0
  /\ UNCHANGED <<winVars, frames, msg, tvVars, whole, orderly>>

\* Faulty: one frequency too many.
NextFreqPastEnd ==
  /\ thread = "test"
  /\ ~quit /\ freq <= NumFreqs
  /\ freq' = freq + 1
  /\ thread' = (IF playing THEN "test" ELSE "scan")
  /\ UNCHANGED <<winVars, frames, msg, tvVars, fileVars, histVars>>

\* Whoever asked for an end gets it at the next frequency.  DTV_Scan refuses
\* while something plays.
NextFreq ==
  /\ thread = "test"
  /\ ~quit /\ freq < NumFreqs
  /\ freq' = freq + 1
  /\ thread' = (IF playing THEN "test" ELSE "scan")
  /\ UNCHANGED <<winVars, frames, msg, tvVars, fileVars, histVars>>

ScanDone ==
  /\ thread = "scan"
  /\ thread' \in {"test", "save"}
  /\ UNCHANGED <<winVars, frames, freq, msg, tvVars, fileVars, histVars>>

\* DTV_Save_Scan appends the stations of this frequency; nobody looks at its
\* result ...
Save ==
  /\ thread = "save"
  /\ \/ dat' = (IF dat = NoFile THEN {} ELSE dat) \cup {freq}
     \/ SavesFail /\ dat' = dat
  /\ thread' = "count"
  /\ UNCHANGED <<winVars, frames, freq, msg, tvVars, old, histVars>>

\* ... and they are counted after that.
Count ==
  /\ thread = "count"
  /\ total_channels_found' = TRUE
  /\ thread' = "test"
  /\ UNCHANGED <<window, scanning, quit, scans, frames, freq, msg, tvVars, fileVars, histVars>>

LoopEnd ==
  /\ thread = "test"
  /\ quit \/ freq = NumFreqs
  /\ thread' = "flag"
  /\ whole' = (IF ~quit /\ dat # NoFile THEN whole \cup {dat} ELSE whole)
  /\ UNCHANGED <<winVars, frames, freq, msg, tvVars, fileVars, before, orderly>>

\* The window learns of the end.  A scan takes eleven seconds at least and the
\* OK handler waits for one, so none waits by now.
FlagDown ==
  /\ thread = "flag"
  /\ \A i \in DOMAIN frames : frames[i] \notin {"ok", "ok_flag"}
  /\ scanning' = FALSE
  /\ thread' = "emit"
  /\ UNCHANGED <<window, quit, total_channels_found, scans, frames, freq, msg, tvVars, fileVars, histVars>>

Emit ==
  /\ thread = "emit"
  /\ msg' = (msg \/ ~quit)
  /\ thread' = "end"
  /\ UNCHANGED <<winVars, frames, freq, tvVars, fileVars, histVars>>

ThreadEnd ==
  /\ thread = "end"
  /\ thread' = "none"
  /\ UNCHANGED <<winVars, frames, freq, msg, tvVars, fileVars, histVars>>

-----------------------------------------------------------------------------
(* The ends of the process *)

\* The window is deleted with its thread running, or a handler returns into a
\* window that was deleted while it waited.
DeletedInUse ==
  /\ \/ window = "open" /\ Handles /\ ~scanning /\ thread # "none"
     \/ window = "freed" /\ (Top("ok") \/ (\E key \in {"exit", "menu"} : Top(key)))
  /\ Dies

PowerCut == Dies

Next ==
  \/ OpenWindow \/ KeyOk \/ OkStart \/ OkFlag
  \/ \E key \in {"exit", "menu"} : KeyCancel(key) \/ Restore(key)
  \/ KeyClose \/ AfterScan \/ TickSelects \/ TickStops
  \/ PutAside \/ NextFreq \/ ScanDone \/ Save \/ Count
  \/ LoopEnd \/ FlagDown \/ Emit \/ ThreadEnd
  \/ DeletedInUse \/ PowerCut

Spec == Init /\ [][Next]_vars

-----------------------------------------------------------------------------
(* Correctness *)

\* Once there was a list, there is one on the disk, under one of the two names,
\* at every moment: whatever the user presses and whenever the power goes, as
\* long as every save succeeds.
SomeListOnDisk == whole # {} => dat # NoFile \/ old # NoFile

\* As long as the process has not died, a user who had a list and leaves the
\* scan has one that is whole, the one from before or that of a scan that went
\* through all frequencies, in place or put aside: never what half a scan found.
WholeListKept ==
  window = "none" /\ thread = "none" /\ orderly =>
    (IF dat = NoFile THEN old ELSE dat) \in whole

\* Leaving a scan that has not ended puts back the list it put aside.
CancelRestores ==
  [][ (\E key \in {"exit", "menu"} : Top(key)) /\ frames' = Popped /\ orderly' =>
        dat' \in {before} \cup whole ]_vars

\* "Stop playback before scanning": from the start of the thread to its end,
\* nothing plays.
NothingPlaysDuringScan == thread # "none" => ~playing
=============================================================================
