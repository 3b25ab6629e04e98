----------------------------- MODULE PlayCtrl -----------------------------
(***************************************************************************)
(* The control of the TV screen: remote keys, typed numbers and MOST       *)
(* messages choose a channel, single-shot timers collect the choices, one  *)
(* thread (ch_sw, a QChannelSwitchThrd) tunes, and a 250 ms tick (DoDEBUG) *)
(* watches over the signal and the picture.  All but the thread runs in    *)
(* the GUI event loop, which is entered again wherever the code calls      *)
(* QCoreApplication::processEvents: the calls that are interrupted there   *)
(* are the frames of the stack "frames", and only the top one can go on.   *)
(*                                                                         *)
(* What the screen shows, volume, menus, EPG and scanning are left out;    *)
(* every channel of the list is taken to have an audio and a video PID.    *)
(***************************************************************************)
EXTENDS Integers, Sequences

CONSTANTS
    NChannels,      \* total_channles_num
    BadTimeout,     \* BAD_SIGNAL_TIMEOUT, ticks of bad signal until a stop
    AfterFail,      \* bad_signal_cnt after a selection that failed
    AfterStop,      \* bad_signal_cnt while waiting for a steady signal
    MaxWishes,      \* bound: keys, digits and MOST selections
    MaxPower,       \* bound: MOST on/off messages, media player starts and exits
    MaxFades,       \* bound: changes of the signal
    MaxFaults,      \* bound: playback faults
    MaxEvents,      \* bound: all of these together
    MaxNest         \* bound: nested processEvents

ASSUME PlayCtrlAssumption ==
    /\ {NChannels, BadTimeout} \subseteq Nat \ {0}
    /\ {AfterFail, AfterStop, MaxWishes, MaxPower, MaxFades, MaxFaults, MaxEvents,
        MaxNest} \subseteq Nat

VARIABLES
    current_ch_index,   \* the channel chosen last
    ch_idx_tmp,         \* the number typed so far, NChannels for any that is too large
    ch_sw_timeout,      \* the 1.5 s timer is running
    shots,              \* single shots (10 ms, 50 ms) on their way to DoChannelSwitch
    sw_timer,           \* the 1.2 s timer of the MOST list: the channel asked for, or Off
    ticking,            \* debug_timer is running
    tick,               \* a DoDEBUG call is queued
    need_change,        \* a wish that came while the thread was tuning
    no_signal, freq_was_locked, bad_signal_cnt,
    playing,            \* the channel that plays (is_playing and current_service), or Off
    ch_sw,              \* the thread: where it is, its index and the result of the selection
    saved,              \* channel_idx of the settings
    stop_tv_from_most,
    connected,          \* the TV listens to the MOST bus
    media,              \* the media player is on the screen
    frames,             \* GUI calls interrupted by processEvents, the innermost first
    signal,             \* the aerial delivers a good signal
    dropped,            \* history: a wish for current_ch_index was thrown away
    switched,           \* history: what the last switch of the television did: "on",
                        \* "off", or "found" when it found a channel playing unwatched
    left                \* what remains of the bounds on the environment

wishVars == <<current_ch_index, ch_idx_tmp, ch_sw_timeout, shots, sw_timer, need_change>>
watchVars == <<ticking, tick, bad_signal_cnt>>
threadVars == <<ch_sw, no_signal, freq_was_locked, saved>>
screenVars == <<stop_tv_from_most, switched, connected, media, frames>>
vars == <<wishVars, watchVars, threadVars, screenVars, playing, signal, dropped, left>>

Off == -1
Channels == 0 .. NChannels - 1
Indices == 0 .. NChannels
Idle == [pc |-> "idle", idx |-> 0, res |-> "none"]
Frames == {"start", "start_resume", "start_most", "close", "close_media", "media"}
Starts == {"start", "start_resume", "start_most"}

isSelecting == ch_sw.pc # "idle"

\* The event loop runs an event: at the bottom, or inside a processEvents
Event == Len(frames) <= MaxNest
Push(f) == frames' = <<f>> \o frames
Spend(what) ==
    /\ left[what] > 0 /\ left.events > 0
    /\ left' = [left EXCEPT ![what] = @ - 1, !.events = @ - 1]

Init ==
    /\ saved \in Indices
    /\ current_ch_index = saved
    /\ ch_idx_tmp = 0 /\ ch_sw_timeout = FALSE /\ shots = 0 /\ sw_timer = Off
    /\ need_change = FALSE
    /\ ticking = TRUE /\ tick = FALSE /\ bad_signal_cnt = BadTimeout
    /\ ch_sw = [Idle EXCEPT !.pc = "begin"]
    /\ no_signal = FALSE /\ freq_was_locked = FALSE
    /\ stop_tv_from_most = FALSE /\ switched = "on" /\ connected = TRUE /\ media = FALSE
    /\ frames = << >>
    /\ playing = Off
    /\ signal \in BOOLEAN
    /\ dropped = FALSE
    /\ left = [wishes |-> MaxWishes, power |-> MaxPower,
               fades |-> MaxFades, faults |-> MaxFaults, events |-> MaxEvents]

-----------------------------------------------------------------------------
(* StartServiceSelect: with the thread idle it runs the event loop once    *)
(* (frame f) before it starts the thread, else it leaves the wish to the   *)
(* tick, but only when the signal was good.                                *)

StartWaitsForEvents(f) ==
    /\ ~isSelecting
    /\ ch_idx_tmp' = 0
    /\ Push(f)
    /\ UNCHANGED <<need_change, dropped>>

KeepsWish == ~no_signal

LeaveToTick ==
    /\ isSelecting
    /\ ch_idx_tmp' = 0
    /\ need_change' = (need_change \/ KeepsWish)
    /\ dropped' = (dropped \/ (~KeepsWish /\ ~need_change /\ ch_sw.pc # "begin"
                                /\ current_ch_index # ch_sw.idx))
    /\ UNCHANGED frames

StartServiceSelect == StartWaitsForEvents("start") \/ LeaveToTick

\* ch_sw->start(): nothing happens when a nested event started the thread
StartThread == ch_sw' = IF isSelecting THEN ch_sw ELSE [Idle EXCEPT !.pc = "begin"]

-----------------------------------------------------------------------------
(* Wishes *)

KeyUpDown ==
    /\ Event /\ ~media /\ Spend("wishes")
    /\ \/ current_ch_index' = (current_ch_index + 1) % NChannels
       \/ current_ch_index' = IF current_ch_index > 0 THEN current_ch_index - 1
                              ELSE NChannels - 1
    /\ ch_sw_timeout' = TRUE
    /\ UNCHANGED <<ch_idx_tmp, shots, sw_timer, need_change, watchVars, threadVars,
                   screenVars, playing, signal, dropped>>

\* QString::append and toInt on a list of at most ten channels
Typed(d) == IF ch_idx_tmp = 0 /\ d < NChannels THEN d ELSE NChannels

\* A number below the total is a position counted from one (0 is the first)
GoodDigit(d) ==
    /\ Typed(d) < NChannels
    /\ ch_idx_tmp' = Typed(d)
    /\ current_ch_index' = IF Typed(d) > 0 THEN Typed(d) - 1 ELSE 0
    /\ ch_sw_timeout' = TRUE
    /\ UNCHANGED dropped

\* Another number stops the timer, and the digits stay until a selection
BadDigit(d) ==
    /\ Typed(d) >= NChannels
    /\ ch_idx_tmp' = NChannels
    /\ ch_sw_timeout' = FALSE
    /\ dropped' = (dropped \/ ch_sw_timeout)
    /\ UNCHANGED current_ch_index

Digit ==
    /\ Event /\ ~media /\ ~isSelecting /\ Spend("wishes")
    /\ \E d \in Indices : GoodDigit(d) \/ BadDigit(d)
    /\ UNCHANGED <<shots, sw_timer, need_change, watchVars, threadVars, screenVars,
                   playing, signal>>

\* The timer or a single shot ends in DoChannelSwitch
DoChannelSwitch ==
    /\ Event
    /\ \/ ch_sw_timeout /\ ch_sw_timeout' = FALSE /\ UNCHANGED shots
       \/ shots > 0 /\ shots' = shots - 1 /\ UNCHANGED ch_sw_timeout
    /\ StartServiceSelect
    /\ UNCHANGED <<current_ch_index, sw_timer, watchVars, threadVars, stop_tv_from_most,
                   switched, connected, media, playing, signal, left>>

\* onCanRecieve 0x81: the index is whatever the bus says
MostSelects ==
    /\ Event /\ connected /\ Spend("wishes")
    /\ sw_timer' \in Indices
    /\ UNCHANGED <<current_ch_index, ch_idx_tmp, ch_sw_timeout, shots, need_change,
                   watchVars, threadVars, screenVars, playing, signal, dropped>>

DoChannelSwitchFromMOST ==
    /\ Event /\ sw_timer # Off
    /\ sw_timer' = Off
    /\ \/ /\ isSelecting
          /\ current_ch_index' = sw_timer /\ need_change' = TRUE
          /\ UNCHANGED <<ch_idx_tmp, connected, frames, dropped>>
       \/ /\ ~isSelecting /\ sw_timer \in Channels
          /\ current_ch_index' = sw_timer
          /\ connected' = FALSE
          /\ StartWaitsForEvents("start_most")
       \/ /\ ~isSelecting /\ sw_timer \notin Channels
          /\ connected' = TRUE
          /\ UNCHANGED <<current_ch_index, ch_idx_tmp, need_change, frames, dropped>>
    /\ UNCHANGED <<ch_sw_timeout, shots, watchVars, threadVars, stop_tv_from_most, switched,
                   media, playing, signal, left>>

-----------------------------------------------------------------------------
(* The tick *)

TimerFires ==
    /\ ticking /\ ~tick
    /\ tick' = TRUE
    /\ UNCHANGED <<wishVars, ticking, bad_signal_cnt, threadVars, screenVars, playing,
                   signal, dropped, left>>

\* Faulty: the wish is cleared and not served
TickForgetsWish ==
    /\ ~isSelecting /\ need_change
    /\ need_change' = FALSE
    /\ UNCHANGED <<current_ch_index, ch_idx_tmp, ch_sw_timeout, shots, sw_timer,
                   bad_signal_cnt, frames, playing, dropped, left>>

\* A tick that only selects again what was asked for meanwhile
TickServesWish ==
    /\ ~isSelecting /\ need_change
    /\ need_change' = FALSE
    /\ shots' = shots + 1
    /\ UNCHANGED <<current_ch_index, ch_idx_tmp, ch_sw_timeout, sw_timer, bad_signal_cnt,
                   frames, playing, dropped, left>>

SeenBad == IF signal THEN BadTimeout
           ELSE IF bad_signal_cnt > 0 THEN bad_signal_cnt - 1 ELSE 0

\* The receiver asks for a restart, the picture is frozen or the sections have CRC
\* errors: stop, restart the receiver, select again.  The last two come after the look
\* at the signal.
TickRestarts ==
    /\ ~isSelecting /\ ~need_change /\ playing # Off /\ Spend("faults")
    /\ bad_signal_cnt' \in {bad_signal_cnt} \cup (IF SeenBad > 0 THEN {SeenBad} ELSE {})
    /\ playing' = Off
    /\ shots' = shots + 1
    /\ UNCHANGED <<current_ch_index, ch_idx_tmp, ch_sw_timeout, sw_timer, need_change,
                   frames, dropped>>

\* HandleTvSignal while a channel plays
TickWatchesSignal ==
    /\ ~isSelecting /\ ~need_change /\ playing # Off
    /\ IF SeenBad > 0
       THEN /\ bad_signal_cnt' = SeenBad
            /\ UNCHANGED <<no_signal, playing>>
       ELSE /\ no_signal' = TRUE
            /\ playing' = Off
            /\ bad_signal_cnt' = AfterStop
    /\ UNCHANGED <<wishVars, frames, dropped, left>>

\* Faulty: after a stop for lost signal nobody tries again
WaitsForEver == freq_was_locked

\* HandleTvSignal while nothing plays: select again after a time without a lock, or
\* once the signal has been steady
WaitsForSteady == freq_was_locked /\ ~signal

TickRetries ==
    /\ ~isSelecting /\ ~need_change /\ playing = Off
    /\ IF WaitsForSteady
       THEN bad_signal_cnt' = AfterStop /\ UNCHANGED <<wishVars, frames, dropped>>
       ELSE IF bad_signal_cnt > 0
       THEN bad_signal_cnt' = bad_signal_cnt - 1 /\ UNCHANGED <<wishVars, frames, dropped>>
       ELSE /\ bad_signal_cnt' = BadTimeout
            /\ StartServiceSelect
            /\ UNCHANGED <<current_ch_index, ch_sw_timeout, shots, sw_timer>>
    /\ UNCHANGED <<playing, left>>

DoDEBUG ==
    /\ Event /\ tick
    /\ tick' = FALSE
    /\ \/ /\ isSelecting
          /\ UNCHANGED <<wishVars, bad_signal_cnt, frames, no_signal, playing, dropped, left>>
       \/ TickServesWish /\ UNCHANGED no_signal
       \/ TickRestarts /\ UNCHANGED no_signal
       \/ TickWatchesSignal
       \/ TickRetries /\ UNCHANGED no_signal
    /\ UNCHANGED <<ticking, ch_sw, freq_was_locked, saved, stop_tv_from_most, switched,
                   connected, media, signal>>

-----------------------------------------------------------------------------
(* The thread: QChannelSwitchThrd::run *)

SelectBegin ==
    /\ ch_sw.pc = "begin"
    /\ ch_sw' = [ch_sw EXCEPT !.pc = "tuning", !.idx = current_ch_index]
    /\ playing' = Off
    /\ dropped' = FALSE
    /\ UNCHANGED <<wishVars, watchVars, no_signal, freq_was_locked, saved, screenVars,
                   signal, left>>

\* DTV_Service_Select: RET_DTV_LIST_EMPTY for an index that is not on the list, else
\* RET_NO_SIGNAL or RET_PLAY_ERROR, or the channel plays
SelectDone ==
    /\ ch_sw.pc = "tuning"
    /\ \E res \in {"ok", "fail", "empty"} :
        /\ res = "empty" <=> ch_sw.idx \notin Channels
        /\ res = "ok" => signal
        /\ IF res = "fail" /\ signal THEN Spend("faults") ELSE UNCHANGED left
        /\ ch_sw' = [ch_sw EXCEPT !.pc = "tuned", !.res = res]
        /\ playing' = IF res = "ok" THEN ch_sw.idx ELSE Off
    /\ UNCHANGED <<wishVars, watchVars, no_signal, freq_was_locked, saved, screenVars,
                   signal, dropped>>

Report ==
    /\ ch_sw.pc = "tuned"
    /\ ch_sw' = [ch_sw EXCEPT !.pc = "ending"]
    /\ freq_was_locked' = CASE ch_sw.res = "ok" -> TRUE
                            [] ch_sw.res = "fail" -> FALSE
                            [] OTHER -> freq_was_locked
    /\ no_signal' = CASE ch_sw.res = "ok" -> FALSE
                      [] ch_sw.res = "fail" -> TRUE
                      [] OTHER -> no_signal
    /\ bad_signal_cnt' = IF ch_sw.res = "fail" THEN AfterFail ELSE bad_signal_cnt
    /\ UNCHANGED <<wishVars, ticking, tick, saved, screenVars, playing, signal, dropped, left>>

\* The index is read again for the settings, which a failed selection leaves alone
ThreadEnd ==
    /\ ch_sw.pc = "ending"
    /\ ch_sw' = Idle
    /\ saved' = IF ch_sw.res # "fail" THEN current_ch_index ELSE saved
    /\ UNCHANGED <<wishVars, watchVars, no_signal, freq_was_locked, screenVars, playing,
                   signal, dropped, left>>

-----------------------------------------------------------------------------
(* Television on and off *)

\* Faulty: the stop forgets that the television is off
StopKeepsFlag ==
    /\ ~isSelecting
    /\ ticking' = FALSE
    /\ playing' = Off
    /\ switched' = "off"
    /\ UNCHANGED stop_tv_from_most

\* MOST_TV_STOP_PLAY, when doSigTvOnOff has waited for the thread
MOST_TV_STOP_PLAY ==
    /\ ~isSelecting
    /\ ticking' = FALSE
    /\ playing' = Off
    /\ stop_tv_from_most' = TRUE
    /\ switched' = "off"

TvOff ==
    /\ Event /\ connected /\ Spend("power")
    /\ MOST_TV_STOP_PLAY
    /\ Push("close")
    /\ UNCHANGED <<wishVars, tick, bad_signal_cnt, threadVars, connected, media, signal,
                   dropped>>

\* doSigTvOnOff(true) and MOST_TV_RESUME_PLAY, from the bus or from the exit of the
\* media player: nothing more happens when a channel plays, although it may be one that
\* was selected while the television was off, with the tick stopped
TvOn ==
    /\ Event /\ (connected \/ media) /\ ~isSelecting /\ Spend("power")
    /\ media' = FALSE
    /\ IF playing # Off
       THEN /\ switched' = IF ticking THEN "on" ELSE "found"
            /\ UNCHANGED <<wishVars, bad_signal_cnt, no_signal, frames, dropped>>
       ELSE /\ switched' = "on"
            /\ no_signal' = FALSE
            /\ bad_signal_cnt' = BadTimeout
            /\ StartWaitsForEvents("start_resume")
            /\ UNCHANGED <<current_ch_index, ch_sw_timeout, shots, sw_timer>>
    /\ UNCHANGED <<ticking, tick, ch_sw, freq_was_locked, saved, stop_tv_from_most,
                   connected, playing, signal>>

\* doStartMediaMplayer stops the tick, waits for the thread, runs the event loop and
\* then switches the television off
MediaStart ==
    /\ Event /\ ~media /\ ~isSelecting /\ Spend("power")
    /\ \A n \in DOMAIN frames : frames[n] \notin {"media", "close_media"}
    /\ ticking' = FALSE
    /\ Push("media")
    /\ UNCHANGED <<wishVars, tick, bad_signal_cnt, threadVars, stop_tv_from_most, switched,
                   connected, media, playing, signal, dropped>>

\* The innermost interrupted call goes on
Start ==
    /\ frames # << >> /\ Head(frames) \in Starts
    /\ frames' = Tail(frames)
    /\ StartThread
    /\ IF Head(frames) = "start_resume"
       THEN ticking' = TRUE /\ stop_tv_from_most' = FALSE
       ELSE UNCHANGED <<ticking, stop_tv_from_most>>
    /\ connected' = IF Head(frames) = "start" THEN connected ELSE TRUE
    /\ UNCHANGED <<wishVars, tick, bad_signal_cnt, no_signal, freq_was_locked, saved, switched,
                   media, playing, signal, dropped, left>>

MediaStopsTv ==
    /\ frames # << >> /\ Head(frames) = "media"
    /\ MOST_TV_STOP_PLAY
    /\ frames' = <<"close_media">> \o Tail(frames)
    /\ UNCHANGED <<wishVars, tick, bad_signal_cnt, threadVars, connected, media, signal,
                   dropped, left>>

Closed ==
    /\ frames # << >> /\ Head(frames) \in {"close", "close_media"}
    /\ frames' = Tail(frames)
    /\ IF Head(frames) = "close"
       THEN connected' = TRUE /\ UNCHANGED <<ticking, stop_tv_from_most, switched, media>>
       ELSE /\ ticking' = FALSE /\ stop_tv_from_most' = TRUE /\ switched' = "off"
            /\ connected' = FALSE /\ media' = TRUE
    /\ UNCHANGED <<wishVars, tick, bad_signal_cnt, threadVars, playing, signal, dropped, left>>

SignalChanges ==
    /\ Spend("fades")
    /\ signal' = ~signal
    /\ UNCHANGED <<wishVars, watchVars, threadVars, screenVars, playing, dropped>>

-----------------------------------------------------------------------------
GuiGoesOn == Start \/ MediaStopsTv \/ Closed
Thread == SelectBegin \/ SelectDone \/ Report \/ ThreadEnd
Environment == KeyUpDown \/ Digit \/ MostSelects \/ TvOff \/ TvOn \/ MediaStart \/ SignalChanges

Next ==
    \/ Environment \/ GuiGoesOn \/ Thread
    \/ DoChannelSwitch \/ DoChannelSwitchFromMOST \/ TimerFires \/ DoDEBUG

(* Timers fire, queued calls are delivered, processEvents returns and the  *)
(* thread is scheduled.                                                    *)
Fairness ==
    /\ WF_vars(GuiGoesOn) /\ WF_vars(Thread)
    /\ WF_vars(DoChannelSwitch) /\ WF_vars(DoChannelSwitchFromMOST)
    /\ WF_vars(TimerFires) /\ WF_vars(DoDEBUG)

Spec == Init /\ [][Next]_vars /\ Fairness

-----------------------------------------------------------------------------
TypeOK ==
    /\ current_ch_index \in Indices /\ saved \in Indices /\ ch_idx_tmp \in Indices
    /\ sw_timer \in Indices \cup {Off} /\ playing \in Channels \cup {Off}
    /\ shots \in Nat
    /\ {ch_sw_timeout, ticking, tick, need_change, no_signal, freq_was_locked,
        stop_tv_from_most, connected, media, signal, dropped} \subseteq BOOLEAN
    /\ bad_signal_cnt \in Nat
    /\ switched \in {"on", "off", "found"}
    /\ ch_sw \in [pc : {"idle", "begin", "tuning", "tuned", "ending"}, idx : Indices,
                  res : {"none", "ok", "fail", "empty"}]
    /\ frames \in Seq(Frames) /\ Len(frames) <= MaxNest + 1
    /\ left \in [{"wishes", "power", "fades", "faults", "events"} -> Nat]

\* Something is under way that ends in a selection of current_ch_index
WishPending ==
    \/ ch_sw_timeout \/ shots > 0 \/ isSelecting \/ need_change
    \/ \E n \in DOMAIN frames : frames[n] \in Starts

(* While a channel plays that is not the one chosen last, or not the one   *)
(* the settings will bring back after a restart, another selection is on   *)
(* its way.  The exceptions are the two places that throw a wish away:     *)
(* StartServiceSelect when the signal was bad (player_ctrl_thrads.cpp:83)  *)
(* and a number that is not on the list (play_ctrl.cpp:318).               *)
ScreenFollowsWish ==
    playing # Off /\ (playing # current_ch_index \/ playing # saved)
        => WishPending \/ dropped

(* Once the calls that were interrupted are over, the tick runs when the   *)
(* television was switched on, whatever came in between, and wherever      *)
(* stop_tv_from_most does not say that it is off: without the tick no lost *)
(* signal, frozen picture or late wish is ever handled and the hardware    *)
(* watchdog is not refreshed (DoDEBUG).  It does not run after a switch    *)
(* that found a channel playing with the tick off ("found"): a wish whose  *)
(* timer outlived the switch-off is served all the same, and the switch    *)
(* that follows returns at once (player_ctrl_most.cpp:215), so that the    *)
(* channel plays unwatched.  The flag then stays up, until the next        *)
(* switch-off and on repair both.                                          *)
WatchRuns == frames = << >> /\ (switched = "on" \/ ~stop_tv_from_most) => ticking

(* With a steady signal the television in the end shows the channel chosen *)
(* last, whatever fades, faults, nested events and switches off and on     *)
(* came before: the tick reselects after each (HandleTvSignal, DoDEBUG).   *)
LastChosenPlays ==
    <>[](signal /\ ~stop_tv_from_most /\ current_ch_index \in Channels)
        => <>[](playing = current_ch_index \/ dropped)
=============================================================================
