--------------------------- MODULE PlayCtrlProofs ---------------------------
(* The screen follows the channel chosen last, and the watch runs, for any   *)
(* number of channels, any timeouts, any depth of nested events and any      *)
(* bounds on what the user, the bus and the aerial do.                       *)
EXTENDS PlayCtrl, TLAPS, SequenceTheorems

\* A call of the kinds in S is interrupted on the stack s.
Interrupted(s, S) == \E n \in DOMAIN s : s[n] \in S

-----------------------------------------------------------------------------
(* The stack of interrupted calls *)

\* One more interrupted call on the stack.
LEMMA PushedFrame ==
  ASSUME NEW f \in Frames, NEW s \in Seq(Frames)
  PROVE  /\ <<f>> \o s \in Seq(Frames)
         /\ Len(<<f>> \o s) = Len(s) + 1
         /\ <<f>> \o s # << >>
         /\ \A S : Interrupted(<<f>> \o s, S) <=> f \in S \/ Interrupted(s, S)
<1> DEFINE t == <<f>> \o s
<1>1. <<f>> \in Seq(Frames) /\ Len(<<f>>) = 1 /\ <<f>>[1] = f
  OBVIOUS
<1>2. /\ t \in Seq(Frames) /\ Len(t) = Len(s) + 1
      /\ \A i \in 1..Len(s) + 1 : t[i] = IF i <= 1 THEN f ELSE s[i - 1]
  BY <1>1, ConcatProperties
<1>3. Len(s) \in Nat /\ DOMAIN s = 1..Len(s) /\ DOMAIN t = 1..Len(s) + 1
  BY <1>2, LenProperties
<1>4. ASSUME NEW S PROVE Interrupted(t, S) <=> f \in S \/ Interrupted(s, S)
  <2>1. t[1] = f /\ \A i \in 1..Len(s) : t[i + 1] = s[i]
    BY <1>2, <1>3
  <2>2. \A i \in DOMAIN t : i = 1 \/ (i - 1 \in DOMAIN s /\ t[i] = s[i - 1])
    BY <1>2, <1>3
  <2>3. 1 \in DOMAIN t /\ \A i \in DOMAIN s : i + 1 \in DOMAIN t
    BY <1>3
  <2> QED
    BY <1>3, <2>1, <2>2, <2>3 DEF Interrupted
<1>5. t # << >>
  BY <1>2, <1>3
<1> QED
  BY <1>2, <1>4, <1>5

\* One interrupted call less.
LEMMA PoppedFrame ==
  ASSUME NEW s \in Seq(Frames), s # << >>
  PROVE  /\ Head(s) \in Frames
         /\ Tail(s) \in Seq(Frames)
         /\ Len(Tail(s)) = Len(s) - 1
         /\ \A S : Interrupted(s, S) <=> Head(s) \in S \/ Interrupted(Tail(s), S)
<1>1. /\ Head(s) \in Frames /\ Tail(s) \in Seq(Frames) /\ Len(Tail(s)) = Len(s) - 1
      /\ \A i \in 1..Len(Tail(s)) : Tail(s)[i] = s[i + 1]
  BY HeadTailProperties
<1>2. /\ Len(s) \in Nat \ {0} /\ DOMAIN s = 1..Len(s)
      /\ DOMAIN Tail(s) = 1..Len(s) - 1
  BY <1>1, LenProperties, EmptySeq
<1>3. Head(s) = s[1]
  OBVIOUS
<1>4. ASSUME NEW S PROVE Interrupted(s, S) <=> Head(s) \in S \/ Interrupted(Tail(s), S)
  <2>1. \A i \in DOMAIN s : i = 1 \/ (i - 1 \in DOMAIN Tail(s) /\ s[i] = Tail(s)[i - 1])
    BY <1>1, <1>2
  <2>2. \A i \in DOMAIN Tail(s) : i + 1 \in DOMAIN s /\ Tail(s)[i] = s[i + 1]
    BY <1>1, <1>2
  <2> QED
    BY <1>2, <1>3, <2>1, <2>2 DEF Interrupted
<1> QED
  BY <1>1, <1>4

-----------------------------------------------------------------------------
(* The type invariant, in four parts *)

Flags ==
  /\ ch_sw_timeout \in BOOLEAN /\ ticking \in BOOLEAN /\ tick \in BOOLEAN
  /\ need_change \in BOOLEAN /\ no_signal \in BOOLEAN /\ freq_was_locked \in BOOLEAN
  /\ stop_tv_from_most \in BOOLEAN /\ connected \in BOOLEAN /\ media \in BOOLEAN
  /\ signal \in BOOLEAN /\ dropped \in BOOLEAN

Numbers ==
  /\ current_ch_index \in Indices /\ saved \in Indices /\ ch_idx_tmp \in Indices
  /\ sw_timer \in Indices \cup {Off} /\ playing \in Channels \cup {Off}
  /\ shots \in Nat
  /\ bad_signal_cnt \in Nat
  /\ switched \in {"on", "off", "found"}
  /\ ch_sw \in [pc : {"idle", "begin", "tuning", "tuned", "ending"}, idx : Indices,
                res : {"none", "ok", "fail", "empty"}]

Stack == frames \in Seq(Frames) /\ Len(frames) <= MaxNest + 1

Bounds == left \in [{"wishes", "power", "fades", "faults", "events"} -> Nat]

LEMMA TypeParts == TypeOK <=> Flags /\ Numbers /\ Stack /\ Bounds
BY DEF TypeOK, Flags, Numbers, Stack, Bounds

LEMMA InitTypeOK == Init => TypeOK
<1> SUFFICES ASSUME Init PROVE TypeOK
  OBVIOUS
<1>1. Flags
  BY Zenon DEF Init, Flags
<1>2. Numbers
  <2>1. saved \in Indices /\ NChannels \in Nat /\ 0 \in Indices /\ BadTimeout \in Nat
    BY PlayCtrlAssumption DEF Init, Indices
  <2> QED
    BY <2>1 DEF Init, Numbers, Indices, Channels, Off, Idle
<1>3. Stack
  BY PlayCtrlAssumption DEF Init, Stack
<1>4. Bounds
  BY PlayCtrlAssumption DEF Init, Bounds
<1> QED
  BY <1>1, <1>2, <1>3, <1>4, TypeParts

\* One event less of its kind, and one less of all.
LEMMA SpendKeepsBounds ==
  ASSUME Bounds, NEW what \in {"wishes", "power", "fades", "faults"}, Spend(what)
  PROVE  Bounds'
<1>1. left[what] \in Nat \ {0} /\ left["events"] \in Nat \ {0}
  <2>1. left[what] \in Nat /\ left["events"] \in Nat
    BY DEF Bounds
  <2>2. left[what] > 0 /\ left["events"] > 0
    BY DEF Spend
  <2> QED
    BY <2>1, <2>2
<1>2. /\ left' = [left EXCEPT ![what] = left[what] - 1, !["events"] = left["events"] - 1]
  BY DEF Spend
<1>3. left[what] - 1 \in Nat /\ left["events"] - 1 \in Nat
  BY <1>1
<1> QED
  BY <1>2, <1>3 DEF Bounds

LEMMA NextBounds == Bounds /\ [Next]_vars => Bounds'
<1> SUFFICES ASSUME Bounds, [Next]_vars
             PROVE  Bounds'
  OBVIOUS
<1>1. CASE KeyUpDown
  BY <1>1, SpendKeepsBounds DEF KeyUpDown, Bounds
<1>2. CASE Digit
  BY <1>2, SpendKeepsBounds DEF Digit, Bounds
<1>3. CASE MostSelects
  BY <1>3, SpendKeepsBounds DEF MostSelects, Bounds
<1>4. CASE TvOff
  BY <1>4, SpendKeepsBounds DEF TvOff, Bounds
<1>5. CASE TvOn
  BY <1>5, SpendKeepsBounds DEF TvOn, Bounds
<1>6. CASE MediaStart
  BY <1>6, SpendKeepsBounds DEF MediaStart, Bounds
<1>7. CASE SignalChanges
  BY <1>7, SpendKeepsBounds DEF SignalChanges, Bounds
<1>8. CASE Start
  BY <1>8 DEF Start, Bounds
<1>9. CASE MediaStopsTv
  BY <1>9 DEF MediaStopsTv, Bounds
<1>10. CASE Closed
  BY <1>10 DEF Closed, Bounds
<1>11. CASE SelectBegin
  BY <1>11 DEF SelectBegin, Bounds
<1>12. CASE SelectDone
  BY <1>12, SpendKeepsBounds DEF SelectDone, Bounds
<1>13. CASE Report
  BY <1>13 DEF Report, Bounds
<1>14. CASE ThreadEnd
  BY <1>14 DEF ThreadEnd, Bounds
<1>15. CASE DoChannelSwitch
  BY <1>15, SpendKeepsBounds DEF DoChannelSwitch, Bounds
<1>16. CASE DoChannelSwitchFromMOST
  BY <1>16 DEF DoChannelSwitchFromMOST, Bounds
<1>17. CASE TimerFires
  BY <1>17 DEF TimerFires, Bounds
<1>18. CASE DoDEBUG
  BY <1>18, SpendKeepsBounds
  DEF DoDEBUG, TickServesWish, TickRestarts, TickWatchesSignal, TickRetries, Bounds
<1>19. CASE UNCHANGED vars
  BY <1>19 DEF vars, Bounds
<1> QED
  BY <1>1, <1>2, <1>3, <1>4, <1>5, <1>6, <1>7, <1>8, <1>9, <1>10, <1>11, <1>12, <1>13, <1>14, <1>15,
     <1>16, <1>17, <1>18, <1>19 DEF Next, Environment, GuiGoesOn, Thread

\* A start waits in the stack or leaves its wish to the tick, and changes no other flag.
LEMMA StartKeepsFlags ==
  ASSUME Flags, StartServiceSelect
  PROVE  need_change' \in BOOLEAN /\ dropped' \in BOOLEAN
<1>1. CASE StartWaitsForEvents("start")
  BY <1>1 DEF StartWaitsForEvents, Flags
<1>2. CASE LeaveToTick
  <2>1. need_change' \in BOOLEAN
    BY <1>2 DEF LeaveToTick, Flags
  <2>2. dropped' \in BOOLEAN
    BY <1>2 DEF LeaveToTick, Flags
  <2> QED
    BY <2>1, <2>2
<1> QED
  BY <1>1, <1>2 DEF StartServiceSelect

LEMMA NextFlags == Flags /\ [Next]_vars => Flags'
<1> SUFFICES ASSUME Flags, [Next]_vars
             PROVE  Flags'
  OBVIOUS
<1> USE DEF Flags, wishVars, watchVars, threadVars, screenVars
<1>1. CASE KeyUpDown
  BY <1>1 DEF KeyUpDown
<1>2. CASE Digit
  BY <1>2 DEF Digit, GoodDigit, BadDigit
<1>3. CASE MostSelects
  BY <1>3 DEF MostSelects
<1>4. CASE TvOff
  BY <1>4 DEF TvOff, MOST_TV_STOP_PLAY
<1>5. CASE TvOn
  BY <1>5 DEF TvOn, StartWaitsForEvents, KeepsWish
<1>6. CASE MediaStart
  BY <1>6 DEF MediaStart
<1>7. CASE SignalChanges
  BY <1>7 DEF SignalChanges
<1>8. CASE Start
  BY <1>8 DEF Start
<1>9. CASE MediaStopsTv
  BY <1>9 DEF MediaStopsTv, MOST_TV_STOP_PLAY
<1>10. CASE Closed
  BY <1>10 DEF Closed
<1>11. CASE SelectBegin
  BY <1>11 DEF SelectBegin
<1>12. CASE SelectDone
  BY <1>12 DEF SelectDone
<1>13. CASE Report
  BY <1>13 DEF Report
<1>14. CASE ThreadEnd
  BY <1>14 DEF ThreadEnd
<1>15. CASE DoChannelSwitch
  <2>1. ch_sw_timeout' \in BOOLEAN
    BY <1>15 DEF DoChannelSwitch
  <2>2. need_change' \in BOOLEAN /\ dropped' \in BOOLEAN
    BY <1>15, StartKeepsFlags DEF DoChannelSwitch
  <2> QED
    BY <1>15, <2>1, <2>2 DEF DoChannelSwitch
<1>16. CASE DoChannelSwitchFromMOST
  BY <1>16 DEF DoChannelSwitchFromMOST, StartWaitsForEvents
<1>17. CASE TimerFires
  BY <1>17 DEF TimerFires
<1>18. CASE DoDEBUG
  <2>1. UNCHANGED <<ticking, freq_was_locked, stop_tv_from_most, connected, media, signal>>
        /\ tick' = FALSE
    BY <1>18 DEF DoDEBUG
  <2>2. ch_sw_timeout' = ch_sw_timeout
    BY <1>18 DEF DoDEBUG, TickServesWish, TickRestarts, TickWatchesSignal, TickRetries
  <2>3. no_signal' \in BOOLEAN
    BY <1>18 DEF DoDEBUG, TickWatchesSignal
  <2>4. need_change' \in BOOLEAN /\ dropped' \in BOOLEAN
    BY <1>18, StartKeepsFlags DEF DoDEBUG, TickServesWish, TickRestarts, TickWatchesSignal, TickRetries
  <2> QED
    BY <2>1, <2>2, <2>3, <2>4
<1>19. CASE UNCHANGED vars
  BY <1>19 DEF vars
<1> QED
  BY <1>1, <1>2, <1>3, <1>4, <1>5, <1>6, <1>7, <1>8, <1>9, <1>10, <1>11, <1>12, <1>13, <1>14, <1>15,
     <1>16, <1>17, <1>18, <1>19 DEF Next, Environment, GuiGoesOn, Thread

LEMMA NextNumbers == Numbers /\ [Next]_vars => Numbers'
<1> SUFFICES ASSUME Numbers, [Next]_vars
             PROVE  Numbers'
  OBVIOUS
<1> USE PlayCtrlAssumption DEF Numbers, wishVars, watchVars, threadVars, screenVars, Indices,
Channels, Off
<1>1. CASE KeyUpDown
  BY <1>1 DEF KeyUpDown
<1>2. CASE Digit
  BY <1>2 DEF Digit, GoodDigit, BadDigit, Typed
<1>3. CASE MostSelects
  BY <1>3 DEF MostSelects
<1>4. CASE TvOff
  BY <1>4 DEF TvOff, MOST_TV_STOP_PLAY
<1>5. CASE TvOn
  BY <1>5 DEF TvOn, StartWaitsForEvents
<1>6. CASE MediaStart
  BY <1>6 DEF MediaStart
<1>7. CASE SignalChanges
  BY <1>7 DEF SignalChanges
<1>8. CASE Start
  <2>1. [Idle EXCEPT !.pc = "begin"] = [pc |-> "begin", idx |-> 0, res |-> "none"]
    BY DEF Idle
  <2>2. 0 \in Indices
    OBVIOUS
  <2>3. ch_sw' \in [pc : {"idle", "begin", "tuning", "tuned", "ending"}, idx : Indices,
                   res : {"none", "ok", "fail", "empty"}]
    BY <1>8, <2>1, <2>2 DEF Start, StartThread
  <2>4. UNCHANGED <<wishVars, bad_signal_cnt, saved, switched, playing>>
    BY <1>8 DEF Start
  <2> QED
    BY <2>3, <2>4
<1>9. CASE MediaStopsTv
  BY <1>9 DEF MediaStopsTv, MOST_TV_STOP_PLAY
<1>10. CASE Closed
  BY <1>10 DEF Closed
<1>11. CASE SelectBegin
  BY <1>11 DEF SelectBegin
<1>12. CASE SelectDone
  BY <1>12 DEF SelectDone
<1>13. CASE Report
  BY <1>13 DEF Report
<1>14. CASE ThreadEnd
  BY <1>14 DEF ThreadEnd, Idle
<1>15. CASE DoChannelSwitch
  BY <1>15 DEF DoChannelSwitch, StartServiceSelect, StartWaitsForEvents, LeaveToTick
<1>16. CASE DoChannelSwitchFromMOST
  BY <1>16 DEF DoChannelSwitchFromMOST, StartWaitsForEvents
<1>17. CASE TimerFires
  BY <1>17 DEF TimerFires
<1>18. CASE DoDEBUG
  BY <1>18
  DEF DoDEBUG, SeenBad, TickServesWish, TickRestarts, TickWatchesSignal, TickRetries,
      StartServiceSelect, StartWaitsForEvents, LeaveToTick
<1>19. CASE UNCHANGED vars
  BY <1>19 DEF vars
<1> QED
  BY <1>1, <1>2, <1>3, <1>4, <1>5, <1>6, <1>7, <1>8, <1>9, <1>10, <1>11,
     <1>12, <1>13, <1>14, <1>15, <1>16, <1>17, <1>18, <1>19
  DEF Next, Environment, GuiGoesOn, Thread

\* An event may only interrupt while the stack is low enough.
LEMMA PushKeepsStack ==
  ASSUME Stack, Event, NEW f \in Frames, Push(f)
  PROVE  Stack'
BY PushedFrame, PlayCtrlAssumption, LenProperties DEF Stack, Event, Push

LEMMA PopKeepsStack ==
  ASSUME Stack, frames # << >>, frames' = Tail(frames)
  PROVE  Stack'
BY PoppedFrame, PlayCtrlAssumption, LenProperties DEF Stack

LEMMA NextStack == Stack /\ [Next]_vars => Stack'
<1> SUFFICES ASSUME Stack, [Next]_vars
             PROVE  Stack'
  OBVIOUS
<1> USE DEF screenVars
<1>a. {"start", "start_resume", "start_most", "close", "close_media", "media"} = Frames
  BY DEF Frames
<1>b. ASSUME UNCHANGED frames PROVE Stack'
  BY <1>b DEF Stack
<1>1. CASE KeyUpDown
  BY <1>1, <1>b DEF KeyUpDown
<1>2. CASE Digit
  BY <1>2, <1>b DEF Digit
<1>3. CASE MostSelects
  BY <1>3, <1>b DEF MostSelects
<1>4. CASE TvOff
  BY <1>4, <1>a, <1>b, PushKeepsStack DEF TvOff
<1>5. CASE TvOn
  BY <1>5, <1>a, <1>b, PushKeepsStack DEF TvOn, StartWaitsForEvents
<1>6. CASE MediaStart
  BY <1>6, <1>a, <1>b, PushKeepsStack DEF MediaStart
<1>7. CASE SignalChanges
  BY <1>7, <1>b DEF SignalChanges
<1>8. CASE Start
  BY <1>8, PopKeepsStack DEF Start
<1>9. CASE MediaStopsTv
  <2>1. /\ Tail(frames) \in Seq(Frames) /\ Len(Tail(frames)) <= MaxNest
        /\ Len(Tail(frames)) \in Nat
    BY <1>9, PoppedFrame, PlayCtrlAssumption, LenProperties DEF Stack, MediaStopsTv
  <2>2. frames' = <<"close_media">> \o Tail(frames) /\ "close_media" \in Frames
    BY <1>9, <1>a DEF MediaStopsTv
  <2> QED
    BY <2>1, <2>2, PushedFrame, PlayCtrlAssumption DEF Stack
<1>10. CASE Closed
  BY <1>10, PopKeepsStack DEF Closed
<1>11. CASE SelectBegin
  BY <1>11, <1>b DEF SelectBegin
<1>12. CASE SelectDone
  BY <1>12, <1>b DEF SelectDone
<1>13. CASE Report
  BY <1>13, <1>b DEF Report
<1>14. CASE ThreadEnd
  BY <1>14, <1>b DEF ThreadEnd
<1>15. CASE DoChannelSwitch
  BY <1>15, <1>a, <1>b, PushKeepsStack
  DEF DoChannelSwitch, StartServiceSelect, StartWaitsForEvents, LeaveToTick
<1>16. CASE DoChannelSwitchFromMOST
  BY <1>16, <1>a, <1>b, PushKeepsStack DEF DoChannelSwitchFromMOST, StartWaitsForEvents
<1>17. CASE TimerFires
  BY <1>17, <1>b DEF TimerFires
<1>18. CASE DoDEBUG
  BY <1>18, <1>a, <1>b, PushKeepsStack
  DEF DoDEBUG, TickServesWish, TickRestarts, TickWatchesSignal, TickRetries, StartServiceSelect,
      StartWaitsForEvents, LeaveToTick
<1>19. CASE UNCHANGED vars
  BY <1>19, <1>b DEF vars
<1> QED
  BY <1>1, <1>2, <1>3, <1>4, <1>5, <1>6, <1>7, <1>8, <1>9, <1>10, <1>11,
     <1>12, <1>13, <1>14, <1>15, <1>16, <1>17, <1>18, <1>19
  DEF Next, Environment, GuiGoesOn, Thread

\* Every variable stays in its domain: the index is one of the list or the number
\* that stands for none, the counters do not become negative, and the stack of
\* interrupted GUI calls is no deeper than the event loop nests.
THEOREM TypeCorrect == Spec => []TypeOK
<1>1. TypeOK /\ [Next]_vars => TypeOK'
  <2>1. Flags' /\ Numbers' /\ Stack' /\ Bounds' => TypeOK'
    BY DEF TypeOK, Flags, Numbers, Stack, Bounds
  <2> QED
    BY <2>1, TypeParts, NextFlags, NextNumbers, NextStack, NextBounds
<1> QED
  BY InitTypeOK, <1>1, PTL DEF Spec

-----------------------------------------------------------------------------
(* The watch *)

\* The tick is off with the flag down only from the moment the media player is asked
\* for to the moment the television is switched off for it, and off after a switch-on
\* only there or while MOST_TV_RESUME_PLAY waits below on the stack.
WatchInv ==
  /\ ~ticking /\ ~stop_tv_from_most => Interrupted(frames, {"media"})
  /\ ~ticking /\ switched = "on" => Interrupted(frames, {"media", "start_resume"})

LEMMA InitWatchInv == Init => WatchInv
BY DEF Init, WatchInv

LEMMA NextWatchInv == TypeOK /\ WatchInv /\ [Next]_vars => WatchInv'
<1> SUFFICES ASSUME Flags, Stack, WatchInv, [Next]_vars
             PROVE  WatchInv'
  BY TypeParts
<1> USE DEF WatchInv, wishVars, watchVars, threadVars, screenVars
<1>a. ASSUME UNCHANGED <<ticking, stop_tv_from_most, switched>>,
             \/ UNCHANGED frames
             \/ \E f \in Frames : Push(f)
      PROVE  WatchInv'
  <2>1. CASE UNCHANGED frames
    BY <1>a, <2>1 DEF Interrupted
  <2>2. ASSUME NEW f \in Frames, Push(f) PROVE WatchInv'
    <3>1. \A S : Interrupted(frames, S) => Interrupted(frames, S)'
      BY <2>2, PushedFrame DEF Push, Stack
    <3>2. Interrupted(frames, {"media"}) => Interrupted(frames, {"media"})'
      BY <3>1
    <3>3. Interrupted(frames, {"media", "start_resume"})
            => Interrupted(frames, {"media", "start_resume"})'
      BY <3>1
    <3> QED
      BY <1>a, <3>2, <3>3
  <2> QED
    BY <1>a, <2>1, <2>2
<1>b. Starts \subseteq Frames /\ {"start", "start_resume", "start_most", "media"} \subseteq Frames
  BY DEF Frames, Starts
<1>1. CASE KeyUpDown
  BY <1>1, <1>a DEF KeyUpDown
<1>2. CASE Digit
  BY <1>2, <1>a DEF Digit
<1>3. CASE MostSelects
  BY <1>3, <1>a DEF MostSelects
<1>4. CASE TvOff
  BY <1>4 DEF MOST_TV_STOP_PLAY, TvOff
<1>5. CASE TvOn
  <2>1. UNCHANGED <<ticking, stop_tv_from_most>>
    BY <1>5 DEF TvOn
  <2>2. CASE playing # Off
    <3>1. UNCHANGED frames /\ (switched' = "on" => ticking)
      BY <1>5, <2>2 DEF TvOn
    <3> QED
      BY <2>1, <3>1 DEF Interrupted
  <2>3. CASE playing = Off
    <3>1. Push("start_resume")
      BY <1>5, <2>3 DEF TvOn, StartWaitsForEvents
    <3>2. /\ Interrupted(frames, {"media", "start_resume"})'
          /\ Interrupted(frames, {"media"}) => Interrupted(frames, {"media"})'
      BY <3>1, <1>b, PushedFrame DEF Push, Stack
    <3> QED
      BY <2>1, <3>2
  <2> QED
    BY <2>2, <2>3
<1>6. CASE MediaStart
  BY <1>6, <1>b, PushedFrame DEF Stack, Push, MediaStart
<1>7. CASE SignalChanges
  BY <1>7, <1>a DEF SignalChanges
<1>8. CASE Start
  BY <1>8, PoppedFrame DEF Stack, Starts, Start
<1>9. CASE MediaStopsTv
  BY <1>9 DEF MOST_TV_STOP_PLAY, MediaStopsTv
<1>10. CASE Closed
  BY <1>10, PoppedFrame DEF Stack, Starts, Closed
<1>11. CASE SelectBegin
  BY <1>11, <1>a DEF SelectBegin
<1>12. CASE SelectDone
  BY <1>12, <1>a DEF SelectDone
<1>13. CASE Report
  BY <1>13, <1>a DEF Report
<1>14. CASE ThreadEnd
  BY <1>14, <1>a DEF ThreadEnd
<1>15. CASE DoChannelSwitch
  BY <1>15, <1>a, <1>b DEF DoChannelSwitch, StartServiceSelect, StartWaitsForEvents, LeaveToTick
<1>16. CASE DoChannelSwitchFromMOST
  BY <1>16, <1>a, <1>b DEF DoChannelSwitchFromMOST, StartWaitsForEvents
<1>17. CASE TimerFires
  BY <1>17, <1>a DEF TimerFires
<1>18. CASE DoDEBUG
  BY <1>18, <1>a, <1>b
  DEF DoDEBUG, TickServesWish, TickRestarts, TickWatchesSignal, TickRetries, StartServiceSelect,
      StartWaitsForEvents, LeaveToTick
<1>19. CASE UNCHANGED vars
  BY <1>19, <1>a DEF vars
<1> QED
  BY <1>1, <1>2, <1>3, <1>4, <1>5, <1>6, <1>7, <1>8, <1>9, <1>10, <1>11,
     <1>12, <1>13, <1>14, <1>15, <1>16, <1>17, <1>18, <1>19
  DEF Next, Environment, GuiGoesOn, Thread

\* The tick runs wherever no call is interrupted and the television was switched on by
\* a MOST_TV_RESUME_PLAY that went through, or stop_tv_from_most is down: whatever was
\* nested in the waits of StartServiceSelect, of the switch-off and of the start of the
\* media player.  Of a switch that found a channel playing with the tick off it says
\* only that the flag is up.
THEOREM WatchAlwaysRuns == Spec => []WatchRuns
<1>1. WatchInv => WatchRuns
  BY DEF WatchInv, WatchRuns, Interrupted
<1> QED
  BY InitWatchInv, NextWatchInv, TypeCorrect, <1>1, PTL DEF Spec

-----------------------------------------------------------------------------
(* The wish *)

\* A wish that a selection already running does not serve: the timer, a single shot
\* or the flag that the tick looks at.  An interrupted start is not one of them: it
\* does nothing when it finds the thread running.
WishKept == ch_sw_timeout \/ shots > 0 \/ need_change \/ dropped

\* The running selection: the channel it tunes is the one chosen last, or the later
\* wish is kept; nothing plays until it is tuned, then the channel it tuned.
SelectionInv ==
  /\ ch_sw.pc \in {"tuning", "tuned", "ending"} /\ current_ch_index # ch_sw.idx => WishKept
  /\ ch_sw.pc = "tuning" => playing = Off
  /\ ch_sw.pc \in {"tuned", "ending"} =>
       playing = IF ch_sw.res = "ok" THEN ch_sw.idx ELSE Off

\* With the thread idle, what plays is the channel chosen last and the one of the
\* settings, or a wish is on its way.
IdleInv ==
  ~isSelecting /\ playing # Off =>
    \/ playing = current_ch_index /\ playing = saved
    \/ WishKept \/ Interrupted(frames, Starts)

WishInv == SelectionInv /\ IdleInv

LEMMA InitWishInv == Init => WishInv
<1>1. [Idle EXCEPT !.pc = "begin"] = [pc |-> "begin", idx |-> 0, res |-> "none"]
  BY DEF Idle
<1> QED
  BY <1>1 DEF Init, WishInv, SelectionInv, IdleInv, isSelecting

LEMMA NextWishInv == TypeOK /\ WishInv /\ [Next]_vars => WishInv'
<1> SUFFICES ASSUME Flags, Numbers, Stack, WishInv, [Next]_vars
             PROVE  WishInv'
  BY TypeParts
<1> USE DEF WishInv, SelectionInv, IdleInv, WishKept, isSelecting, wishVars, watchVars, threadVars,
screenVars
<1>a. Starts \subseteq Frames /\ {"media", "close"} \subseteq Frames
      /\ {"start", "start_resume", "start_most"} = Starts
  BY DEF Frames, Starts
<1>b. ASSUME NEW f \in Frames, Push(f)
      PROVE  /\ Interrupted(frames, Starts) => Interrupted(frames, Starts)'
             /\ f \in Starts => Interrupted(frames, Starts)'
  BY <1>b, PushedFrame DEF Push, Stack
<1>1. CASE KeyUpDown
  BY <1>1 DEF KeyUpDown
<1>2. CASE Digit
  BY <1>2 DEF Digit, GoodDigit, BadDigit
<1>3. CASE MostSelects
  BY <1>3 DEF MostSelects
<1>4. CASE TvOff
  BY <1>4, <1>a, <1>b DEF TvOff, MOST_TV_STOP_PLAY
<1>5. CASE TvOn
  BY <1>5, <1>a, <1>b DEF TvOn, StartWaitsForEvents, Numbers
<1>6. CASE MediaStart
  BY <1>6, <1>a, <1>b DEF MediaStart
<1>7. CASE SignalChanges
  BY <1>7 DEF SignalChanges
<1>8. CASE Start
  BY <1>8 DEF StartThread, Idle, Start
<1>9. CASE MediaStopsTv
  BY <1>9 DEF MOST_TV_STOP_PLAY, MediaStopsTv
<1>10. CASE Closed
  BY <1>10, PoppedFrame DEF Stack, Starts, Closed
<1>11. CASE SelectBegin
  BY <1>11 DEF Numbers, Idle, SelectBegin
<1>12. CASE SelectDone
  BY <1>12 DEF Numbers, Idle, SelectDone
<1>13. CASE Report
  BY <1>13 DEF Numbers, Idle, Report
<1>14. CASE ThreadEnd
  BY <1>14 DEF Numbers, Idle, ThreadEnd
<1>15. CASE DoChannelSwitch
  BY <1>15, <1>a, <1>b
  DEF DoChannelSwitch, StartServiceSelect, StartWaitsForEvents, LeaveToTick, KeepsWish, Numbers, Flags
<1>16. CASE DoChannelSwitchFromMOST
  BY <1>16, <1>a, <1>b DEF DoChannelSwitchFromMOST, StartWaitsForEvents
<1>17. CASE TimerFires
  BY <1>17 DEF TimerFires
<1>18. CASE DoDEBUG
  BY <1>18, <1>a, <1>b
  DEF DoDEBUG, TickServesWish, TickRestarts, TickWatchesSignal, TickRetries, StartServiceSelect,
      StartWaitsForEvents, LeaveToTick, Numbers
<1>19. CASE UNCHANGED vars
  BY <1>19 DEF vars
<1> QED
  BY <1>1, <1>2, <1>3, <1>4, <1>5, <1>6, <1>7, <1>8, <1>9, <1>10, <1>11,
     <1>12, <1>13, <1>14, <1>15, <1>16, <1>17, <1>18, <1>19
  DEF Next, Environment, GuiGoesOn, Thread

\* While a channel plays that is not the one chosen last, or not the one of the
\* settings, another selection is on its way, or one of the two places that throw a
\* wish away has done so (player_ctrl_thrads.cpp:83, play_ctrl.cpp:318).
THEOREM ScreenAlwaysFollows == Spec => []ScreenFollowsWish
<1>1. WishInv => ScreenFollowsWish
  BY DEF WishInv, IdleInv, WishKept, ScreenFollowsWish, WishPending, Interrupted
<1> QED
  BY InitWishInv, NextWishInv, TypeCorrect, <1>1, PTL DEF Spec
=============================================================================
