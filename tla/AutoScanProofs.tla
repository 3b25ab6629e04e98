--------------------------- MODULE AutoScanProofs ---------------------------
(* The automatic scan, for any number of frequencies and any depth of        *)
(* handlers inside handlers.  Its types hold whatever is pressed and what-   *)
(* ever fails.  The station list survives it, whole, if one window starts    *)
(* one scan and every save succeeds: with a second scan in the same window   *)
(* it does not, since total_channels_found still counts what the first one   *)
(* found, nor with a save that fails, since its stations count as found.     *)
EXTENDS AutoScan, SequenceTheorems, TLAPS

\* The files hold lists or do not exist, and the thread scans real frequencies.
FilesAreLists ==
  /\ dat \in {NoFile} \cup Lists /\ old \in {NoFile} \cup Lists
  /\ freq \in 0..NumFreqs
  /\ thread \in {"scan", "save"} => freq \in Freqs

\* What the list on the disk rests on: stations are counted only once they are
\* saved, and a thread that is about to put the list aside has found nothing.
ListSaved ==
  /\ total_channels_found => dat # NoFile
  /\ thread = "count" => dat # NoFile
  /\ thread = "mv" => ~total_channels_found
  /\ scans \in Nat
  /\ thread # "none" => scans >= 1
  /\ total_channels_found => scans >= 1

ListInv == SomeListOnDisk /\ FilesAreLists /\ ListSaved

\* mv leaves a list behind if there was one to move or one in its place.
LEMMA MoveKeeps ==
  ASSUME NEW from, NEW to
  PROVE  /\ from # NoFile \/ to # NoFile => Move(from, to) # NoFile
         /\ from = NoFile => Move(from, to) = to
         /\ Move(from, to) \in {from, to}
BY DEF Move

LEMMA InitListInv == Init => ListInv
BY NumFreqsAssumption DEF Init, ListInv, SomeListOnDisk, FilesAreLists, ListSaved

LEMMA NextListInv ==
  ASSUME MaxScans = 1, ~SavesFail
  PROVE  ListInv /\ [Next]_vars => ListInv'
<1> SUFFICES ASSUME ListInv, [Next]_vars
             PROVE  ListInv'
  OBVIOUS
<1> USE NumFreqsAssumption DEF ListInv, SomeListOnDisk, FilesAreLists, ListSaved
<1>1. CASE OpenWindow
  BY <1>1 DEF OpenWindow, thrVars, fileVars, histVars
<1>2. CASE KeyOk
  BY <1>2 DEF KeyOk, winVars, thrVars, fileVars, histVars
<1>3. CASE OkStart
  <2>1. CASE thread # "none" /\ UNCHANGED <<scans, thrVars>>
    BY <1>3, <2>1 DEF OkStart, thrVars, fileVars, histVars
  <2>2. CASE thread = "none" /\ scans < MaxScans
             /\ thread' = "mv" /\ freq' = 0 /\ scans' = scans + 1
    <3>1. scans = 0
      BY <2>2
    <3>2. ~total_channels_found
      BY <3>1
    <3> QED
      BY <1>3, <2>2, <3>1, <3>2 DEF OkStart, fileVars, histVars
  <2> QED
    BY <1>3, <2>1, <2>2 DEF OkStart
<1>4. CASE OkFlag
  BY <1>4 DEF OkFlag, thrVars, fileVars, histVars
<1>5. ASSUME NEW key \in {"exit", "menu"}, KeyCancel(key)
      PROVE  ListInv'
  BY <1>5 DEF KeyCancel, thrVars, fileVars, histVars
<1>6. ASSUME NEW key \in {"exit", "menu"}, Restore(key)
      PROVE  ListInv'
  BY <1>6, MoveKeeps DEF Restore, Deleted, thrVars, histVars
<1>7. CASE KeyClose
  BY <1>7 DEF KeyClose, Deleted, thrVars, fileVars, histVars
<1>8. CASE AfterScan
  BY <1>8, MoveKeeps DEF AfterScan, winVars, thrVars, histVars
<1>9. CASE TickSelects
  BY <1>9 DEF TickSelects, winVars, thrVars, fileVars, histVars
<1>10. CASE PutAside
  BY <1>10, MoveKeeps DEF PutAside, winVars
<1>11. CASE NextFreq
  BY <1>11 DEF NextFreq, Freqs, winVars, fileVars, histVars
<1>12. CASE ScanDone
  BY <1>12 DEF ScanDone, Freqs, winVars, fileVars, histVars
<1>13. CASE Save
  <2>1. dat' \in Lists
    BY <1>13 DEF Save, Lists
  <2>2. dat' # NoFile
    BY <2>1, NoFileAssumption DEF Lists, Freqs
  <2> QED
    BY <1>13, <2>1, <2>2 DEF Save, winVars, histVars
<1>14. CASE Count
  BY <1>14 DEF Count, fileVars, histVars
<1>15. CASE LoopEnd
  BY <1>15 DEF LoopEnd, winVars, fileVars
<1>16. CASE FlagDown
  BY <1>16 DEF FlagDown, fileVars, histVars
<1>17. CASE Emit
  BY <1>17 DEF Emit, winVars, fileVars, histVars
<1>18. CASE ThreadEnd
  BY <1>18 DEF ThreadEnd, winVars, fileVars, histVars
<1>19. CASE Dies
  BY <1>19 DEF Dies
<1>20. CASE TickStops
  BY <1>20 DEF TickStops, winVars, thrVars, fileVars, histVars
<1>21. CASE UNCHANGED vars
  BY <1>21 DEF vars, winVars, thrVars, fileVars, histVars
<1> QED
  BY <1>1, <1>2, <1>3, <1>4, <1>5, <1>6, <1>7, <1>8, <1>9, <1>10, <1>11,
     <1>12, <1>13, <1>14, <1>15, <1>16, <1>17, <1>18, <1>19, <1>20, <1>21
  DEF Next, DeletedInUse, PowerCut

\* Whatever the user presses and whenever the process dies, a user who had a
\* list finds one on the disk, under one of its two names.
THEOREM ListSurvives ==
  ASSUME MaxScans = 1, ~SavesFail
  PROVE  Spec => []SomeListOnDisk
<1>1. Init => ListInv
  BY InitListInv
<1>2. ListInv /\ [Next]_vars => ListInv'
  BY NextListInv
<1>3. ListInv => SomeListOnDisk
  BY DEF ListInv
<1> QED
  BY <1>1, <1>2, <1>3, PTL DEF Spec

-----------------------------------------------------------------------------
(* The types *)

Keys == {"ok", "ok_flag", "exit", "menu"}

\* A handler that waits has a place below the top of the stack, or at it.
LEMMA PushedFrame ==
  ASSUME frames \in Seq(Keys), NEW key \in Keys, frames' = Append(frames, key)
  PROVE  /\ frames' \in Seq(Keys) /\ Len(frames') = Len(frames) + 1
         /\ DOMAIN frames' = 1..(Len(frames) + 1) /\ DOMAIN frames = 1..Len(frames)
         /\ \A i \in DOMAIN frames : frames'[i] = frames[i]
         /\ frames'[Len(frames) + 1] = key
  BY AppendProperties, LenProperties

\* One interrupted handler less.
LEMMA PoppedFrame ==
  ASSUME frames \in Seq(Keys), frames # << >>
  PROVE  /\ Popped \in Seq(Keys) /\ Len(Popped) = Len(frames) - 1 /\ Len(frames) \in Nat \ {0}
         /\ DOMAIN Popped = 1..(Len(frames) - 1) /\ DOMAIN frames = 1..Len(frames)
         /\ \A i \in DOMAIN Popped : Popped[i] = frames[i]
<1>1. Len(frames) \in Nat \ {0} /\ DOMAIN frames = 1..Len(frames)
  BY EmptySeq, LenProperties
<1>2. 1 \in 1..(Len(frames) + 1) /\ Len(frames) - 1 \in 0..Len(frames)
  BY <1>1
<1> DEFINE n == Len(frames) - 1
<1>3. /\ Popped \in Seq(Keys) /\ Len(Popped) = (IF 1 <= n THEN (n - 1) + 1 ELSE 0)
      /\ \A i \in 1..((n - 1) + 1) : Popped[i] = frames[(1 + i) - 1]
  BY <1>1, <1>2, SubSeqProperties DEF Popped
<1>4. Len(Popped) = n
  <2>1. n \in Nat /\ (n - 1) + 1 = n /\ (~(1 <= n) => n = 0)
    BY <1>1
  <2> HIDE DEF n
  <2> QED
    BY <1>3, <2>1
<1>5. \A i \in 1..n : Popped[i] = frames[i]
  <2>1. \A i \in 1..n : (1 + i) - 1 = i
    BY <1>1
  <2>2. (n - 1) + 1 = n
    BY <1>1
  <2> QED
    BY <1>3, <2>1, <2>2
<1>6. DOMAIN Popped = 1..(Len(frames) - 1)
  BY <1>3, <1>4, LenProperties
<1> QED
  BY <1>1, <1>3, <1>4, <1>5, <1>6

\* The innermost handler goes on to another stage.
LEMMA ReplacedFrame ==
  ASSUME frames \in Seq(Keys), frames # << >>, NEW key \in Keys, frames' = Append(Popped, key)
  PROVE  /\ frames' \in Seq(Keys) /\ Len(frames') = Len(frames)
         /\ DOMAIN frames' = DOMAIN frames /\ DOMAIN frames = 1..Len(frames)
         /\ \A i \in DOMAIN frames : frames'[i] = IF i = Len(frames) THEN key ELSE frames[i]
<1>1. /\ Popped \in Seq(Keys) /\ Len(Popped) = Len(frames) - 1 /\ Len(frames) \in Nat \ {0}
      /\ DOMAIN Popped = 1..(Len(frames) - 1) /\ DOMAIN frames = 1..Len(frames)
      /\ \A i \in DOMAIN Popped : Popped[i] = frames[i]
  BY PoppedFrame
<1>2. /\ frames' \in Seq(Keys) /\ Len(frames') = Len(Popped) + 1
      /\ \A i \in 1..Len(Popped) : frames'[i] = Popped[i]
      /\ frames'[Len(Popped) + 1] = key
  BY <1>1, AppendProperties
<1>3. DOMAIN frames' = 1..Len(frames) /\ Len(frames') = Len(frames)
  BY <1>1, <1>2, LenProperties
<1>4. frames'[Len(frames)] = key
  BY <1>1, <1>2
<1>5. ASSUME NEW i \in 1..Len(frames), i # Len(frames) PROVE frames'[i] = frames[i]
  <2>1. i \in DOMAIN Popped /\ i \in 1..Len(Popped)
    BY <1>1, <1>5
  <2> QED
    BY <1>1, <1>2, <2>1
<1> QED
  BY <1>1, <1>2, <1>3, <1>4, <1>5

WindowType ==
  /\ window \in {"none", "open", "freed"}
  /\ scanning \in BOOLEAN /\ quit \in BOOLEAN /\ total_channels_found \in BOOLEAN
  /\ msg \in BOOLEAN /\ playing \in BOOLEAN /\ listed \in BOOLEAN
  /\ scans \in 0..MaxScans
FramesType == frames \in Seq(Keys) /\ Len(frames) <= MaxDepth
ScanType ==
  /\ thread \in {"none", "mv", "test", "scan", "save", "count", "flag", "emit", "end"}
  /\ freq \in 0..NumFreqs
  /\ thread \in {"scan", "save"} => freq \in Freqs
ListType ==
  /\ dat \in {NoFile} \cup Lists /\ old \in {NoFile} \cup Lists
  /\ before \in {NoFile} \cup Lists /\ whole \subseteq Lists /\ orderly \in BOOLEAN

TypeInv == WindowType /\ FramesType /\ ScanType /\ ListType

LEMMA NextTypeInv == TypeInv /\ [Next]_vars => TypeInv'
<1> SUFFICES ASSUME TypeInv, [Next]_vars
             PROVE  TypeInv'
  OBVIOUS
<1> USE NumFreqsAssumption, BoundsAssumption DEF winVars, thrVars, fileVars, histVars
<1>a. Len(frames) \in Nat
  BY LenProperties DEF TypeInv, FramesType
<1>1. WindowType'
  <2>1. window' \in {"none", "open", "freed"} /\ scans' \in 0..MaxScans
    BY
    DEF TypeInv, WindowType, Next, OpenWindow, KeyOk, OkStart, OkFlag, KeyCancel, Restore, KeyClose,
        AfterScan, TickSelects, TickStops, PutAside, NextFreq, ScanDone, Save, Count, LoopEnd,
        FlagDown, Emit, ThreadEnd, DeletedInUse, PowerCut, Dies, Deleted, vars
  <2>2. /\ scanning' = scanning \/ scanning' = TRUE \/ scanning' = FALSE
        /\ quit' = quit \/ quit' = TRUE \/ quit' = FALSE
        /\ \/ total_channels_found' = total_channels_found
           \/ total_channels_found' = TRUE \/ total_channels_found' = FALSE
    BY DEF Next, OpenWindow, KeyOk, OkStart, OkFlag, KeyCancel, Restore, KeyClose, AfterScan,
           TickSelects, TickStops, PutAside, NextFreq, ScanDone, Save, Count, LoopEnd, FlagDown,
           Emit, ThreadEnd, DeletedInUse, PowerCut, Dies, Deleted, vars
  <2>3. /\ msg' = msg \/ msg' = FALSE \/ msg' = (msg \/ ~quit)
        /\ listed' = listed \/ listed' = HasService(dat') \/ listed' = HasService(dat)
        /\ playing' = playing \/ playing' = TRUE \/ playing' = FALSE \/ playing' = listed'
    BY DEF tvVars, Reload, Next, OpenWindow, KeyOk, OkStart, OkFlag, KeyCancel, Restore, KeyClose, AfterScan,
           TickSelects, TickStops, PutAside, NextFreq, ScanDone, Save, Count, LoopEnd, FlagDown,
           Emit, ThreadEnd, DeletedInUse, PowerCut, Dies, Deleted, vars
  <2>4. /\ scanning' \in BOOLEAN /\ quit' \in BOOLEAN /\ total_channels_found' \in BOOLEAN
        /\ msg' \in BOOLEAN /\ playing' \in BOOLEAN /\ listed' \in BOOLEAN
    BY <2>2, <2>3, Zenon DEF TypeInv, WindowType, HasService
  <2> QED
    BY <2>1, <2>4 DEF WindowType
<1>2. FramesType'
  <2>1. CASE KeyOk \/ \E key \in {"exit", "menu"} : KeyCancel(key)
    <3>1. \E key \in Keys : frames' = Append(frames, key)
      BY <2>1 DEF KeyOk, KeyCancel, Keys
    <3>2. Len(frames) < MaxDepth
      BY <2>1 DEF KeyOk, KeyCancel
    <3> QED
      BY <1>a, <3>1, <3>2, PushedFrame DEF TypeInv, FramesType
  <2>2. CASE OkStart
    BY <2>2, ReplacedFrame DEF OkStart, Top, TypeInv, FramesType, Keys
  <2>3. CASE OkFlag \/ \E key \in {"exit", "menu"} : Restore(key)
    <3>1. frames' = Popped /\ frames # << >>
      BY <2>3 DEF OkFlag, Restore, Deleted, Top
    <3> QED
      BY <1>a, <3>1, PoppedFrame DEF TypeInv, FramesType
  <2>4. CASE Dies
    <3>1. frames' = << >> /\ << >> \in Seq(Keys) /\ Len(<< >>) = 0
      BY <2>4, EmptySeq DEF Dies
    <3> QED
      BY <3>1 DEF FramesType
  <2>5. CASE OpenWindow \/ KeyClose \/ AfterScan \/ TickSelects \/ TickStops \/ PutAside \/ NextFreq \/ ScanDone
             \/ Save \/ Count \/ LoopEnd \/ FlagDown \/ Emit \/ ThreadEnd \/ UNCHANGED vars
    <3>1. frames' = frames
      BY <2>5
      DEF OpenWindow, KeyClose, AfterScan, TickSelects, TickStops, PutAside, NextFreq, ScanDone,
          Save, Count, LoopEnd, FlagDown, Emit, ThreadEnd, Deleted, vars
    <3> QED
      BY <3>1 DEF TypeInv, FramesType
  <2> QED
    BY <2>1, <2>2, <2>3, <2>4, <2>5 DEF Next, DeletedInUse, PowerCut
<1>3. ScanType'
  BY
  DEF TypeInv, ScanType, Freqs, Next, OpenWindow, KeyOk, OkStart, OkFlag, KeyCancel, Restore,
      KeyClose, AfterScan, TickSelects, TickStops, PutAside, NextFreq, ScanDone, Save, Count,
      LoopEnd, FlagDown, Emit, ThreadEnd, DeletedInUse, PowerCut, Dies, Deleted, vars
<1>4. ListType'
  <2>1. CASE Save
    BY <2>1 DEF Save, TypeInv, ScanType, ListType, Lists
  <2>2. CASE ~Save
    <3>1. /\ dat' \in {dat, old, NoFile} /\ old' \in {old, dat, NoFile}
          /\ before' \in {before, dat, NoFile}
      BY <2>2, MoveKeeps DEF Next, OpenWindow, KeyOk, OkStart, OkFlag, KeyCancel,
        Restore, KeyClose, AfterScan, TickSelects, TickStops, PutAside, NextFreq, ScanDone, Save,
        Count, LoopEnd, FlagDown, Emit, ThreadEnd, DeletedInUse, PowerCut, Dies, Deleted, vars
    <3>2. whole' = whole \/ (dat # NoFile /\ whole' = whole \cup {dat})
      BY <2>2 DEF Next, OpenWindow, KeyOk, OkStart, OkFlag, KeyCancel,
        Restore, KeyClose, AfterScan, TickSelects, TickStops, PutAside, NextFreq, ScanDone, Save,
        Count, LoopEnd, FlagDown, Emit, ThreadEnd, DeletedInUse, PowerCut, Dies, Deleted, vars
    <3>3. orderly' = orderly \/ orderly' = FALSE
      BY <2>2 DEF Next, OpenWindow, KeyOk, OkStart, OkFlag, KeyCancel,
        Restore, KeyClose, AfterScan, TickSelects, TickStops, PutAside, NextFreq, ScanDone, Save,
        Count, LoopEnd, FlagDown, Emit, ThreadEnd, DeletedInUse, PowerCut, Dies, Deleted, vars
    <3> QED
      BY <3>1, <3>2, <3>3 DEF TypeInv, ListType
  <2> QED
    BY <2>1, <2>2
<1> QED
  BY <1>1, <1>2, <1>3, <1>4 DEF TypeInv

LEMMA InitTypeInv == Init => TypeInv
<1> SUFFICES ASSUME Init PROVE TypeInv
  OBVIOUS
<1>1. WindowType /\ ScanType
  <2>1. 0 \in 0..MaxScans /\ 0 \in 0..NumFreqs
    BY NumFreqsAssumption, BoundsAssumption
  <2>2. (dat # NoFile) \in BOOLEAN
    OBVIOUS
  <2> QED
    BY <2>1 DEF Init, WindowType, ScanType
<1>3. ListType
  BY DEF Init, ListType
<1>2. FramesType
  BY BoundsAssumption, EmptySeq DEF Init, FramesType
<1> QED
  BY <1>1, <1>2, <1>3 DEF TypeInv

\* No handler is called deeper than the bound, no frequency tuned beyond the last, and the
\* files hold lists of frequencies, however many scans are started and whatever saves fail.
THEOREM TypeCorrect == Spec => []TypeOK
<1>1. TypeInv => TypeOK
  BY DEF TypeInv, WindowType, FramesType, ScanType, ListType, TypeOK, Keys
<1> QED
  BY <1>1, InitTypeInv, NextTypeInv, PTL DEF Spec

-----------------------------------------------------------------------------
(* The list a scan leaves *)

Running == {"mv", "test", "scan", "save", "count", "flag"}
PutAsideNow == {"test", "scan", "save", "count", "flag"}

\* OK waits only before its thread starts, a flag goes up only over a running thread, and
\* who asked for an end still waits for it.
FrameInv ==
  /\ \A i \in DOMAIN frames :
       frames[i] = "ok_flag" => i = Len(frames) /\ thread \in Running /\ window = "open"
  /\ thread \in {"emit", "end"} => \A i \in DOMAIN frames : frames[i] \notin {"ok", "ok_flag"}
  /\ quit => \E i \in DOMAIN frames : frames[i] \in {"exit", "menu"}

\* A scan is cancelled before its message, and a message is of a scan that was not.
StageInv ==
  /\ scanning => thread \in Running
  /\ quit => window = "open" /\ scans >= 1
  /\ msg => ~quit /\ ~scanning /\ thread \in {"end", "none"} /\ scans >= 1

\* The list the user has: the one in place, or else the one put aside.
Listed == IF dat = NoFile THEN old ELSE dat

\* While a scan's list is not whole the user's first one is put aside, and a window is not
\* left before it is back.
WholeInv ==
  orderly /\ window # "freed" =>
    /\ old \in {NoFile} \cup whole
    /\ thread = "mv" => Listed \in whole
    /\ thread \notin {"test", "scan", "save", "count"} /\ ~quit => Listed \in whole
    /\ thread \in PutAsideNow \/ (quit /\ thread # "mv") => old \in whole

LEMMA NextFrameInv ==
  ASSUME MaxScans = 1, TypeInv, ListInv, FrameInv, StageInv, [Next]_vars
  PROVE  FrameInv'
<1> USE DEF winVars, thrVars, fileVars, histVars
<1>a. frames \in Seq(Keys) /\ Len(frames) \in Nat /\ DOMAIN frames = 1..Len(frames)
  BY LenProperties DEF TypeInv, FramesType
<1>1. CASE KeyOk
  <2>1. thread = "none" /\ frames' = Append(frames, "ok") /\ UNCHANGED <<thread, quit, window>>
    BY <1>1 DEF KeyOk, ListInv, ListSaved
  <2>2. \A i \in DOMAIN frames : frames[i] # "ok_flag"
    BY <2>1 DEF FrameInv, Running
  <2>3. /\ DOMAIN frames' = 1..(Len(frames) + 1) /\ DOMAIN frames \subseteq DOMAIN frames'
        /\ \A i \in DOMAIN frames : frames'[i] = frames[i]
        /\ frames'[Len(frames) + 1] = "ok"
    BY <1>a, <2>1, PushedFrame DEF Keys
  <2>4. \A i \in DOMAIN frames' : i \in DOMAIN frames \/ i = Len(frames) + 1
    BY <1>a, <2>3
  <2> QED
    BY <2>1, <2>2, <2>3, <2>4 DEF FrameInv
<1>2. CASE OkStart
  <2>1. /\ frames # << >> /\ frames[Len(frames)] = "ok" /\ window = "open"
        /\ frames' = Append(Popped, "ok_flag") /\ UNCHANGED <<quit, window>>
    BY <1>2 DEF OkStart, Top
  <2>2. /\ Len(frames') = Len(frames) /\ DOMAIN frames' = DOMAIN frames
        /\ \A i \in DOMAIN frames : frames'[i] = IF i = Len(frames) THEN "ok_flag" ELSE frames[i]
    BY <1>a, <2>1, ReplacedFrame DEF Keys
  <2>3. Len(frames) \in DOMAIN frames
    BY <1>a, <2>1, PoppedFrame
  <2>4. thread \notin {"emit", "end"}
    BY <2>1, <2>3 DEF FrameInv
  <2>5. thread' \in Running
    BY <1>2, <2>4 DEF OkStart, TypeInv, ScanType, Running
  <2>6. \A i \in DOMAIN frames' : frames'[i] = "ok_flag" => i = Len(frames')
    BY <2>1, <2>2, <2>3 DEF FrameInv
  <2>7. quit => \E i \in DOMAIN frames' : frames'[i] \in {"exit", "menu"}
    BY <2>1, <2>2, <2>3 DEF FrameInv
  <2> QED
    BY <2>1, <2>5, <2>6, <2>7 DEF FrameInv, Running
<1>3. ASSUME OkFlag \/ \E key \in {"exit", "menu"} : Restore(key) PROVE FrameInv'
  <2>1. /\ frames # << >> /\ frames' = Popped /\ UNCHANGED thread
        /\ \/ OkFlag /\ frames[Len(frames)] = "ok_flag" /\ UNCHANGED <<quit, window>>
           \/ frames[Len(frames)] # "ok_flag" /\ ~quit'
    BY <1>3 DEF OkFlag, Restore, Deleted, Top
  <2>2. /\ DOMAIN frames' = 1..(Len(frames) - 1) /\ \A i \in DOMAIN frames' : frames'[i] = frames[i]
        /\ Len(frames) \in Nat \ {0}
    BY <1>a, <2>1, PoppedFrame
  <2>3. /\ \A i \in DOMAIN frames' : i \in DOMAIN frames /\ i # Len(frames)
        /\ \A i \in DOMAIN frames : i # Len(frames) => i \in DOMAIN frames'
    BY <1>a, <2>2
  <2>4. \A i \in DOMAIN frames' : frames'[i] # "ok_flag"
    BY <2>2, <2>3 DEF FrameInv
  <2>5. thread' \in {"emit", "end"} => \A i \in DOMAIN frames' : frames'[i] \notin {"ok", "ok_flag"}
    BY <2>1, <2>2, <2>3 DEF FrameInv
  <2>6. quit' => \E i \in DOMAIN frames' : frames'[i] \in {"exit", "menu"}
    BY <2>1, <2>2, <2>3 DEF FrameInv
  <2> QED
    BY <2>4, <2>5, <2>6 DEF FrameInv
<1>4. ASSUME NEW key \in {"exit", "menu"}, KeyCancel(key) PROVE FrameInv'
  <2>1. /\ thread \in Running /\ frames' = Append(frames, key) /\ UNCHANGED <<thread, window>>
        /\ (frames = << >> \/ frames[Len(frames)] # "ok_flag")
    BY <1>4 DEF KeyCancel, StageInv, Handles, InLoop
  <2>2. \A i \in DOMAIN frames : frames[i] # "ok_flag"
    BY <1>a, <2>1, EmptySeq DEF FrameInv
  <2>3. /\ DOMAIN frames' = 1..(Len(frames) + 1)
        /\ \A i \in DOMAIN frames : frames'[i] = frames[i]
        /\ frames'[Len(frames) + 1] = key
    BY <1>a, <2>1, PushedFrame DEF Keys
  <2>4. /\ \A i \in DOMAIN frames' : i \in DOMAIN frames \/ i = Len(frames) + 1
        /\ Len(frames) + 1 \in DOMAIN frames'
    BY <1>a, <2>3
  <2> QED
    BY <2>1, <2>2, <2>3, <2>4 DEF FrameInv, Running
<1>5. CASE KeyClose
  <2>1. /\ thread = "none" /\ UNCHANGED <<frames, thread>> /\ ~quit'
        /\ \A i \in DOMAIN frames : frames[i] # "ok_flag"
    BY <1>5 DEF KeyClose, Deleted, FrameInv, Running
  <2> QED
    BY <2>1 DEF FrameInv
<1>6. CASE FlagDown
  BY <1>6 DEF FlagDown, FrameInv
<1>7. CASE Dies
  <2>1. DOMAIN frames' = {} /\ ~quit'
    BY <1>7 DEF Dies
  <2> QED
    BY <2>1 DEF FrameInv
<1>8. CASE OpenWindow
  BY <1>8 DEF OpenWindow, FrameInv
<1>9. CASE AfterScan \/ TickSelects \/ TickStops \/ UNCHANGED vars
  BY <1>9 DEF AfterScan, TickSelects, TickStops, vars, FrameInv
<1>10. CASE PutAside \/ NextFreq \/ ScanDone \/ Save \/ Count \/ LoopEnd
  BY <1>10 DEF PutAside, NextFreq, ScanDone, Save, Count, LoopEnd, FrameInv, Running
<1>11. CASE Emit \/ ThreadEnd
  BY <1>11 DEF Emit, ThreadEnd, FrameInv, Running
<1> QED
  BY <1>1, <1>2, <1>3, <1>4, <1>5, <1>6, <1>7, <1>8, <1>9, <1>10, <1>11 DEF Next, DeletedInUse, PowerCut

LEMMA NextStageInv ==
  ASSUME MaxScans = 1, TypeInv, ListInv, FrameInv, StageInv, [Next]_vars
  PROVE  StageInv'
<1> USE DEF winVars, thrVars, fileVars, histVars, StageInv
<1>1. CASE OkStart
  <2>1. scans \in Nat /\ UNCHANGED <<window, scanning, quit, msg>>
    BY <1>1, BoundsAssumption DEF OkStart, TypeInv, WindowType
  <2>2. CASE UNCHANGED <<scans, thread>>
    BY <2>1, <2>2
  <2>3. CASE thread = "none" /\ scans < 1 /\ thread' = "mv"
    <3>1. ~(scans >= 1)
      BY <2>1, <2>3
    <3> QED
      BY <2>1, <2>3, <3>1 DEF Running
  <2> QED
    BY <1>1, <2>2, <2>3 DEF OkStart
<1>2. CASE OkFlag
  <2>1. Len(frames) \in DOMAIN frames /\ frames[Len(frames)] = "ok_flag"
    BY <1>2, PoppedFrame DEF OkFlag, Top, TypeInv, FramesType
  <2>2. thread \in Running
    BY <2>1 DEF FrameInv
  <2> QED
    BY <1>2, <2>2 DEF OkFlag, Running
<1>3. ASSUME NEW key \in {"exit", "menu"}, KeyCancel(key) PROVE StageInv'
  <2>1. thread \in Running /\ scans >= 1 /\ window = "open"
    BY <1>3 DEF KeyCancel, ListInv, ListSaved, Running
  <2> QED
    BY <1>3, <2>1 DEF KeyCancel, Running
<1>4. CASE KeyOk \/ KeyClose \/ OpenWindow \/ \E key \in {"exit", "menu"} : Restore(key)
  BY <1>4 DEF KeyOk, KeyClose, OpenWindow, Restore, Deleted
<1>5. CASE AfterScan \/ TickSelects \/ TickStops \/ UNCHANGED vars
  BY <1>5 DEF AfterScan, TickSelects, TickStops, vars
<1>6. CASE PutAside \/ NextFreq \/ ScanDone \/ Save \/ Count \/ LoopEnd \/ FlagDown
  BY <1>6 DEF PutAside, NextFreq, ScanDone, Save, Count, LoopEnd, FlagDown, Running
<1>7. CASE Emit \/ ThreadEnd
  <2>1. scans >= 1
    BY <1>7 DEF Emit, ThreadEnd, ListInv, ListSaved
  <2>2. /\ thread \in {"emit", "end"} /\ thread' \in {"end", "none"}
        /\ UNCHANGED <<scanning, quit, window, scans>>
    BY <1>7 DEF Emit, ThreadEnd
  <2>3. ~scanning
    BY <2>2 DEF Running
  <2>4. msg' => msg \/ ~quit
    BY <1>7, Zenon DEF Emit, ThreadEnd
  <2>5. msg' => ~quit
    BY <2>4
  <2> QED
    BY <2>1, <2>2, <2>3, <2>5
<1>8. CASE Dies
  BY <1>8 DEF Dies
<1> QED
  BY <1>1, <1>2, <1>3, <1>4, <1>5, <1>6, <1>7, <1>8 DEF Next, DeletedInUse, PowerCut

LEMMA NextWholeInv ==
  ASSUME MaxScans = 1, ~SavesFail, TypeInv, ListInv, FrameInv, StageInv, WholeInv, [Next]_vars
  PROVE  WholeInv'
<1> USE DEF winVars, thrVars, fileVars, histVars
<1>a. NoFile \notin whole
  BY NoFileAssumption DEF TypeInv, ListType, Lists, Freqs
<1>1. CASE OkStart
  <2>1. thread = "none" => scans = 0 \/ UNCHANGED thrVars
    BY <1>1 DEF OkStart, TypeInv, WindowType
  <2>2. scans = 0 => ~quit
    BY DEF StageInv
  <2> QED
    BY <1>1, <2>1, <2>2 DEF OkStart, WholeInv, Listed, PutAsideNow
<1>2. ASSUME NEW key \in {"exit", "menu"}, Restore(key) PROVE WholeInv'
  BY <1>2, <1>a DEF Restore, Deleted, Move, WholeInv, Listed, PutAsideNow
<1>3. ASSUME NEW key \in {"exit", "menu"}, KeyCancel(key) PROVE WholeInv'
  <2>1. thread \in Running
    BY <1>3 DEF KeyCancel, StageInv
  <2> QED
    BY <1>3, <2>1 DEF KeyCancel, WholeInv, Listed, PutAsideNow, Running
<1>4. CASE KeyClose
  <2>1. CASE frames = << >>
    <3>1. ~quit
      BY <2>1 DEF FrameInv
    <3> QED
      BY <1>4, <3>1 DEF KeyClose, Deleted, WholeInv, Listed, PutAsideNow
  <2>2. CASE frames # << >>
    BY <1>4, <2>2 DEF KeyClose, Deleted, WholeInv
  <2> QED
    BY <2>1, <2>2
<1>5. CASE AfterScan
  <2>1. ~quit /\ thread \in {"end", "none"} /\ (total_channels_found => dat # NoFile)
    BY <1>5 DEF AfterScan, StageInv, ListInv, ListSaved
  <2> QED
    BY <1>5, <1>a, <2>1 DEF AfterScan, Move, WholeInv, Listed, PutAsideNow
<1>6. CASE PutAside
  BY <1>6, <1>a DEF PutAside, Move, WholeInv, Listed, PutAsideNow
<1>7. CASE NextFreq \/ ScanDone \/ Save \/ Count
  <2>1. /\ thread \in {"test", "scan", "save", "count"} /\ thread' \in {"test", "scan", "save", "count"}
        /\ UNCHANGED <<old, whole, orderly, window>>
    BY <1>7 DEF NextFreq, ScanDone, Save, Count
  <2> QED
    BY <2>1 DEF WholeInv, PutAsideNow
<1>8. CASE LoopEnd
  BY <1>8 DEF LoopEnd, WholeInv, Listed, PutAsideNow
<1>9. CASE FlagDown \/ Emit \/ ThreadEnd
  <2>1. /\ thread \in {"flag", "emit", "end"} /\ thread' \in {"emit", "end", "none"}
        /\ UNCHANGED <<dat, old, whole, orderly, window, quit>>
    BY <1>9 DEF FlagDown, Emit, ThreadEnd
  <2> QED
    BY <2>1 DEF WholeInv, Listed, PutAsideNow
<1>10. CASE Dies
  BY <1>10 DEF Dies, WholeInv
<1>11. CASE OpenWindow \/ KeyOk \/ OkFlag \/ TickSelects \/ TickStops \/ UNCHANGED vars
  <2>1. UNCHANGED <<dat, old, whole, orderly, thread, quit>> /\ (window' = window \/ window = "none")
    BY <1>11 DEF OpenWindow, KeyOk, OkFlag, TickSelects, TickStops, vars
  <2> QED
    BY <2>1 DEF WholeInv, Listed
<1> QED
  BY <1>1, <1>2, <1>3, <1>4, <1>5, <1>6, <1>7, <1>8, <1>9, <1>10, <1>11 DEF Next, DeletedInUse, PowerCut

LEMMA InitWholeInv == Init => FrameInv /\ StageInv /\ WholeInv
<1> SUFFICES ASSUME Init PROVE FrameInv /\ StageInv /\ WholeInv
  OBVIOUS
<1>1. FrameInv /\ StageInv
  BY DEF Init, FrameInv, StageInv
<1>2. WholeInv
  BY DEF Init, WholeInv, Listed, PutAsideNow
<1> QED
  BY <1>1, <1>2

LEMMA WholeAlways ==
  ASSUME MaxScans = 1, ~SavesFail
  PROVE  Spec => [](TypeInv /\ ListInv /\ FrameInv /\ StageInv /\ WholeInv)
<1>1. TypeInv /\ ListInv /\ FrameInv /\ StageInv /\ WholeInv /\ [Next]_vars
        => (TypeInv /\ ListInv /\ FrameInv /\ StageInv /\ WholeInv)'
  BY NextTypeInv, NextListInv, NextFrameInv, NextStageInv, NextWholeInv
<1> QED
  BY <1>1, InitTypeInv, InitListInv, InitWholeInv, PTL DEF Spec

\* A user who had a list and leaves the window, with whatever keys and at whatever moment of
\* the scan, has one that is whole: the one from before, or that of a scan that got through.
THEOREM WholeListAlwaysKept ==
  ASSUME MaxScans = 1, ~SavesFail
  PROVE  Spec => []WholeListKept
<1>1. StageInv /\ WholeInv => WholeListKept
  BY DEF StageInv, WholeInv, Listed, WholeListKept
<1> QED
  BY <1>1, WholeAlways, PTL

\* A cancelled scan puts back the list it put aside, or a whole one, never half of its own.
THEOREM CancelAlwaysRestores ==
  ASSUME MaxScans = 1, ~SavesFail
  PROVE  Spec => CancelRestores
<1>1. ASSUME TypeInv, FrameInv, StageInv, WholeInv, [Next]_vars,
             NEW key \in {"exit", "menu"}, Top(key), frames' = Popped, orderly'
      PROVE  dat' \in {before} \cup whole
  <2>1. Len(frames) \in Nat \ {0} /\ Len(Popped) = Len(frames) - 1 /\ frames \in Seq(Keys)
    BY <1>1, PoppedFrame DEF Top, TypeInv, FramesType
  <2>2. frames' # frames
    BY <1>1, <2>1
  <2>3. \A k \in Keys : frames' # Append(frames, k)
    <3>1. \A k \in Keys : Len(Append(frames, k)) = Len(frames) + 1
      BY <2>1, AppendProperties
    <3> QED
      BY <1>1, <2>1, <3>1
  <2>4. ~OkStart /\ ~OkFlag
    BY <1>1 DEF OkStart, OkFlag, Top
  <2>5. ~Dies
    BY <1>1 DEF Dies
  <2>6. \E k \in {"exit", "menu"} : Restore(k)
    BY <1>1, <2>2, <2>3, <2>4, <2>5
    DEF Next, OpenWindow, KeyOk, KeyCancel, KeyClose, AfterScan, TickSelects, TickStops, PutAside,
        NextFreq, ScanDone, Save, Count, LoopEnd, FlagDown, Emit, ThreadEnd, DeletedInUse, PowerCut,
        Deleted, vars, Keys
  <2>7. NoFile \notin whole
    BY <1>1, NoFileAssumption DEF TypeInv, ListType, Lists, Freqs
  <2>8. dat' = Move(old, dat) /\ window = "open" /\ thread = "none" /\ orderly
    BY <1>1, <2>6 DEF Restore, histVars
  <2> QED
    BY <1>1, <2>7, <2>8 DEF WholeInv, Move, Listed
<1>2. TypeInv /\ FrameInv /\ StageInv /\ WholeInv /\ [Next]_vars =>
        ((\E key \in {"exit", "menu"} : Top(key)) /\ frames' = Popped /\ orderly' => dat' \in {before} \cup whole)
  BY <1>1
<1> QED
  BY <1>2, WholeAlways, PTL DEF Spec, CancelRestores
=============================================================================
