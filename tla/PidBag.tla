------------------------------- MODULE PidBag -------------------------------
(* What the PID filter promises its callers: a bag of PIDs of limited size.  *)
(* Loading a PID that is already loaded loads it once more, unloading takes  *)
(* one copy away, and a full bag loads nothing.                              *)
EXTENDS Integers

CONSTANTS NumSlots, Pids

VARIABLES
  open,     \* the filter has been initialised
  loaded,   \* PID -> how many times it is loaded
  room      \* how many more PIDs fit

bagVars == <<open, loaded, room>>

Empty == [p \in Pids |-> 0]

Init == open = FALSE /\ loaded = Empty /\ room = NumSlots

Open == ~open /\ open' = TRUE /\ UNCHANGED <<loaded, room>>

Load(p) ==
  /\ open
  /\ room > 0
  /\ loaded' = [loaded EXCEPT ![p] = @ + 1]
  /\ room' = room - 1
  /\ UNCHANGED open

Unload(p) ==
  /\ open
  /\ loaded[p] > 0
  /\ loaded' = [loaded EXCEPT ![p] = @ - 1]
  /\ room' = room + 1
  /\ UNCHANGED open

UnloadAll == open /\ loaded' = Empty /\ room' = NumSlots /\ UNCHANGED open

Close == open /\ open' = FALSE /\ loaded' = Empty /\ room' = NumSlots

Next ==
  \/ Open
  \/ \E p \in Pids : Load(p) \/ Unload(p)
  \/ UnloadAll
  \/ Close

Spec == Init /\ [][Next]_bagVars
=============================================================================
