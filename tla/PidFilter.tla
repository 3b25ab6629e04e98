----------------------------- MODULE PidFilter ------------------------------
(* The PID filter of libdtv/ts_live/interface.cpp: a table of hardware slots *)
(* (pid_val), the bitmap of slots to enable (fid_bitmap), a counter          *)
(* (pid_number) and the image of the enable register (en), kept in step with *)
(* the TSI device by tsi_filter_cfg and tsi_filter_en.                       *)
(*                                                                           *)
(* Every call is one step here: this module is the contract a caller relies  *)
(* on when the calls do not overlap.  The device itself (its enable bits and *)
(* its slot configurations) is external and modelled by what the wrapper     *)
(* asks of it; any of its calls may fail.  The return for an unknown packet  *)
(* type is left out: no caller passes one.                                   *)
EXTENDS PidTable, FiniteSets

CONSTANTS
  NumSlots,      \* MAX_NUM_PIDS_SUPPORTED
  Pids,          \* the PIDs callers load
  PatPid,        \* the PID 0 a zeroed table seems to hold before the first init
  NoPid,         \* -1, a free slot
  Buffers,       \* ring buffers a slot may feed
  Unconfigured   \* a hardware slot never configured since tsi_init

ASSUME NumSlotsAssumption == NumSlots \in Nat
ASSUME PidsAssumption == PatPid \in Pids /\ NoPid \notin Pids
ASSUME UnconfiguredAssumption == Unconfigured \notin Pids \X Buffers

VARIABLES
  inited,        \* the interface has been initialised
  pid_val,       \* slot -> the PID it is allocated to, or NoPid
  fid_bitmap,    \* the slots whose enable bit the software wants set
  pid_number,    \* uint32_t counter of loaded PIDs
  en,            \* the enable register image handed to tsi_filter_en
  hw_en,         \* device: slots that really filter
  hw_cfg,        \* device: slot -> the <<pid, buffer>> last configured
  refused,       \* history: slots whose last tsi_filter_cfg failed
  lag            \* history: the last change never reached the enable register

vars == <<inited, pid_val, fid_bitmap, pid_number, en, hw_en, hw_cfg,
          refused, lag>>

Slots == 0..(NumSlots - 1)

TypeOK ==
  /\ inited \in BOOLEAN
  /\ pid_val \in [Slots -> Pids \cup {NoPid}]
  /\ fid_bitmap \subseteq Slots
  /\ pid_number \in Int
  /\ en \subseteq Slots
  /\ hw_en \subseteq Slots
  /\ hw_cfg \in [Slots -> (Pids \X Buffers) \cup {Unconfigured}]
  /\ refused \subseteq Slots
  /\ lag \in BOOLEAN

\* Static storage: everything zero, which reads as PID 0 in every slot.
Init ==
  /\ inited = FALSE
  /\ pid_val = [i \in Slots |-> PatPid]
  /\ fid_bitmap = {}
  /\ pid_number = 0
  /\ en = {}
  /\ hw_en = {}
  /\ hw_cfg = [i \in Slots |-> Unconfigured]
  /\ refused = {}
  /\ lag = FALSE

-----------------------------------------------------------------------------
FreeSlots == SlotsIn(pid_val, {NoPid})
Loaded    == SlotsIn(pid_val, Pids)
SlotsOf(p) == SlotsIn(pid_val, {p})

\* Faulty: tsi_filter_en is called before the image is updated.
EnableStale(bitmap) == en' = bitmap /\ hw_en' = en /\ lag' = FALSE

\* enable_filter(bitmap): the register image follows the bitmap once inited.
\* tsi_filter_en then hands the image to the device, unless the call fails.
EnableFilter(bitmap) ==
  /\ en' = bitmap
  /\ \/ hw_en' = bitmap /\ lag' = FALSE
     \/ hw_en' = hw_en /\ lag' = TRUE

\* tsi_initial_interface with the interface closed.  The wrapper's tables are
\* reset before tsi_init is tried; the counter only after it succeeded, by the
\* tsi_remove_pid_from_filter(-1) at the end.
InitialOk ==
  /\ ~inited
  /\ inited' = TRUE
  /\ pid_val' = [i \in Slots |-> NoPid]
  /\ fid_bitmap' = {}
  /\ pid_number' = 0
  /\ en' = {}
  /\ hw_en' = {}
  /\ hw_cfg' = [i \in Slots |-> Unconfigured]
  /\ refused' = {}
  /\ lag' = FALSE

InitialFails ==
  /\ ~inited
  /\ pid_val' = [i \in Slots |-> NoPid]
  /\ fid_bitmap' = {}
  /\ en' = {}
  /\ UNCHANGED <<inited, pid_number, hw_en, hw_cfg, refused, lag>>

\* Faulty: the bit of the next slot, or no count.
AllocateShiftedBit(i, p) ==
  /\ pid_val' = [pid_val EXCEPT ![i] = p]
  /\ fid_bitmap' = fid_bitmap \cup {i + 1}
  /\ pid_number' = pid_number + 1
AllocateUncounted(i, p) ==
  /\ pid_val' = [pid_val EXCEPT ![i] = p]
  /\ fid_bitmap' = fid_bitmap \cup {i}
  /\ UNCHANGED pid_number

\* tsi_add_pid_to_filter(pid, type, buff_idx) takes the first free slot ...
Allocate(i, p) ==
  /\ pid_val' = [pid_val EXCEPT ![i] = p]
  /\ fid_bitmap' = fid_bitmap \cup {i}
  /\ pid_number' = pid_number + 1

\* Faulty: cfg.fid is not set, so slot 0 is configured whatever the scan found.
AddStaleFid(p, b) ==
  /\ inited
  /\ FreeSlots # {}
  /\ Allocate(Least(FreeSlots), p)
  /\ hw_cfg' = [hw_cfg EXCEPT ![0] = <<p, b>>]
  /\ refused' = refused \ {Least(FreeSlots)}
  /\ EnableFilter(fid_bitmap \cup {Least(FreeSlots)})
  /\ UNCHANGED inited

AddOk(p, b) ==
  /\ inited
  /\ FreeSlots # {}
  /\ LET i == Least(FreeSlots) IN
       /\ Allocate(i, p)
       /\ hw_cfg' = [hw_cfg EXCEPT ![i] = <<p, b>>]
       /\ refused' = refused \ {i}
       /\ EnableFilter(fid_bitmap \cup {i})
  /\ UNCHANGED inited

\* ... and when tsi_filter_cfg fails returns with the slot still allocated.
AddCfgFails(p) ==
  /\ inited
  /\ FreeSlots # {}
  /\ Allocate(Least(FreeSlots), p)
  /\ refused' = refused \cup {Least(FreeSlots)}
  /\ lag' = TRUE
  /\ UNCHANGED <<inited, en, hw_en, hw_cfg>>

\* tsi_remove_pid_from_filter(pid), pid >= 0: one slot, the first that holds it.
Remove(p) ==
  /\ inited
  /\ pid_number > 0
  /\ SlotsOf(p) # {}
  /\ LET i == Least(SlotsOf(p)) IN
       /\ pid_val' = [pid_val EXCEPT ![i] = NoPid]
       /\ fid_bitmap' = fid_bitmap \ {i}
       /\ pid_number' = pid_number - 1
       /\ EnableFilter(fid_bitmap \ {i})
  /\ UNCHANGED <<inited, hw_cfg, refused>>

\* Faulty: the counter is not reset with the table.
RemoveAllUncounted ==
  /\ inited
  /\ pid_val' = [i \in Slots |-> NoPid]
  /\ fid_bitmap' = {}
  /\ EnableFilter({})
  /\ UNCHANGED <<inited, pid_number, hw_cfg, refused>>

\* tsi_remove_pid_from_filter(-1)
RemoveAll ==
  /\ inited
  /\ pid_number' = 0
  /\ pid_val' = [i \in Slots |-> NoPid]
  /\ fid_bitmap' = {}
  /\ EnableFilter({})
  /\ UNCHANGED <<inited, hw_cfg, refused>>

\* tsi_release_all_resource: the table and its counter keep their values.
Release ==
  /\ inited
  /\ inited' = FALSE
  /\ fid_bitmap' = {}
  /\ hw_en' = {}
  /\ lag' = FALSE
  /\ UNCHANGED <<pid_val, pid_number, en, hw_cfg, refused>>

\* The calls that return early (closed, table full, PID not loaded) change
\* nothing: they are the stuttering steps of Spec.
Next ==
  \/ InitialOk
  \/ InitialFails
  \/ \E p \in Pids, b \in Buffers : AddOk(p, b)
  \/ \E p \in Pids : AddCfgFails(p)
  \/ \E p \in Pids : Remove(p)
  \/ RemoveAll
  \/ Release

Spec == Init /\ [][Next]_vars

-----------------------------------------------------------------------------
(* Correctness *)

\* While the interface is open, the three records the wrapper keeps of what is
\* loaded agree: the bitmap has exactly the bits of the allocated slots and the
\* counter, which guards every removal, is their number.
TableConsistent ==
  inited => /\ fid_bitmap = Loaded
            /\ pid_number = Cardinality(Loaded)

\* A slot the software wants enabled, unless the device refused its very
\* configuration, is one the device was last configured for that PID: enabling
\* one PID never brings back to life the PID a slot was configured for before,
\* whatever the device refused in the past.
ConfiguredAsTable ==
  inited => \A i \in fid_bitmap \ refused :
              hw_cfg[i] # Unconfigured /\ hw_cfg[i][1] = pid_val[i]

\* Unless the last change did not get through to the device, the slots that
\* filter in hardware are those the table says are loaded; an earlier failure
\* heals with the next call, and a closed interface filters nothing.
HardwareFollowsTable ==
  ~lag => hw_en = (IF inited THEN Loaded ELSE {})

\* The filter implements a bag of PIDs with room for NumSlots of them.
Bag == INSTANCE PidBag WITH
         open <- inited,
         loaded <- [p \in Pids |-> IF inited THEN Cardinality(SlotsOf(p)) ELSE 0],
         room <- IF inited THEN NumSlots - pid_number ELSE NumSlots
ImplementsBag == Bag!Spec
=============================================================================
