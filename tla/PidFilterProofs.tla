--------------------------- MODULE PidFilterProofs --------------------------
(* What the PID filter guarantees for every number of slots, every set of    *)
(* PIDs and buffers, and whatever the device's calls return.                 *)
EXTENDS PidFilter, WellFoundedInduction, FiniteSetTheorems, TLAPS

\* A loop over the slots that has something to find stops at a slot of the
\* set, and at no slot before it.
LEMMA LeastIsFirst ==
  ASSUME NEW S, S \subseteq Nat, S # {}
  PROVE  Least(S) \in S /\ \A j \in S : Least(S) <= j
<1> DEFINE Less == {ss \in Nat \X Nat : ss[1] < ss[2]}
<1>1. IsWellFoundedOn(Less, Nat)
  BY NatLessThanWellFounded DEF OpToRel
<1>2. PICK i \in S : \A j \in S : ~ (<<j, i>> \in Less)
  <2> HIDE DEF Less
  <2> QED
    BY <1>1, WFMin
<1>3. \A j \in S : i <= j
  <2> SUFFICES ASSUME NEW j \in S, ~ (i <= j) PROVE FALSE
    OBVIOUS
  <2>1. <<j, i>> \in Less
    BY <1>2
  <2> QED
    BY <1>2, <2>1
<1> QED
  BY <1>3 DEF Least

LEMMA SlotsFinite ==
  /\ Slots \subseteq Nat
  /\ IsFiniteSet(Slots)
  /\ Cardinality(Slots) = NumSlots
<1>1. Slots \subseteq Nat
  BY NumSlotsAssumption DEF Slots
<1> QED
  BY <1>1, FS_Interval, NumSlotsAssumption DEF Slots

\* The slot a scan of the table stops at is a slot, and satisfies the scan.
LEMMA ScanFindsSlot ==
  ASSUME TypeOK, NEW wanted, SlotsIn(pid_val, wanted) # {}
  PROVE  /\ Least(SlotsIn(pid_val, wanted)) \in Slots
         /\ pid_val[Least(SlotsIn(pid_val, wanted))] \in wanted
<1>1. SlotsIn(pid_val, wanted) \subseteq Slots
  BY DEF TypeOK, SlotsIn
<1>2. Least(SlotsIn(pid_val, wanted)) \in SlotsIn(pid_val, wanted)
  BY <1>1, SlotsFinite, LeastIsFirst
<1> QED
  BY <1>1, <1>2 DEF SlotsIn

-----------------------------------------------------------------------------
(* Type correctness *)

LEMMA InitTypeOK == Init => TypeOK
<1> SUFFICES ASSUME Init
             PROVE  TypeOK
  OBVIOUS
<1>1. pid_val \in [Slots -> Pids \cup {NoPid}]
  BY PidsAssumption DEF Init
<1>2. hw_cfg \in [Slots -> (Pids \X Buffers) \cup {Unconfigured}]
  BY DEF Init
<1>3. inited \in BOOLEAN
  BY DEF Init
<1>4. fid_bitmap \subseteq Slots /\ pid_number \in Int /\ en \subseteq Slots /\ hw_en \subseteq Slots
  BY DEF Init
<1>5. refused \subseteq Slots /\ lag \in BOOLEAN
  BY DEF Init
<1> QED
  BY <1>1, <1>2, <1>3, <1>4, <1>5 DEF TypeOK

LEMMA LagBoolean == TypeOK /\ [Next]_vars => lag' \in BOOLEAN
<1>1. ASSUME NEW bitmap, EnableFilter(bitmap)
      PROVE  lag' \in BOOLEAN
  BY <1>1 DEF EnableFilter
<1> QED
  BY <1>1, Zenon DEF Next, vars, TypeOK, InitialOk, InitialFails, AddOk, AddCfgFails, Remove,
                     RemoveAll, Release

LEMMA NextTypeOK == TypeOK /\ [Next]_vars => TypeOK'
<1> SUFFICES ASSUME TypeOK, [Next]_vars
             PROVE  TypeOK'
  OBVIOUS
<1>0. lag' \in BOOLEAN
  BY LagBoolean
<1>1. CASE InitialOk
  <2>1. pid_val' \in [Slots -> Pids \cup {NoPid}]
    BY <1>1 DEF InitialOk
  <2>2. hw_cfg' \in [Slots -> (Pids \X Buffers) \cup {Unconfigured}]
    BY <1>1 DEF InitialOk
  <2> QED
    BY <1>0, <1>1, <2>1, <2>2 DEF InitialOk, TypeOK
<1>2. CASE InitialFails
  <2>1. pid_val' \in [Slots -> Pids \cup {NoPid}]
    BY <1>2 DEF InitialFails
  <2> QED
    BY <1>0, <1>2, <2>1 DEF InitialFails, TypeOK
<1>3. ASSUME NEW p \in Pids, NEW b \in Buffers, AddOk(p, b)
      PROVE  TypeOK'
  <2> DEFINE i == Least(FreeSlots)
  <2>1. i \in Slots
    BY <1>3, ScanFindsSlot DEF AddOk, FreeSlots
  <2>2. <<p, b>> \in Pids \X Buffers
    BY <1>3
  <2> HIDE DEF i
  <2> QED
    BY <1>0, <1>3, <2>1, <2>2 DEF AddOk, Allocate, EnableFilter, TypeOK, i
<1>4. ASSUME NEW p \in Pids, AddCfgFails(p)
      PROVE  TypeOK'
  <2>1. Least(FreeSlots) \in Slots
    BY <1>4, ScanFindsSlot DEF AddCfgFails, FreeSlots
  <2> QED
    BY <1>0, <1>4, <2>1 DEF AddCfgFails, Allocate, TypeOK
<1>5. ASSUME NEW p \in Pids, Remove(p)
      PROVE  TypeOK'
  <2> DEFINE i == Least(SlotsOf(p))
  <2>1. /\ pid_val' = [pid_val EXCEPT ![i] = NoPid]
        /\ fid_bitmap' = fid_bitmap \ {i}
        /\ pid_number' = pid_number - 1
        /\ EnableFilter(fid_bitmap \ {i})
        /\ inited' = inited /\ hw_cfg' = hw_cfg /\ refused' = refused
    BY <1>5 DEF Remove
  <2> HIDE DEF i
  <2>2. pid_val' \in [Slots -> Pids \cup {NoPid}]
    BY <2>1 DEF TypeOK
  <2>3. /\ inited' \in BOOLEAN /\ refused' \subseteq Slots
        /\ hw_cfg' \in [Slots -> (Pids \X Buffers) \cup {Unconfigured}]
    BY <2>1, Zenon DEF TypeOK
  <2>4. pid_number' \in Int
    BY <2>1 DEF TypeOK
  <2>5. fid_bitmap' \subseteq Slots /\ en' \subseteq Slots /\ hw_en' \subseteq Slots
    BY <2>1 DEF EnableFilter, TypeOK
  <2> QED
    BY <1>0, <2>2, <2>3, <2>4, <2>5 DEF TypeOK
<1>6. CASE RemoveAll
  BY <1>0, <1>6 DEF RemoveAll, EnableFilter, TypeOK
<1>7. CASE Release
  BY <1>0, <1>7 DEF Release, TypeOK
<1>8. CASE UNCHANGED vars
  BY <1>8 DEF vars, TypeOK
<1> QED
  BY <1>1, <1>2, <1>3, <1>4, <1>5, <1>6, <1>7, <1>8 DEF Next

\* Every variable of the filter keeps its type, the slot a call writes to
\* included: no call of interface.cpp leaves the table.
THEOREM TypeCorrect == Spec => []TypeOK
<1>1. Init => TypeOK
  BY InitTypeOK
<1>2. TypeOK /\ [Next]_vars => TypeOK'
  BY NextTypeOK
<1> QED
  BY <1>1, <1>2, PTL DEF Spec

-----------------------------------------------------------------------------
(* The wrapper's records agree *)

LEMMA LoadedFinite ==
  ASSUME TypeOK
  PROVE  /\ Loaded \subseteq Slots
         /\ IsFiniteSet(Loaded)
         /\ Cardinality(Loaded) \in Nat
         /\ \A i \in Slots : i \in Loaded <=> i \notin FreeSlots
<1>1. Loaded \subseteq Slots
  BY DEF Loaded, SlotsIn, TypeOK
<1>2. IsFiniteSet(Loaded)
  BY <1>1, SlotsFinite, FS_Subset
<1> QED
  BY <1>1, <1>2, FS_CardinalityType, PidsAssumption
  DEF Loaded, FreeSlots, SlotsIn, TypeOK

LEMMA NothingLoaded ==
  ASSUME pid_val' = [i \in Slots |-> NoPid]
  PROVE  Loaded' = {} /\ Cardinality(Loaded') = 0
<1>1. Loaded' = {}
  BY PidsAssumption DEF Loaded, SlotsIn
<1> QED
  BY <1>1, FS_EmptySet

\* Taking a free slot adds it to the loaded ones.
LEMMA AllocateLoads ==
  ASSUME TypeOK, NEW p \in Pids, FreeSlots # {},
         Allocate(Least(FreeSlots), p)
  PROVE  /\ Loaded' = Loaded \cup {Least(FreeSlots)}
         /\ Cardinality(Loaded') = Cardinality(Loaded) + 1
<1> DEFINE i == Least(FreeSlots)
<1>1. i \in Slots /\ pid_val[i] = NoPid
  BY ScanFindsSlot DEF FreeSlots
<1>2. i \notin Loaded
  BY <1>1, PidsAssumption DEF Loaded, SlotsIn
<1>3. pid_val' = [pid_val EXCEPT ![i] = p]
  BY DEF Allocate
<1> HIDE DEF i
<1>4. Loaded' = Loaded \cup {i}
  BY <1>1, <1>3 DEF Loaded, SlotsIn, TypeOK
<1> QED
  BY <1>2, <1>4, LoadedFinite, FS_AddElement DEF i

\* Freeing the slot of a PID takes it from the loaded ones.
LEMMA RemoveUnloads ==
  ASSUME TypeOK, NEW p \in Pids, Remove(p)
  PROVE  /\ Least(SlotsOf(p)) \in Loaded
         /\ Loaded' = Loaded \ {Least(SlotsOf(p))}
         /\ Cardinality(Loaded') = Cardinality(Loaded) - 1
<1> DEFINE i == Least(SlotsOf(p))
<1>0. SlotsIn(pid_val, {p}) # {}
  BY DEF Remove, SlotsOf
<1>1. i \in Slots /\ pid_val[i] = p
  BY <1>0, ScanFindsSlot DEF SlotsOf
<1>2. i \in Loaded
  BY <1>1 DEF Loaded, SlotsIn, TypeOK
<1>3. pid_val' = [pid_val EXCEPT ![i] = NoPid]
  BY DEF Remove
<1> HIDE DEF i
<1>4. Loaded' = Loaded \ {i}
  BY <1>1, <1>3, PidsAssumption DEF Loaded, SlotsIn, TypeOK
<1> QED
  BY <1>2, <1>4, LoadedFinite, FS_RemoveElement DEF i

LEMMA NextTableConsistent ==
  TypeOK /\ TableConsistent /\ [Next]_vars => TableConsistent'
<1> SUFFICES ASSUME TypeOK, TableConsistent, [Next]_vars
             PROVE  TableConsistent'
  OBVIOUS
<1>1. CASE InitialOk
  BY <1>1, NothingLoaded DEF InitialOk, TableConsistent
<1>2. CASE InitialFails
  BY <1>2 DEF InitialFails, TableConsistent
<1>3. ASSUME NEW p \in Pids, NEW b \in Buffers, AddOk(p, b)
      PROVE  TableConsistent'
  <2>1. FreeSlots # {} /\ Allocate(Least(FreeSlots), p) /\ inited
    BY <1>3 DEF AddOk
  <2> QED
    BY <2>1, AllocateLoads DEF Allocate, TableConsistent
<1>4. ASSUME NEW p \in Pids, AddCfgFails(p)
      PROVE  TableConsistent'
  <2>1. FreeSlots # {} /\ Allocate(Least(FreeSlots), p) /\ inited
    BY <1>4 DEF AddCfgFails
  <2> QED
    BY <2>1, AllocateLoads DEF Allocate, TableConsistent
<1>5. ASSUME NEW p \in Pids, Remove(p)
      PROVE  TableConsistent'
  BY <1>5, RemoveUnloads DEF Remove, TableConsistent
<1>6. CASE RemoveAll
  BY <1>6, NothingLoaded DEF RemoveAll, TableConsistent
<1>7. CASE Release
  BY <1>7 DEF Release, TableConsistent
<1>8. CASE UNCHANGED vars
  BY <1>8 DEF vars, TableConsistent, Loaded
<1> QED
  BY <1>1, <1>2, <1>3, <1>4, <1>5, <1>6, <1>7, <1>8 DEF Next

\* Whatever the device answers and in whatever order callers add and remove
\* PIDs, the bitmap, the counter and the table agree while the filter is open:
\* the guard "pid_number <= 0" never turns a loaded PID's removal away.
THEOREM TableAlwaysConsistent == Spec => []TableConsistent
<1>1. Init => TableConsistent
  BY DEF Init, TableConsistent
<1>2. TypeOK /\ TableConsistent /\ [Next]_vars => TableConsistent'
  BY NextTableConsistent
<1> QED
  BY <1>1, <1>2, TypeCorrect, PTL DEF Spec

-----------------------------------------------------------------------------
(* The device follows the table *)

LEMMA NextConfiguredAsTable ==
  TypeOK /\ ConfiguredAsTable /\ [Next]_vars => ConfiguredAsTable'
<1> SUFFICES ASSUME TypeOK, ConfiguredAsTable, [Next]_vars, inited',
                    NEW j \in (fid_bitmap \ refused)'
             PROVE  hw_cfg'[j] # Unconfigured /\ hw_cfg'[j][1] = pid_val'[j]
  BY DEF ConfiguredAsTable
<1>1. CASE InitialOk
  BY <1>1 DEF InitialOk
<1>2. CASE InitialFails
  BY <1>2 DEF InitialFails
<1>3. ASSUME NEW p \in Pids, NEW b \in Buffers, AddOk(p, b)
      PROVE  hw_cfg'[j] # Unconfigured /\ hw_cfg'[j][1] = pid_val'[j]
  <2> DEFINE i == Least(FreeSlots)
  <2>1. i \in Slots
    BY <1>3, ScanFindsSlot DEF AddOk, FreeSlots
  <2>2. /\ pid_val' = [pid_val EXCEPT ![i] = p]
        /\ fid_bitmap' = fid_bitmap \cup {i}
        /\ hw_cfg' = [hw_cfg EXCEPT ![i] = <<p, b>>]
        /\ refused' = refused \ {i}
        /\ inited
    BY <1>3 DEF AddOk, Allocate
  <2> HIDE DEF i
  <2>3. CASE j = i
    <3>1. hw_cfg'[j] = <<p, b>> /\ pid_val'[j] = p
      BY <2>1, <2>2, <2>3 DEF TypeOK
    <3>2. <<p, b>> # Unconfigured
      BY UnconfiguredAssumption
    <3> QED
      BY <3>1, <3>2
  <2>4. CASE j # i
    <3>1. j \in fid_bitmap \ refused /\ j \in Slots
      BY <2>2, <2>4 DEF TypeOK
    <3>2. hw_cfg'[j] = hw_cfg[j] /\ pid_val'[j] = pid_val[j]
      BY <2>2, <2>4, <3>1 DEF TypeOK
    <3> QED
      BY <2>2, <3>1, <3>2 DEF ConfiguredAsTable
  <2> QED
    BY <2>3, <2>4
<1>4. ASSUME NEW p \in Pids, AddCfgFails(p)
      PROVE  hw_cfg'[j] # Unconfigured /\ hw_cfg'[j][1] = pid_val'[j]
  <2> DEFINE i == Least(FreeSlots)
  <2>1. /\ pid_val' = [pid_val EXCEPT ![i] = p]
        /\ fid_bitmap' = fid_bitmap \cup {i}
        /\ hw_cfg' = hw_cfg
        /\ refused' = refused \cup {i}
        /\ inited
    BY <1>4 DEF AddCfgFails, Allocate
  <2> HIDE DEF i
  <2>2. j \in fid_bitmap \ refused /\ j \in Slots /\ j # i
    BY <2>1 DEF TypeOK
  <2> QED
    BY <2>1, <2>2 DEF ConfiguredAsTable, TypeOK
<1>5. ASSUME NEW p \in Pids, Remove(p)
      PROVE  hw_cfg'[j] # Unconfigured /\ hw_cfg'[j][1] = pid_val'[j]
  <2> DEFINE i == Least(SlotsOf(p))
  <2>1. /\ pid_val' = [pid_val EXCEPT ![i] = NoPid]
        /\ fid_bitmap' = fid_bitmap \ {i}
        /\ UNCHANGED <<hw_cfg, refused>>
        /\ inited
    BY <1>5 DEF Remove
  <2> HIDE DEF i
  <2>2. j \in fid_bitmap \ refused /\ j \in Slots /\ j # i
    BY <2>1 DEF TypeOK
  <2> QED
    BY <2>1, <2>2 DEF ConfiguredAsTable, TypeOK
<1>6. CASE RemoveAll
  BY <1>6 DEF RemoveAll
<1>7. CASE Release
  BY <1>7 DEF Release
<1>8. CASE UNCHANGED vars
  BY <1>8 DEF vars, ConfiguredAsTable
<1> QED
  BY <1>1, <1>2, <1>3, <1>4, <1>5, <1>6, <1>7, <1>8 DEF Next

\* However many device calls failed before, an enabled slot whose own
\* configuration was accepted is configured for the PID the table gives it.
THEOREM SlotsConfiguredAsTable == Spec => []ConfiguredAsTable
<1>1. Init => ConfiguredAsTable
  BY DEF Init, ConfiguredAsTable
<1>2. TypeOK /\ ConfiguredAsTable /\ [Next]_vars => ConfiguredAsTable'
  BY NextConfiguredAsTable
<1> QED
  BY <1>1, <1>2, TypeCorrect, PTL DEF Spec

\* The enable bits are those of the bitmap, and the bitmap is the table's: the
\* step that keeps the three in line is EnableFilter on the new bitmap.
LEMMA NextHardwareFollowsTable ==
  /\ TypeOK /\ TableConsistent /\ TableConsistent' /\ HardwareFollowsTable
  /\ [Next]_vars
  => HardwareFollowsTable'
<1> SUFFICES ASSUME TypeOK, TableConsistent, TableConsistent',
                    HardwareFollowsTable, [Next]_vars, ~lag'
             PROVE  hw_en' = (IF inited' THEN Loaded' ELSE {})
  BY DEF HardwareFollowsTable
<1>1. CASE InitialOk
  BY <1>1, NothingLoaded DEF InitialOk
<1>2. CASE InitialFails
  BY <1>2 DEF InitialFails, HardwareFollowsTable
<1>3. ASSUME NEW p \in Pids, NEW b \in Buffers, AddOk(p, b)
      PROVE  hw_en' = (IF inited' THEN Loaded' ELSE {})
  BY <1>3 DEF AddOk, Allocate, EnableFilter, TableConsistent
<1>4. ASSUME NEW p \in Pids, AddCfgFails(p)
      PROVE  hw_en' = (IF inited' THEN Loaded' ELSE {})
  BY <1>4 DEF AddCfgFails
<1>5. ASSUME NEW p \in Pids, Remove(p)
      PROVE  hw_en' = (IF inited' THEN Loaded' ELSE {})
  BY <1>5 DEF Remove, EnableFilter, TableConsistent
<1>6. CASE RemoveAll
  BY <1>6, NothingLoaded DEF RemoveAll, EnableFilter
<1>7. CASE Release
  BY <1>7 DEF Release
<1>8. CASE UNCHANGED vars
  BY <1>8 DEF vars, HardwareFollowsTable, Loaded
<1> QED
  BY <1>1, <1>2, <1>3, <1>4, <1>5, <1>6, <1>7, <1>8 DEF Next

\* Once a call gets through to the device, what filters is what is loaded,
\* whatever failed before; a closed interface filters nothing.
THEOREM HardwareAlwaysFollows == Spec => []HardwareFollowsTable
<1>1. Init => HardwareFollowsTable
  BY DEF Init, HardwareFollowsTable
<1>2. /\ TypeOK /\ TableConsistent /\ TableConsistent' /\ HardwareFollowsTable
      /\ [Next]_vars
      => HardwareFollowsTable'
  BY NextHardwareFollowsTable
<1> QED
  BY <1>1, <1>2, TypeCorrect, TableAlwaysConsistent, PTL DEF Spec

-----------------------------------------------------------------------------
(* The filter implements a bag *)

LEMMA SlotsOfFinite ==
  ASSUME TypeOK, NEW q \in Pids
  PROVE  /\ SlotsOf(q) \subseteq Slots
         /\ IsFiniteSet(SlotsOf(q))
         /\ Cardinality(SlotsOf(q)) \in Nat
         /\ Cardinality(SlotsOf(q)) = 0 <=> SlotsOf(q) = {}
<1>1. SlotsOf(q) \subseteq Slots
  BY DEF SlotsOf, SlotsIn, TypeOK
<1>2. IsFiniteSet(SlotsOf(q))
  BY <1>1, SlotsFinite, FS_Subset
<1> QED
  BY <1>1, <1>2, FS_CardinalityType, FS_EmptySet

\* Adding a PID adds one copy of it and leaves the copies of the others.
LEMMA AllocateCopies ==
  ASSUME TypeOK, NEW p \in Pids, FreeSlots # {},
         Allocate(Least(FreeSlots), p), NEW q \in Pids
  PROVE  Cardinality(SlotsOf(q)') = Cardinality(SlotsOf(q))
                                      + (IF q = p THEN 1 ELSE 0)
<1> DEFINE i == Least(FreeSlots)
<1>1. i \in Slots /\ pid_val[i] = NoPid
  BY ScanFindsSlot DEF FreeSlots
<1>2. pid_val' = [pid_val EXCEPT ![i] = p]
  BY DEF Allocate
<1> HIDE DEF i
<1>3. i \notin SlotsOf(q)
  BY <1>1, PidsAssumption DEF SlotsOf, SlotsIn
<1>4. CASE q = p
  <2>1. SlotsOf(q)' = SlotsOf(q) \cup {i}
    BY <1>1, <1>2, <1>4 DEF SlotsOf, SlotsIn, TypeOK
  <2> QED
    BY <1>3, <1>4, <2>1, SlotsOfFinite, FS_AddElement
<1>5. CASE q # p
  <2>1. SlotsOf(q)' = SlotsOf(q)
    BY <1>1, <1>2, <1>5, PidsAssumption DEF SlotsOf, SlotsIn, TypeOK
  <2> QED
    BY <1>5, <2>1, SlotsOfFinite
<1> QED
  BY <1>4, <1>5

\* Removing a PID takes one copy of it and leaves the copies of the others.
LEMMA RemoveCopies ==
  ASSUME TypeOK, NEW p \in Pids, Remove(p), NEW q \in Pids
  PROVE  Cardinality(SlotsOf(q)') = Cardinality(SlotsOf(q))
                                      - (IF q = p THEN 1 ELSE 0)
<1> DEFINE i == Least(SlotsOf(p))
<1>0. SlotsIn(pid_val, {p}) # {}
  BY DEF Remove, SlotsOf
<1>1. i \in Slots /\ pid_val[i] = p
  BY <1>0, ScanFindsSlot DEF SlotsOf
<1>2. pid_val' = [pid_val EXCEPT ![i] = NoPid]
  BY DEF Remove
<1> HIDE DEF i
<1>a. /\ SlotsOf(q) = {k \in Slots : pid_val[k] = q}
      /\ SlotsOf(q)' = {k \in Slots : pid_val'[k] = q}
      /\ DOMAIN pid_val = Slots
  BY DEF SlotsOf, SlotsIn, TypeOK, Remove
<1>3. CASE q = p
  <2>1. i \in SlotsOf(q)
    BY <1>1, <1>3, <1>a
  <2>2. SlotsOf(q)' = SlotsOf(q) \ {i}
    <3>1. \A k \in Slots : pid_val'[k] = IF k = i THEN NoPid ELSE pid_val[k]
      BY <1>2 DEF TypeOK
    <3> QED
      BY <1>a, <3>1, PidsAssumption
  <2> QED
    BY <1>3, <2>1, <2>2, SlotsOfFinite, FS_RemoveElement
<1>4. CASE q # p
  <2>1. ASSUME NEW k \in Slots PROVE pid_val'[k] = q <=> pid_val[k] = q
    <3>1. pid_val'[k] = IF k = i THEN NoPid ELSE pid_val[k]
      BY <1>2 DEF TypeOK
    <3> QED
      BY <1>1, <1>4, <3>1, PidsAssumption
  <2>2. SlotsOf(q)' = SlotsOf(q)
    BY <1>a, <2>1
  <2> QED
    BY <1>4, <2>2, SlotsOfFinite
<1> QED
  BY <1>3, <1>4

\* While a slot is free the counter is below the number of slots.
LEMMA FreeSlotIsRoom ==
  ASSUME TypeOK, TableConsistent, inited, FreeSlots # {}
  PROVE  pid_number < NumSlots
<1> DEFINE i == Least(FreeSlots)
<1>1. i \in Slots /\ i \notin Loaded
  BY ScanFindsSlot, PidsAssumption DEF FreeSlots, Loaded, SlotsIn
<1> HIDE DEF i
<1>2. Loaded \cup {i} \subseteq Slots
  BY <1>1, LoadedFinite
<1>3. Cardinality(Loaded \cup {i}) = Cardinality(Loaded) + 1
  BY <1>1, LoadedFinite, FS_AddElement
<1>4. Cardinality(Loaded \cup {i}) <= NumSlots
  BY <1>2, SlotsFinite, FS_Subset
<1> QED
  BY <1>3, <1>4, LoadedFinite, NumSlotsAssumption DEF TableConsistent

Copies == [p \in Pids |-> IF inited THEN Cardinality(SlotsOf(p)) ELSE 0]
Room   == IF inited THEN NumSlots - pid_number ELSE NumSlots

LEMMA NoCopies ==
  ASSUME pid_val' = [i \in Slots |-> NoPid]
  PROVE  Copies' = [p \in Pids |-> 0]
<1>1. ASSUME NEW p \in Pids
      PROVE  SlotsOf(p)' = {}
  BY PidsAssumption DEF SlotsOf, SlotsIn
<1> QED
  BY <1>1, FS_EmptySet DEF Copies

LEMMA AllocateIsLoad ==
  ASSUME TypeOK, TableConsistent, inited, inited', NEW p \in Pids,
         FreeSlots # {}, Allocate(Least(FreeSlots), p)
  PROVE  Bag!Load(p)
<1>1. Room > 0 /\ Room' = Room - 1
  BY FreeSlotIsRoom, NumSlotsAssumption DEF Room, Allocate, TypeOK
<1>2. Copies' = [Copies EXCEPT ![p] = @ + 1]
  <2>1. ASSUME NEW q \in Pids
        PROVE  Copies'[q] = [Copies EXCEPT ![p] = @ + 1][q]
    BY AllocateCopies, SlotsOfFinite DEF Copies
  <2> QED
    BY <2>1 DEF Copies
<1> QED
  BY <1>1, <1>2 DEF Bag!Load, Copies, Room

LEMMA NextIsBagStep ==
  TypeOK /\ TableConsistent /\ [Next]_vars => [Bag!Next]_(Bag!bagVars)
<1> SUFFICES ASSUME TypeOK, TableConsistent, [Next]_vars
             PROVE  [Bag!Next]_(Bag!bagVars)
  OBVIOUS
<1>1. CASE InitialOk
  <2>1. Copies' = [p \in Pids |-> 0]
    BY <1>1, NoCopies DEF InitialOk
  <2>2. Copies' = Copies /\ Room' = Room
    BY <1>1, <2>1, NumSlotsAssumption DEF InitialOk, Copies, Room
  <2>3. Bag!Open
    BY <1>1, <2>2 DEF InitialOk, Bag!Open, Copies, Room
  <2> QED
    BY <2>3 DEF Bag!Next
<1>2. CASE InitialFails
  BY <1>2 DEF InitialFails, Bag!bagVars, Copies, Room
<1>3. ASSUME NEW p \in Pids, NEW b \in Buffers, AddOk(p, b)
      PROVE  [Bag!Next]_(Bag!bagVars)
  <2>1. FreeSlots # {} /\ Allocate(Least(FreeSlots), p) /\ inited /\ inited'
    BY <1>3 DEF AddOk
  <2> QED
    BY <2>1, AllocateIsLoad DEF Bag!Next
<1>4. ASSUME NEW p \in Pids, AddCfgFails(p)
      PROVE  [Bag!Next]_(Bag!bagVars)
  <2>1. FreeSlots # {} /\ Allocate(Least(FreeSlots), p) /\ inited /\ inited'
    BY <1>4 DEF AddCfgFails
  <2> QED
    BY <2>1, AllocateIsLoad DEF Bag!Next
<1>5. ASSUME NEW p \in Pids, Remove(p)
      PROVE  [Bag!Next]_(Bag!bagVars)
  <2>1. inited /\ inited' /\ Room' = Room + 1
    BY <1>5, NumSlotsAssumption DEF Remove, Room, TypeOK
  <2>2. Copies[p] > 0
    BY <1>5, <2>1, SlotsOfFinite DEF Remove, Copies
  <2>3. Copies' = [Copies EXCEPT ![p] = @ - 1]
    <3>1. ASSUME NEW q \in Pids
          PROVE  Copies'[q] = [Copies EXCEPT ![p] = @ - 1][q]
      BY <1>5, <2>1, RemoveCopies, SlotsOfFinite DEF Copies
    <3> QED
      BY <3>1 DEF Copies
  <2>4. Bag!Unload(p)
    BY <2>1, <2>2, <2>3 DEF Bag!Unload, Copies, Room
  <2> QED
    BY <2>4 DEF Bag!Next
<1>6. CASE RemoveAll
  <2>1. Copies' = [p \in Pids |-> 0]
    BY <1>6, NoCopies DEF RemoveAll
  <2>2. inited /\ inited' /\ Room' = NumSlots
    BY <1>6, NumSlotsAssumption DEF RemoveAll, Room
  <2>3. Bag!UnloadAll
    BY <2>1, <2>2 DEF Bag!UnloadAll, Bag!Empty, Copies, Room
  <2> QED
    BY <2>3 DEF Bag!Next
<1>7. CASE Release
  <2>1. inited /\ ~inited'
    BY <1>7 DEF Release
  <2>2. Copies' = [p \in Pids |-> 0] /\ Room' = NumSlots
    BY <2>1 DEF Copies, Room
  <2>3. Bag!Close
    BY <2>1, <2>2 DEF Bag!Close, Bag!Empty, Copies, Room
  <2> QED
    BY <2>3 DEF Bag!Next
<1>8. CASE UNCHANGED vars
  BY <1>8 DEF vars, Bag!bagVars, SlotsOf
<1> QED
  BY <1>1, <1>2, <1>3, <1>4, <1>5, <1>6, <1>7, <1>8 DEF Next

\* For callers that do not overlap, the filter is a bag of PIDs with room for
\* NumSlots copies: PidFilter implements PidBag, device failures included.
THEOREM FilterImplementsBag == Spec => ImplementsBag
<1>1. Init => Bag!Init
  BY DEF Init, Bag!Init, Bag!Empty
<1>2. TypeOK /\ TableConsistent /\ [Next]_vars => [Bag!Next]_(Bag!bagVars)
  BY NextIsBagStep
<1> QED
  BY <1>1, <1>2, TypeCorrect, TableAlwaysConsistent, PTL
  DEF Spec, ImplementsBag, Bag!Spec
=============================================================================
