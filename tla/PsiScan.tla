------------------------------ MODULE PsiScan -------------------------------
(***************************************************************************)
(* One scan of a frequency: dtv::DTV_Scan with get_data_from_network (the  *)
(* SDT and the PAT, read side by side from one stream),                    *)
(* dvb_pmt_data::find_pmt_for_services (the PMT of each service, in turn)  *)
(* and the loop that drops the services that cannot be played.             *)
(*                                                                         *)
(* The SDT and the PAT are followed packet by packet, for the two readers  *)
(* of find_section_live2 share the stream: a packet that one of them takes *)
(* is lost to the other.  A PMT is followed section by section.  The SDT   *)
(* lists services of a television type that are not coded; the parser      *)
(* passes over the others.  A PID is never loaded twice here, so that the  *)
(* filter (module PidFilter) is the set of its PIDs.                       *)
(***************************************************************************)
EXTENDS SequencesExt, FiniteSetsExt

CONSTANTS
    Services,     \* service ids
    Muxes,        \* the multiplexes a frequency may carry
    PmtPids,      \* PIDs of PMTs
    PatPid,       \* PID_PAT, 0
    SdtPid,       \* PID_SDT, 0x11
    SdtLen,       \* packets of one SDT section
    CcMod,        \* modulus of the continuity counter: 16
    MaxLoss,      \* bound: SDT packets in a row that its reader does not get
    NoList        \* the NULL DTV_Scan returns

\* sdt: the services in the order of the SDT; pmt: the PID the PAT gives a
\* service, PatPid when it is not in the PAT; streams: what its PMT lists;
\* garbled: the PIDs whose PMTs come with a wrong CRC or are refused by the parser.
ASSUME MuxAssumption ==
    \A m \in Muxes :
        /\ m.sdt \in Seq(Services)
        /\ m.pmt \in [Services -> PmtPids \cup {PatPid}]
        /\ m.streams \in [Services -> Seq({"audio", "video"})]
        /\ m.garbled \subseteq PmtPids
ASSUME PidAssumption == SdtPid # PatPid /\ {SdtPid, PatPid} \cap PmtPids = {}
\* Missing CcMod packets cannot be told from missing none, nor CcMod - 1 from a
\* packet sent twice, which the counter's check lets pass.
ASSUME LossAssumption ==
    /\ SdtLen \in Nat \ {0} /\ {CcMod, MaxLoss} \subseteq Nat
    /\ MaxLoss < CcMod - 1 /\ CcMod > SdtLen

VARIABLES
    mux,          \* the multiplex on the frequency tuned to
    phase,        \* where DTV_Scan is
    is_scanning,
    filter,       \* the PIDs in the TSI filter
    turn,         \* get_data_from_network: the reader that is called next
    find_pat, find_sdt,
    retry,        \* pat_find_retry_cnt
    air,          \* broadcast on PID_SDT: the next packet, whose SDT it belongs to,
                  \* and how many its reader has missed since its last one
    sdt,          \* the SDT reader: counter expected, packets gathered, whose SDT
    list,         \* my_multiplex->service_list
    j,            \* find_pmt_for_services: the service; the loop: its index i
    got_error,
    result        \* what the last DTV_Scan returned

vars == <<mux, phase, is_scanning, filter, turn, find_pat, find_sdt, retry, air,
          sdt, list, j, got_error, result>>
psiVars == <<mux, turn, find_pat, find_sdt, retry, air, sdt>>

Phases == {"idle", "psi", "pmt", "section", "filter"}
None == CcMod
Fresh == [expect |-> None, parts |-> <<>>, table |-> "actual"]
Part(n) == n % SdtLen

\* pids: one entry per stream, in the order they were added.
Entry(s) == [id |-> s, pmt |-> PatPid, pids |-> <<>>, scan_error |-> FALSE]
Audio(s) == \E i \in DOMAIN s.pids : s.pids[i] = "audio"
Video(s) == \E i \in DOMAIN s.pids : s.pids[i] = "video"

TypeOK ==
    /\ mux \in Muxes
    /\ phase \in Phases
    /\ is_scanning \in BOOLEAN
    /\ filter \subseteq PmtPids \cup {PatPid, SdtPid}
    /\ turn \in {"pat", "sdt"}
    /\ find_pat \in BOOLEAN /\ find_sdt \in BOOLEAN
    /\ retry \in 0 .. 3
    /\ air \in [pos : 0 .. (SdtLen * CcMod) - 1, table : {"actual", "other"},
               missed : 0 .. MaxLoss]
    /\ sdt.expect \in 0 .. None
    /\ sdt.parts \in BoundedSeq(0 .. SdtLen - 1, SdtLen)
    /\ sdt.table \in {"actual", "other"}
    /\ \A i \in DOMAIN list : list[i].id \in Services
    /\ j \in 0 .. Len(list)
    /\ got_error \in BOOLEAN
    /\ result = NoList \/ result = list

Init ==
    /\ mux \in Muxes
    /\ phase = "idle" /\ is_scanning = FALSE /\ filter = {}
    /\ turn = "pat" /\ find_pat = FALSE /\ find_sdt = FALSE /\ retry = 3
    /\ air = [pos |-> 0, table |-> "actual", missed |-> 0] /\ sdt = Fresh
    /\ list = <<>> /\ j = 0 /\ got_error = FALSE /\ result = NoList

-----------------------------------------------------------------------------
\* DTV_Scan when HW_Lock gets the signal: the list of the scan before is
\* cleared, and get_data_from_network loads its two PIDs.
Start ==
    /\ phase = "idle" /\ ~is_scanning
    /\ mux' \in Muxes
    /\ is_scanning' = TRUE /\ phase' = "psi"
    /\ filter' = {SdtPid, PatPid}
    /\ turn' = "pat" /\ find_pat' = FALSE /\ find_sdt' = FALSE /\ retry' = 3
    /\ sdt' = Fresh /\ air' = [air EXCEPT !.missed = 0]
    /\ list' = <<>> /\ j' = 0 /\ got_error' = FALSE /\ result' = NoList

\* ... and when there is none.
NoSignal ==
    /\ phase = "idle" /\ ~is_scanning
    /\ filter' = {} /\ list' = <<>> /\ j' = 0 /\ result' = NoList
    /\ UNCHANGED <<phase, is_scanning, got_error, psiVars>>

\* A failed scan: the list is emptied and NULL returned.
Fail(pids) ==
    /\ phase' = "idle" /\ is_scanning' = FALSE
    /\ filter' = pids
    /\ list' = <<>> /\ j' = 0 /\ result' = NoList

\* Faulty: the timeout gives back the PAT's PID only, as find_sdt does.
PsiFailsKeepsSdt ==
    /\ Fail(filter \ {PatPid})
    /\ UNCHANGED <<got_error, psiVars>>

\* Six seconds passed, a section did not parse, or a fourth PAT had a wrong CRC.
PsiFails ==
    /\ Fail(filter \ {SdtPid, PatPid})
    /\ UNCHANGED <<got_error, psiVars>>

PsiTimeout == phase = "psi" /\ PsiFails

\* A reader is not called any more once it has its section.
OtherTurn == IF turn = "pat" THEN "sdt" ELSE "pat"
Called == IF turn = "pat" THEN ~find_pat ELSE ~find_sdt
psiRest == <<mux, phase, is_scanning, list, j, got_error, result>>
PsiRead == phase = "psi" /\ Called /\ ~(find_pat /\ find_sdt)
PsiSkip ==
    /\ phase = "psi" /\ ~Called /\ ~(find_pat /\ find_sdt)
    /\ turn' = OtherTurn
    /\ UNCHANGED <<psiRest, filter, find_pat, find_sdt, retry, air, sdt>>

\* The next packet is a PAT: its reader has a section, the other drops it.
PatPacket ==
    /\ PsiRead /\ PatPid \in filter
    /\ turn' = OtherTurn
    /\ IF turn = "pat"
       THEN find_pat' = TRUE /\ filter' = filter \ {PatPid}
       ELSE UNCHANGED <<find_pat, filter>>
    /\ UNCHANGED <<find_sdt, retry, air, sdt, psiRest>>

\* A PAT with a wrong CRC; the counter is tested before it is decremented.
PatCrcError ==
    /\ PsiRead /\ turn = "pat" /\ PatPid \in filter
    /\ IF retry = 0
       THEN PsiFails
       ELSE /\ retry' = retry - 1 /\ turn' = OtherTurn
            /\ UNCHANGED <<filter, find_pat, find_sdt, air, sdt, psiRest>>

\* Faulty: a break in the counter does not make the reader start again.
GatheredOver(n) ==
    LET p == Part(n)
    IN  IF p = 0 THEN <<0>>
        ELSE IF sdt.parts = <<>> THEN <<>>
        ELSE Append(sdt.parts, p)

\* What find_section_live2 holds after packet n.  A break in the counter drops
\* what was gathered, and the packet with it; the rest of a section whose start
\* was missed is passed over.
Gathered(n) ==
    LET p == Part(n)
    IN  IF sdt.expect \notin {None, n % CcMod} THEN <<>>
        ELSE IF p = 0 THEN <<0>>
        ELSE IF sdt.parts = <<>> THEN <<>>
        ELSE Append(sdt.parts, p)

Expected(n) ==
    IF sdt.expect \in {None, n % CcMod} THEN (n + 1) % CcMod ELSE None

\* A packet of PID_SDT, after "lost" ones that never came.  The PID carries the
\* SDT of this multiplex and those of others, section after section; the CRC of
\* the section is not looked at.
SdtPacket(lost, table) ==
    /\ PsiRead /\ SdtPid \in filter
    /\ LET n == (air.pos + lost) % (SdtLen * CcMod)
           whole == Len(Gathered(n)) = SdtLen
           missed == air.missed + lost + (IF turn = "pat" THEN 1 ELSE 0)
       IN  /\ missed <= MaxLoss
           /\ table # air.table => \E k \in 0 .. lost : Part(air.pos + k) = 0
           /\ air' = [pos |-> (n + 1) % (SdtLen * CcMod), table |-> table,
                      missed |-> IF turn = "pat" THEN missed ELSE 0]
           /\ IF turn = "pat"
              THEN UNCHANGED <<filter, sdt, find_sdt>>
              ELSE /\ sdt' = [expect |-> Expected(n), parts |-> Gathered(n),
                              table |-> table]
                   /\ find_sdt' = whole
                   /\ filter' = IF whole THEN filter \ {SdtPid} ELSE filter
    /\ turn' = OtherTurn
    /\ UNCHANGED <<find_pat, retry, psiRest>>

\* tsi_fill_buffer has nothing within its 100 ms.
NoPacket ==
    /\ PsiRead
    /\ turn' = OtherTurn
    /\ UNCHANGED <<filter, find_pat, find_sdt, retry, air, sdt, psiRest>>

\* Both sections are there: the SDT of this multiplex makes the list, that of
\* another none; the PAT gives each service the PID of its PMT.
PsiParse ==
    /\ phase = "psi" /\ find_pat /\ find_sdt
    /\ list' = IF sdt.table = "other" THEN <<>>
               ELSE [i \in DOMAIN mux.sdt |->
                       [Entry(mux.sdt[i]) EXCEPT !.pmt = mux.pmt[mux.sdt[i]]]]
    /\ phase' = "pmt"
    /\ filter' = filter \ {SdtPid, PatPid}
    /\ UNCHANGED <<is_scanning, psiVars, j, got_error, result>>

PsiParseFails == phase = "psi" /\ find_pat /\ find_sdt /\ PsiFails

-----------------------------------------------------------------------------
\* find_pmt_for_services, at the head of its loop.
PmtAbandon ==
    /\ phase = "pmt" /\ j < Len(list) /\ got_error
    /\ Fail({})
    /\ UNCHANGED <<got_error, psiVars>>

PmtBegin ==
    /\ phase = "pmt" /\ j < Len(list) /\ ~got_error
    /\ filter' = filter \cup {list[j + 1].pmt}
    /\ phase' = "section"
    /\ UNCHANGED <<is_scanning, psiVars, list, j, got_error, result>>

\* After the last service.  An error of that one is never seen at the head.
PmtDone ==
    /\ phase = "pmt" /\ j >= Len(list)
    /\ filter' = {}
    /\ IF list = <<>>
       THEN /\ phase' = "idle" /\ is_scanning' = FALSE
            /\ j' = 0 /\ UNCHANGED <<list, result>>
       ELSE /\ phase' = "filter" /\ j' = 0
            /\ UNCHANGED <<is_scanning, list, result>>
    /\ UNCHANGED <<psiVars, got_error>>

WithStreams(i, s) == list' = [list EXCEPT ![i].pids = @ \o mux.streams[s]]

\* Faulty: the program number is not compared.
PmtParsedFirst(s) == WithStreams(1, s)

\* What parse_section does with the PMT of service s: the first entry of the
\* list with its program number gets the streams, whichever was asked for.
PmtParsed(s) ==
    \/ (\A i \in DOMAIN list : list[i].id # s) /\ UNCHANGED list
    \/ \E i \in DOMAIN list :
          /\ list[i].id = s /\ \A k \in 1 .. i - 1 : list[k].id # s
          /\ WithStreams(i, s)

\* A section whose CRC is wrong, or one that parse_section refuses: the buffer is
\* emptied and the loop goes round with three new seconds.  Nothing counts the
\* rounds, and only the end of the loop takes the PID out of the filter.
PmtCrcError == phase = "section" /\ UNCHANGED vars
PmtRefused ==
    /\ phase = "section" /\ list[j + 1].pmt \in mux.garbled
    /\ UNCHANGED vars

\* A section with a good CRC that parses, on the PID asked for; PID 0 carries the
\* PAT again, which is parsed and adds nothing.
PmtSection ==
    /\ phase = "section" /\ list[j + 1].pmt \notin mux.garbled
    /\ \/ list[j + 1].pmt = PatPid /\ UNCHANGED list
       \/ \E s \in Services : mux.pmt[s] = list[j + 1].pmt /\ mux.pmt[s] # PatPid
                              /\ PmtParsed(s)
    /\ filter' = filter \ {list[j + 1].pmt}
    /\ phase' = "pmt" /\ j' = j + 1
    /\ UNCHANGED <<is_scanning, psiVars, got_error, result>>

\* Faulty: a service whose PMT does not come is asked for again.
PmtTimeoutAgain ==
    /\ phase = "section" /\ phase' = "pmt"
    /\ UNCHANGED <<is_scanning, filter, psiVars, list, j, got_error, result>>

\* No section for three seconds; the PID stays in the filter for now.
PmtTimeout ==
    /\ phase = "section"
    /\ list' = [list EXCEPT ![j + 1].scan_error = TRUE]
    /\ got_error' = TRUE
    /\ phase' = "pmt" /\ j' = j + 1
    /\ UNCHANGED <<is_scanning, filter, psiVars, result>>

-----------------------------------------------------------------------------
\* remove_nth_node: nothing when there is no such node.
Without(l, i) == IF i < Len(l) THEN RemoveAt(l, i + 1) ELSE l

\* Faulty: the loop goes on behind the place of the removed service.
AfterRemovalSkips == j + 1

\* Where the loop goes on after removals: i is set to 0 and then incremented.
AfterRemoval == 1

\* One turn of the loop over the services found.  A service whose PMT failed is
\* removed and freed; the test that follows still reads it, and may remove the
\* service that is now first.
KeepOrDrop ==
    /\ phase = "filter" /\ j < Len(list)
    /\ LET s == list[j + 1]
           once == Without(list, j)
       IN  CASE s.scan_error ->
                   /\ list' \in {once, Without(once, 0)}
                   /\ j' = Min({AfterRemoval, Len(list')})
             [] ~s.scan_error /\ Audio(s) /\ Video(s) ->
                   j' = j + 1 /\ UNCHANGED list
             [] OTHER ->
                   list' = once /\ j' = Min({AfterRemoval, Len(once)})
    /\ UNCHANGED <<phase, is_scanning, filter, psiVars, got_error, result>>

\* The end of the loop.  An empty list is returned as NULL.
Return ==
    /\ phase = "filter" /\ j >= Len(list)
    /\ phase' = "idle" /\ is_scanning' = FALSE
    /\ result' = IF list = <<>> THEN NoList ELSE list
    /\ UNCHANGED <<filter, psiVars, list, j, got_error>>

Step ==
    \/ PsiTimeout \/ PsiSkip \/ PatPacket \/ PatCrcError \/ NoPacket
    \/ \E lost \in 0 .. MaxLoss, table \in {"actual", "other"} : SdtPacket(lost, table)
    \/ PsiParse \/ PsiParseFails
    \/ PmtAbandon \/ PmtBegin \/ PmtDone \/ PmtCrcError \/ PmtRefused
    \/ PmtSection \/ PmtTimeout
    \/ KeepOrDrop \/ Return

Next == Start \/ NoSignal \/ Step

\* The six seconds of get_data_from_network pass whatever arrives.  The three of
\* a PMT do not: they start anew after each section read in vain.  So the read ends,
\* with a section or the timeout, only where no PMT is garbled for ever.
ReadsGarbled == phase = "section" /\ list[j + 1].pmt \in mux.garbled
Spec ==
    /\ Init /\ [][Next]_vars
    /\ WF_vars(PsiTimeout)
    /\ WF_vars(PmtAbandon \/ PmtBegin \/ PmtDone)
    /\ WF_vars(~ReadsGarbled /\ (PmtSection \/ PmtTimeout))
    /\ WF_vars(KeepOrDrop \/ Return)

-----------------------------------------------------------------------------
\* When no scan runs, no PID of one is left in the filter, whichever way the
\* last one ended: the four exits of DTV_Scan and those below it.
FilterClean == phase = "idle" => filter = {}

\* The section parsed as the SDT was sent as one section, though another reader
\* takes packets from the same stream and packets get lost.
SdtWhole == find_sdt => sdt.parts = [i \in 1 .. SdtLen |-> i - 1]

\* A scan ends, and DTV_Scan can be called again, unless it comes to a service on
\* whose PID nothing but garbled PMTs is broadcast: there the while(1) of
\* find_pmt_for_services (dvb_pmt_data.cpp:106-149) has no limit, and the scan may
\* stay in it for ever.  Everything before and behind that loop has one.
ScanEnds == is_scanning ~> (~is_scanning \/ ReadsGarbled)

Alone(s) ==
    mux.pmt[s] # PatPid /\ \A t \in Services \ {s} : mux.pmt[t] # mux.pmt[s]

\* The loop over the services has ended: Return hands the list on.
LoopOver == phase = "filter" /\ j >= Len(list)

\* Services of the SDT that can be played by what is broadcast, on a PID of their
\* own, and are not in the list.
Missing ==
    {s \in Range(mux.sdt) :
        /\ Alone(s) /\ {"audio", "video"} \subseteq Range(mux.streams[s])
        /\ \A i \in DOMAIN list : list[i].id # s}

\* When every PMT came, none is missing.  When the last one did not, its service is,
\* and at most one more, removed when dtv_core.cpp:388 reads the service just freed.
PlayableKept ==
    LoopOver =>
        /\ ~got_error => Missing = {}
        /\ got_error => \A s, t \in Missing \ {Last(mux.sdt)} : s = t

\* All services in the list but the first have audio and video: the loop checks
\* each again after a removal, and index 0 is the one it skips.
RestPlayable == LoopOver => \A i \in 2 .. Len(list) : Audio(list[i]) /\ Video(list[i])

\* The loop over the services (dtv_core.cpp:346-411) takes no service that can be
\* played out of the list, whatever removals it went through, except, once the last
\* PMT timed out, that service and one other; and it leaves none in it that cannot
\* be played, except the first.
PlayableList == PlayableKept /\ RestPlayable
=============================================================================
