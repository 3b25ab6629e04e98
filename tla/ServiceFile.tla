---------------------------- MODULE ServiceFile -----------------------------
(***************************************************************************)
(* The file of stations (service_management.cpp) and the lists read from   *)
(* it: the list the viewer zaps through (dtv's service_manager) and the    *)
(* list of the station manager window, which has a service_manager of its  *)
(* own.  The window's list is the linked list of ServiceList, so that its  *)
(* edits are made on nodes; the viewer's list is the sequence ServiceList  *)
(* implements.                                                             *)
(*                                                                         *)
(* The file is a count followed by records.  Writes reach it in the order  *)
(* of the fwrite calls; a crash (the watchdog's reset, a kill, the power)  *)
(* comes between any two of them.  stdio writes whole blocks, so what a    *)
(* crash leaves is a prefix of these writes; the model lets it fall        *)
(* between two records, not inside one.                                    *)
(***************************************************************************)
EXTENDS ServiceList, StationLists, SequencesExt, FiniteSetsExt

CONSTANTS
    Stations,       \* all services of the multiplexes
    Loadable,       \* those whose type load_services_from_file accepts
    Multiplexes,    \* what a scan of one frequency finds: sequences of stations
    MaxRecords,     \* bound: no save that would let the file grow further
    MaxRewrites     \* bound: number of edits and rewrites

ASSUME LoadableAssumption == Loadable \subseteq Stations
\* The SDT of a multiplex lists a service once.
ASSUME MultiplexAssumption ==
    \A m \in Multiplexes :
        /\ m \in Seq(Stations) /\ m # <<>>
        /\ \A i, j \in DOMAIN m : m[i] = m[j] => i = j
ASSUME NodesAssumption == Nodes = 1 .. Cardinality(Nodes)

VARIABLES
    file,       \* NoFile, or the count and the records on disk
    data,       \* the service a node of the window's list carries
    shown,      \* dtv's user_service_list
    window,     \* the station manager window: "closed" or "open"
    scanning,   \* an automatic scan has saved stations and not reloaded yet
    job,        \* the work on the file that is under way
    cut,        \* history: a crash cut an append, or left a file with no count
    rewrites    \* bounded by MaxRewrites

fileVars == <<file, data, shown, window, scanning, job, cut, rewrites>>
allVars == <<vars, fileVars>>

Record == [id : Stations, visible : BOOLEAN]
LoadableRecord == [id : Loadable, visible : BOOLEAN]

\* A file without a count is one that was opened with "wb+" and never written.
\* "shifted": records were then written where the count belongs, and the count
\* over the first of them, so that every field is read from the wrong place.
NoFile == [count |-> 0, recs |-> <<>>, there |-> FALSE, empty |-> FALSE, shifted |-> FALSE]
EmptyFile == [NoFile EXCEPT !.there = TRUE, !.empty = TRUE]
NewFile == [NoFile EXCEPT !.there = TRUE]

File == [count : Nat, recs : Seq(Record), there : BOOLEAN, empty : BOOLEAN, shifted : BOOLEAN]

\* todo: records still to write; all: all of them; at: where the next one goes,
\* or is read; cnt: the count that was read; reload: read the viewer's list again.
Idle == [op |-> "idle", todo |-> <<>>, all |-> <<>>, at |-> 0, cnt |-> 0, reload |-> FALSE]

Working == {"idle", "append", "create", "count", "records", "load"}

\* The records the count covers.
Counted(f) == [i \in DOMAIN f.recs \cap 1 .. f.count |-> f.recs[i]]

\* load_services_from_file with skip_visible_check: the counted records, without
\* those of a type it does not accept; past the end of the file fread fails and
\* the zeroed service is dropped for its type.
Listed(f) ==
    IF f.shifted \/ f.empty THEN <<>>
    ELSE Selected(Counted(f), LoadableRecord)

\* The same without skip_visible_check: the viewer's list.
ListedVisible(f) == Visible(Listed(f))

\* The window's list as the sequence get_from_list counts off.
Edited == [i \in DOMAIN Path(list_head) |-> data[Path(list_head)[i]]]

FileTypeOK ==
    /\ TypeOK
    /\ file \in File
    /\ DOMAIN data = Live
    /\ \A n \in Live : data[n] \in Record
    /\ shown \in Seq(Record)
    /\ window \in {"closed", "open"}
    /\ scanning \in BOOLEAN
    /\ job.op \in Working
    /\ job.todo \in Seq(Record) /\ job.all \in Seq(Record)
    /\ job.at \in Nat /\ job.cnt \in Nat /\ job.reload \in BOOLEAN
    /\ cut \in BOOLEAN
    /\ rewrites \in 0 .. MaxRewrites

FileInit ==
    /\ Init
    /\ file = NoFile
    /\ data = [n \in {} |-> NoFile]
    /\ shown = <<>>
    /\ window = "closed"
    /\ scanning = FALSE
    /\ job = Idle
    /\ cut = FALSE
    /\ rewrites = 0

(***************************************************************************)
(* Saving what a scan found: save_services2file.                           *)
(***************************************************************************)

\* Faulty: nothing is looked for in the file.
EveryFound(m) == [i \in DOMAIN m |-> [id |-> m[i], visible |-> TRUE]]

\* A multiplex as records, without the stations that are in the temporary list
\* loaded from the file; there is no such list when the count read is 0.
NotYetSaved(m) ==
    LET old == IF file.count = 0 THEN <<>> ELSE Listed(file)
        new == Selected(m, Stations \ Ids(old))
    IN  [i \in DOMAIN new |-> [id |-> new[i], visible |-> TRUE]]

\* DTV_Save_Scan up to the first record: the file is opened, or created with a
\* count of 0.  "at" is where the first record goes: to the end after fseek,
\* but right behind the count when that is 0.
SaveScan(m) ==
    /\ job.op = "idle" /\ window = "closed"
    /\ Len(file.recs) + Len(m) <= MaxRecords
    /\ file' = IF file.there THEN file ELSE NewFile
    /\ job' = [Idle EXCEPT !.op = "append", !.todo = NotYetSaved(m), !.all = NotYetSaved(m),
                           !.at = IF file.count = 0 THEN 1 ELSE Len(file.recs) + 1,
                           !.cnt = file.count]
    /\ UNCHANGED <<vars, data, shown, window, scanning, cut, rewrites>>

\* fopen fails twice: nothing is saved, and only the automatic scan reloads the list
\* all the same, at its end.
SaveScanRefused(automatic) ==
    /\ job.op = "idle" /\ window = "closed"
    /\ scanning' = (scanning \/ automatic)
    /\ UNCHANGED <<vars, file, data, shown, window, job, cut, rewrites>>

PutAt(s, i, r) == IF i > Len(s) THEN Append(s, r) ELSE [s EXCEPT ![i] = r]

AppendRecord ==
    /\ job.op = "append" /\ job.todo # <<>>
    /\ file' = [file EXCEPT !.recs = PutAt(@, job.at, Head(job.todo)),
                            !.shifted = @ \/ file.empty,
                            !.empty = FALSE,
                            !.count = IF file.empty THEN 1 ELSE @]
    /\ job' = [job EXCEPT !.todo = Tail(@), !.at = @ + 1]
    /\ UNCHANGED <<vars, data, shown, window, scanning, cut, rewrites>>

\* Faulty: the count is written as read.
AppendOldCount(reload) ==
    /\ job.op = "append" /\ job.todo = <<>>
    /\ file' = [file EXCEPT !.count = job.cnt, !.empty = FALSE]
    /\ shown' = IF reload THEN ListedVisible(file') ELSE shown
    /\ scanning' = ~reload
    /\ job' = Idle
    /\ UNCHANGED <<vars, data, window, cut, rewrites>>

\* The new count over the old one; then DTV_Save_Scan(true), the manual scan,
\* reads the viewer's list again; the automatic scan leaves that for its end.
AppendCount(reload) ==
    /\ job.op = "append" /\ job.todo = <<>>
    /\ file' = [file EXCEPT !.count = job.cnt + Len(job.all), !.empty = FALSE]
    /\ shown' = IF reload THEN ListedVisible(file') ELSE shown
    /\ scanning' = ~reload
    /\ job' = Idle
    /\ UNCHANGED <<vars, data, window, cut, rewrites>>

\* The end of an automatic scan: UpdateChannelsNumber reloads the list.
ScanEnd ==
    /\ scanning /\ job.op = "idle"
    /\ shown' = ListedVisible(file)
    /\ scanning' = FALSE
    /\ UNCHANGED <<vars, file, data, window, job, cut, rewrites>>

(***************************************************************************)
(* Rewriting the file: services_update.                                    *)
(***************************************************************************)

\* The list to write, and remove(): a crash before it finds the disk as it was.
Rewrite(list, reload) ==
    /\ file' = NoFile
    /\ job' = [Idle EXCEPT !.op = "create", !.todo = list, !.all = list, !.reload = reload]

\* The bound on edits.
CountEdit == rewrites < MaxRewrites /\ rewrites' = rewrites + 1

RewriteCreate ==
    /\ job.op = "create"
    /\ file' = EmptyFile
    /\ job' = [job EXCEPT !.op = "count"]
    /\ UNCHANGED <<vars, data, shown, window, scanning, cut, rewrites>>

\* fopen fails: services_update returns with the file removed, and who called it
\* goes on as if it had been written.
RewriteRefused ==
    /\ job.op = "create"
    /\ shown' = IF job.reload THEN ListedVisible(file) ELSE shown
    /\ job' = Idle
    /\ UNCHANGED <<vars, file, data, window, scanning, cut, rewrites>>

RewriteCount ==
    /\ job.op = "count"
    /\ file' = [NewFile EXCEPT !.count = Len(job.all)]
    /\ job' = [job EXCEPT !.op = "records"]
    /\ UNCHANGED <<vars, data, shown, window, scanning, cut, rewrites>>

RewriteRecord ==
    /\ job.op = "records" /\ job.todo # <<>>
    /\ file' = [file EXCEPT !.recs = Append(@, Head(job.todo))]
    /\ job' = [job EXCEPT !.todo = Tail(@)]
    /\ UNCHANGED <<vars, data, shown, window, scanning, cut, rewrites>>

\* The end of a rewrite; DTV_Service_Select frees and reloads the viewer's list.
RewriteEnd ==
    /\ job.op = "records" /\ job.todo = <<>>
    /\ shown' = IF job.reload THEN ListedVisible(file) ELSE shown
    /\ job' = Idle
    /\ UNCHANGED <<vars, file, data, window, scanning, cut, rewrites>>

\* DTV_Service_Select after the player found other PIDs in the stream than the
\* list has: UpdateServices writes the viewer's list.
SelectUpdatesPids ==
    /\ job.op = "idle" /\ ~scanning /\ shown # <<>>
    /\ CountEdit
    /\ Rewrite(shown, TRUE)
    /\ UNCHANGED <<vars, data, shown, window, scanning, cut>>

(***************************************************************************)
(* The station manager window (QTvServiceManager): reads all stations,     *)
(* stores every edit at once.  Its menu entry is commented out at this     *)
(* commit; the window and the library calls are compiled.                  *)
(***************************************************************************)

\* The constructor: nothing to show when load_services_from_file returns 1.
WindowOpen ==
    /\ job.op = "idle" /\ window = "closed" /\ ~scanning
    /\ file.count > 0
    /\ job' = [Idle EXCEPT !.op = "load", !.at = 1]
    /\ UNCHANGED <<vars, file, data, shown, window, scanning, cut, rewrites>>

\* One turn of the loop of load_services_from_file: the record is read, and
\* put at the end of the list unless its type is not accepted or it is not there.
\* "new" takes the lowest free address; there is one, by the bound on records.
LoadRecord ==
    /\ job.op = "load" /\ job.at <= file.count
    /\ job' = [job EXCEPT !.at = @ + 1]
    /\ IF ~file.shifted /\ job.at <= Len(file.recs) /\ file.recs[job.at].id \in Loadable
       THEN /\ Live # Nodes
            /\ LET n == Min(Nodes \ Live) IN
               /\ add_to_list(n)
               /\ data' = Linked(data, n, file.recs[job.at])
       ELSE UNCHANGED <<vars, data>>
    /\ UNCHANGED <<file, shown, window, scanning, cut, rewrites>>

WindowShown ==
    /\ job.op = "load" /\ job.at > file.count
    /\ window' = "open"
    /\ job' = Idle
    /\ UNCHANGED <<vars, file, data, shown, scanning, cut, rewrites>>

Key == job.op = "idle" /\ window = "open"

\* DTV_Service_Movedown and Moveup: the list is rewritten when it was changed.
WindowMove(idx) ==
    /\ Key /\ CountEdit
    /\ KeyDown(idx) \/ KeyUp(idx)
    /\ UNCHANGED <<data, shown, window, scanning, cut>>
    /\ Rewrite(Edited', FALSE)

\* DTV_Service_enable_disable.
WindowEnable(idx, enable) ==
    /\ Key /\ CountEdit /\ idx < list_cnt
    /\ LET n == Path(list_head)[idx + 1] IN
       /\ data[n].visible # enable
       /\ data' = [data EXCEPT ![n].visible = enable]
    /\ UNCHANGED <<vars, shown, window, scanning, cut>>
    /\ Rewrite(Edited', FALSE)

\* Service_Delete and ServiceRemoveFromList (no caller at this commit): the
\* second one leaves the file as it is.
ServiceRemove(idx, store) ==
    /\ Key /\ CountEdit /\ idx < list_cnt
    /\ remove_nth_node(idx)
    /\ data' = [n \in Live' |-> data[n]]
    /\ IF store THEN Rewrite(Edited', FALSE) ELSE UNCHANGED <<file, job>>
    /\ UNCHANGED <<shown, window, scanning, cut>>

\* EXIT or MENU: play_ctrl::UpdateChannelsNumber(true) reloads the viewer's list.
WindowExit ==
    /\ Key
    /\ shown' = ListedVisible(file)
    /\ destroy_list
    /\ data' = [n \in Live' |-> data[n]]
    /\ window' = "closed"
    /\ UNCHANGED <<file, scanning, job, cut, rewrites>>

(***************************************************************************)
(* A crash, and the restart: DTV_Init loads the viewer's list.             *)
(***************************************************************************)
CrashRestart ==
    /\ list_head' = NULL /\ list_end' = NULL /\ list_cnt' = 0
    /\ next' = [n \in {} |-> NULL] /\ filling' = TRUE
    /\ UNCHANGED badAccess
    /\ data' = [n \in {} |-> NoFile]
    /\ shown' = ListedVisible(file)
    /\ window' = "closed" /\ scanning' = FALSE
    /\ job' = Idle
    /\ cut' = (cut \/ job.op = "append" \/ file.empty)
    /\ UNCHANGED <<file, rewrites>>

FileNext ==
    \/ \E m \in Multiplexes : SaveScan(m)
    \/ AppendRecord
    \/ \E b \in BOOLEAN : AppendCount(b) \/ SaveScanRefused(b)
    \/ ScanEnd
    \/ RewriteCreate \/ RewriteRefused \/ RewriteCount \/ RewriteRecord \/ RewriteEnd
    \/ SelectUpdatesPids
    \/ WindowOpen \/ LoadRecord \/ WindowShown \/ WindowExit
    \/ \E idx \in 0 .. Cardinality(Nodes) - 1 :
          \/ WindowMove(idx)
          \/ \E b \in BOOLEAN : WindowEnable(idx, b) \/ ServiceRemove(idx, b)
    \/ CrashRestart

FileSpec == FileInit /\ [][FileNext]_allVars

-----------------------------------------------------------------------------
(***************************************************************************)
(* Properties.                                                             *)
(***************************************************************************)

\* What DTV_Save_Scan has saved is there for the next load, and nothing that was
\* there before is pushed out, as long as no crash has cut an append
\* (service_management.cpp:75-192, 240-336).
SavedIsListed ==
    [][job.op = "append" /\ job'.op = "idle" /\ ~cut' =>
          Ids(Listed(file)) \cup (Ids(job.all) \cap Loadable) \subseteq Ids(Listed(file'))]_allVars

Rewriting == job.op \in {"create", "count", "records"}

Store ==
    INSTANCE StationStore WITH
        store <- IF Rewriting THEN job.all ELSE Listed(file),
        edited <- IF window = "open" THEN Edited ELSE <<>>

\* The file and the lists implement the store of stations: saves only add and
\* list nothing twice, an edit stores the edited list, a crash costs at most the
\* end of the list being written, and a rewrite whose file cannot be created costs
\* all of it, for services_update has removed the old one (service_management.cpp:46-601).
ImplementsStore == Store!Spec
=============================================================================
