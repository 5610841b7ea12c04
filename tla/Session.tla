------------------------------ MODULE Session ------------------------------
(***************************************************************************)
(* Runs of the dc2uddf program, src/src/dc2uddf.c: a live download from a  *)
(* dive computer (dowork, dive_cb) or the replay of a dump saved earlier   *)
(* (doreplay), the UDDF file they leave (process_and_save), and the two    *)
(* things that interrupt them, SIGINT and the death of the process.        *)
(*                                                                         *)
(* What survives a run is the computer's memory (log), the dump file and   *)
(* the output file.  A dive record is the facts dive_cb and doparse tell   *)
(* apart: its size, how far it can be parsed (kind) and its date.  What is *)
(* inside a dive, and what the algorithms of process_and_save do to it, is *)
(* the subject of DiveAlgos; here a saved dive is the record it came from. *)
(***************************************************************************)
EXTENDS Integers, Sequences, SequencesExt

CONSTANTS
    HeaderSize, NoMagic,    \* of DumpFile
    Dates,                  \* dates the parser can return
    Sizes,                  \* record sizes
    Logs,                   \* contents the computer's memory may have
    Drifts,                 \* clock corrections libdivecomputer may apply
    Options,                \* command lines the user may give
    MaxRuns                 \* bound: runs of the program

Kinds == {"good", "noparser", "nodate", "baddate", "badbody"}

Record == [size : Sizes, kind : Kinds, date : Dates]

Option == [live : BOOLEAN, limit : Nat, since : Nat, saveDump : BOOLEAN]

ASSUME DatesAssumption == Dates \subseteq Nat
ASSUME FramingAssumption == HeaderSize \in Nat \ {0} /\ NoMagic \notin Nat
ASSUME SizesAssumption ==               \* a header and a payload, dumpfile.h, 12-18
    Sizes \subseteq {n \in Nat : n > HeaderSize}
ASSUME LogsAssumption == Logs \subseteq Seq(Record)
ASSUME DriftsAssumption == Drifts \subseteq Int
ASSUME OptionsAssumption ==
    /\ Options \subseteq Option
    /\ \A o \in Options : o.saveDump => o.live      \* main, 1203-1208
ASSUME MaxRunsAssumption == MaxRuns \in Nat

VARIABLES
    log,            \* the computer's memory, newest dive first
    drift,          \* what dc_parser_new adds to a date to correct the clock
    dump,           \* the dump file
    output,         \* the UDDF file
    pc,             \* where the program is; "idle" when no run is under way
    opts,           \* program_options_t
    rc,             \* the status dowork will return
    stream,         \* the I/O stream is open
    device,         \* the device is open
    dumpFile,       \* divedata.dumpFile # NULL
    transferred,    \* the records dive_cb has been given, Len = divedata.number
    dives,          \* divedata.dc
    collected,      \* divedata.collected
    cancel,         \* g_cancel
    armed,          \* sighandler is installed
    contents,       \* replay: the contents of the dump file when it was read
    offset, index, visited, result,     \* replay: the splitter
    exit,           \* how the last run ended
    saving,         \* history: the records of transferred went to the dump file
    sent,           \* history: the bytes of these records, back to back
    lost,           \* history: a flush that failed lost bytes of the dump
    saved,          \* history: what the save of this run did
    runs            \* number of runs begun

disk == <<dump, output>>
handles == <<stream, device, dumpFile>>
divedata == <<transferred, dives, collected>>
signals == <<cancel, armed>>
splitter == <<contents, offset, index, visited, result>>
history == <<saving, sent, lost, saved>>
vars == <<log, drift, disk, pc, opts, rc, handles, divedata, signals, splitter,
          exit, history, runs>>

-----------------------------------------------------------------------------
(* The dump file, as a file of bytes: of each, the record it belongs to    *)
(* and its place in the record.                                            *)

Cell == {c \in [rec : Record, at : Nat \ {0}] : c.at <= c.rec.size}

Bytes(r) == [i \in 1..r.size |-> [rec |-> r, at |-> i]]

(* The first n bytes of record r are found at position i. *)
Found(cells, i, r, n) ==
    \A j \in 1..n : i + j - 1 <= Len(cells) /\ cells[i + j - 1] = [rec |-> r, at |-> j]

(* What the splitter reads at each offset: the length where a record       *)
(* begins, no header elsewhere, and none either where the header itself is *)
(* cut short (four bytes of it leave a length of 0x5A000000 or more).      *)
HeaderViews(cells) ==
    [i \in 1..Len(cells) |->
        IF Found(cells, i, cells[i].rec, HeaderSize) THEN cells[i].rec.size
        ELSE NoMagic]

Buffer == HeaderViews(contents)

S == INSTANCE DumpFile WITH buf <- Buffer, Buffers <- Seq(Nat \cup {NoMagic})

(* The record replayed at the current offset: the one that was saved, or,  *)
(* where lost bytes have spliced two records together, one that may parse  *)
(* in any way.                                                             *)
Replayed ==
    LET rec == contents[offset + 1].rec
    IN  IF Found(contents, offset + 1, rec, rec.size) THEN {rec}
        ELSE [size : {rec.size}, kind : Kinds, date : Dates]

-----------------------------------------------------------------------------
(* Parsing and filtering. *)

(* make_parser corrects dates only with a device. *)
Date(r) == r.date + IF opts.live THEN drift ELSE 0

(* A dive is added to the collection before anything is parsed, with the   *)
(* date dif_dive_alloc gives it, and stays there however parsing ends.     *)
Parse(r) ==
    [rec |-> r,
     stamp |-> CASE r.kind \in {"noparser", "baddate"} -> "placeholder"
                 [] r.kind = "nodate" -> "none"
                 [] OTHER -> "parsed",
     date |-> IF r.kind \in {"good", "badbody"} THEN Date(r) ELSE 0,
     body |-> CASE r.kind \in {"noparser", "baddate"} -> "empty"
                [] r.kind = "badbody" -> "partial"
                [] OTHER -> "complete"]

(* Fault: one dive more than the limit. *)
LimitExceeded == opts.limit > 0 /\ collected > opts.limit

LimitReached == opts.limit > 0 /\ collected >= opts.limit

Old(r) == opts.since > 0 /\ r.kind \in {"good", "badbody"} /\ Date(r) < opts.since

Stops(r) == LimitReached \/ Old(r)

(* Faults: the record itself is collected; a dive that does not parse is   *)
(* not counted.                                                            *)
doparseNothing(r) ==
    /\ dives' = Append(dives, r)
    /\ collected' = collected + 1

doparseCountsGood(r) ==
    /\ dives' = Append(dives, Parse(r))
    /\ collected' = IF r.kind = "good" THEN collected + 1 ELSE collected

doparse(r) ==
    /\ dives' = Append(dives, Parse(r))
    /\ collected' = collected + 1

(* divedata and its collection as dowork and doreplay initialise them. *)
NoDives ==
    /\ transferred' = <<>>
    /\ dives' = <<>>
    /\ collected' = 0

(* dif_dive_collection_free *)
FreeDives == dives' = <<>> /\ collected' = 0 /\ UNCHANGED transferred

-----------------------------------------------------------------------------
(* The run: main, dump_dives and the end of the process. *)

NoOptions == [live |-> FALSE, limit |-> 0, since |-> 0, saveDump |-> FALSE]

Absent == [state |-> "absent", dives |-> <<>>]
Torn == [state |-> "torn", dives |-> <<>>]
Written(ds) == [state |-> "written", dives |-> ds]

Init ==
    /\ log \in Logs
    /\ drift \in Drifts
    /\ dump = <<>>
    /\ output = Absent
    /\ pc = "idle"
    /\ opts = NoOptions
    /\ rc = "ok"
    /\ stream = FALSE /\ device = FALSE /\ dumpFile = FALSE
    /\ transferred = <<>> /\ dives = <<>> /\ collected = 0
    /\ cancel = FALSE /\ armed = FALSE
    /\ contents = <<>>
    /\ offset = 0 /\ index = 0 /\ visited = <<>> /\ result = "ok"
    /\ exit = "none"
    /\ saving = FALSE /\ sent = <<>> /\ lost = FALSE /\ saved = "no"
    /\ runs = 0

process == <<opts, signals, splitter>>

Goto(label) == pc' = label /\ UNCHANGED <<exit, process>>

(* The program ends, and what was in its memory is gone. *)
Exit(status) ==
    /\ pc' = "idle"
    /\ exit' = status
    /\ opts' = NoOptions
    /\ cancel' = FALSE /\ armed' = FALSE
    /\ contents' = <<>>
    /\ offset' = 0 /\ index' = 0 /\ visited' = <<>> /\ result' = "ok"

(* The user runs the program; dump_dives installs the signal handler.      *)
Run(o) ==
    /\ pc = "idle"
    /\ runs < MaxRuns
    /\ runs' = runs + 1
    /\ opts' = o
    /\ pc' = "search"
    /\ exit' = "none"
    /\ rc' = "ok"
    /\ armed' = TRUE
    /\ saved' = "no"
    /\ UNCHANGED <<log, drift, disk, handles, divedata, cancel, splitter, saving, sent,
                   lost>>

(* A context is made and the device descriptor looked up; either may fail. *)
Search ==
    /\ pc = "search"
    /\ \/ Goto(IF opts.live THEN "connect" ELSE "read")
       \/ Exit("failure")
    /\ UNCHANGED <<log, drift, disk, rc, handles, divedata, history, runs>>

-----------------------------------------------------------------------------
(* dowork: a live download. *)

(* Fault: the dump file is opened before the device. *)
OpenStreamAndDump ==
    /\ pc = "connect"
    /\ \/ stream' = TRUE /\ Goto("open")
       \/ UNCHANGED stream /\ Exit("failure")
    /\ dump' = IF opts.saveDump THEN <<>> ELSE dump
    /\ UNCHANGED <<log, drift, output, rc, device, dumpFile, divedata, history, runs>>

(* No transport is supported, or opening the stream fails. *)
OpenStream ==
    /\ pc = "connect"
    /\ \/ stream' = TRUE /\ Goto("open")
       \/ UNCHANGED stream /\ Exit("failure")
    /\ UNCHANGED <<log, drift, disk, rc, device, dumpFile, divedata, history, runs>>

Fails(label) == rc' = "failed" /\ Goto(label)

OpenDevice ==
    /\ pc = "open"
    /\ \/ device' = TRUE /\ UNCHANGED rc /\ Goto("register")
       \/ UNCHANGED device /\ Fails("closestream")
    /\ UNCHANGED <<log, drift, disk, stream, dumpFile, divedata, history, runs>>

(* Fault: the error path of an earlier call. *)
RegisterLeavesDevice ==
    /\ pc = "register"
    /\ \/ UNCHANGED rc /\ Goto("begin")
       \/ Fails("closestream")
    /\ UNCHANGED <<log, drift, disk, handles, divedata, history, runs>>

(* dc_device_set_events and dc_device_set_cancel; a memory dump that fails *)
(* does not end the run.                                                   *)
Register ==
    /\ pc = "register"
    /\ \/ UNCHANGED rc /\ Goto("begin")
       \/ Fails("closedevice")
    /\ UNCHANGED <<log, drift, disk, handles, divedata, history, runs>>

(* The collection is allocated, and the dump file opened and emptied. *)
Begin ==
    /\ pc = "begin"
    /\ NoDives
    /\ sent' = <<>>
    /\ lost' = FALSE
    /\ \/ /\ opts.saveDump
          /\ dump' = <<>>
          /\ dumpFile' = TRUE
          /\ saving' = TRUE
          /\ UNCHANGED rc
          /\ Goto("foreach")
       \/ /\ opts.saveDump                  \* fopen fails
          /\ UNCHANGED <<dump, dumpFile>>
          /\ saving' = FALSE
          /\ Fails("closedevice")
       \/ /\ ~opts.saveDump
          /\ UNCHANGED <<dump, dumpFile, rc>>
          /\ saving' = FALSE
          /\ Goto("foreach")
    /\ UNCHANGED <<log, drift, output, stream, device, saved,
                   runs>>

(* dc_device_foreach hands dive_cb the next record ... *)
Transfer ==
    /\ pc = "foreach"
    /\ Len(transferred) < Len(log)
    /\ transferred' = Append(transferred, log[Len(transferred) + 1])
    /\ Goto("write")
    /\ UNCHANGED <<log, drift, disk, rc, handles, dives, collected, history, runs>>

(* ... or has no more of them ... *)
EndOfLog ==
    /\ pc = "foreach"
    /\ Len(transferred) = Len(log)
    /\ Goto("fclose")
    /\ UNCHANGED <<log, drift, disk, rc, handles, divedata, history, runs>>

(* ... or fails, after g_cancel was seen or because of the device. *)
TransferFails ==
    /\ pc = "foreach"
    /\ Fails("fclose")
    /\ UNCHANGED <<log, drift, disk, handles, divedata, history, runs>>

(* Fault: a pointer to the first record, not to the last. *)
FirstRecord == transferred[1]

Current == Last(transferred)

(* Fault: the record is written without its framing. *)
AppendPayload(k) == dump' = dump \o SubSeq(Bytes(Current), HeaderSize + 1, k)

AppendToDump(k) == dump' = dump \o SubSeq(Bytes(Current), 1, k)

(* dive_cb saves the record, before it filters: all of it; or fwrite       *)
(* reports that it wrote less, and the dump is given up; or fwrite only    *)
(* filled the buffer and the fflush that nobody checks loses what it could *)
(* not write.                                                              *)
Write ==
    /\ pc = "write"
    /\ Goto("filter")
    /\ sent' = sent \o Bytes(Current)
    /\ \/ /\ ~dumpFile
          /\ UNCHANGED <<dump, dumpFile, lost>>
       \/ /\ dumpFile
          /\ AppendToDump(Current.size)
          /\ UNCHANGED <<dumpFile, lost>>
       \/ /\ dumpFile
          /\ \E k \in 0..(Current.size - 1) : AppendToDump(k)
          /\ \/ dumpFile' = FALSE /\ UNCHANGED lost
             \/ lost' = TRUE /\ UNCHANGED dumpFile
    /\ UNCHANGED <<log, drift, output, rc, stream, device, divedata, saving, saved,
                   runs>>

(* The rest of dive_cb: it returns 0, which ends the download without an   *)
(* error, or parses the dive, whose status it ignores, and returns 1.      *)
Filter ==
    /\ pc = "filter"
    /\ \/ /\ Stops(Current)
          /\ UNCHANGED <<dives, collected>>
          /\ Goto("fclose")
       \/ /\ ~Stops(Current)
          /\ doparse(Current)
          /\ Goto("foreach")
    /\ UNCHANGED <<log, drift, disk, rc, handles, transferred, history, runs>>

(* Fault: a download that fails is tried again.                            *)
DownloadedRetries ==
    /\ pc = "fclose"
    /\ dumpFile' = FALSE
    /\ UNCHANGED divedata
    /\ \/ rc = "ok" /\ Goto("save")
       \/ rc = "failed" /\ Goto("foreach")
    /\ UNCHANGED <<log, drift, disk, rc, stream, device, history, runs>>

(* The dump file is closed and, after an error, what was collected freed. *)
Downloaded ==
    /\ pc = "fclose"
    /\ dumpFile' = FALSE
    /\ \/ /\ rc = "ok"
          /\ UNCHANGED divedata
          /\ Goto("save")
       \/ /\ rc = "failed"
          /\ FreeDives
          /\ Goto("closedevice")
    /\ UNCHANGED <<log, drift, disk, rc, stream, device, history, runs>>

CloseDevice ==
    /\ pc = "closedevice"
    /\ device' = FALSE
    /\ rc' \in {rc, "failed"}
    /\ Goto("closestream")
    /\ UNCHANGED <<log, drift, disk, stream, dumpFile, divedata, history, runs>>

(* Fault: the status is that of the last call alone. *)
CloseStreamForgets ==
    /\ pc = "closestream"
    /\ stream' = FALSE
    /\ Exit("success")
    /\ UNCHANGED <<log, drift, disk, rc, device, dumpFile, divedata, history, runs>>

CloseStream ==
    /\ pc = "closestream"
    /\ stream' = FALSE
    /\ Exit(IF rc = "ok" THEN "success" ELSE "failure")
    /\ UNCHANGED <<log, drift, disk, rc, device, dumpFile, divedata, history, runs>>

-----------------------------------------------------------------------------
(* process_and_save, for both kinds of run: nobody looks at the result of  *)
(* xmlSaveFormatFileEnc, which may have left the file alone or incomplete. *)
Save ==
    /\ pc = "save"
    /\ \/ output' = Written(dives) /\ saved' = "yes"
       \/ output' \in {output, Torn} /\ saved' = "failed"
    /\ FreeDives
    /\ Goto(IF opts.live THEN "closedevice" ELSE "replayed")
    /\ UNCHANGED <<log, drift, dump, rc, handles, saving, sent,
                   lost, runs>>

-----------------------------------------------------------------------------
(* doreplay: the splitter calls replay_record_cb for each record. *)

Read ==
    /\ pc = "read"
    /\ \/ /\ contents' = dump
          /\ offset' = 0 /\ index' = 0 /\ visited' = <<>> /\ result' = "running"
          /\ NoDives
          /\ saving' = FALSE /\ sent' = <<>> /\ lost' = FALSE
          /\ pc' = "split"
          /\ UNCHANGED <<opts, signals, exit>>
       \/ /\ UNCHANGED <<divedata, saving, sent, lost>>
          /\ Exit("failure")
    /\ UNCHANGED <<log, drift, disk, rc, handles, saved, runs>>

(* replay_record_cb: stop when cancelled, else what dive_cb does, with no  *)
(* dump to write.                                                          *)
ReplayRecord ==
    /\ pc = "split"
    /\ \/ /\ cancel
          /\ S!Visit(FALSE)
          /\ UNCHANGED divedata
       \/ /\ ~cancel
          /\ \E more \in BOOLEAN : S!Visit(more) /\ \E r \in Replayed :
                /\ transferred' = Append(transferred, r)
                /\ more = ~Stops(r)
                /\ IF more THEN doparse(r) ELSE UNCHANGED <<dives, collected>>
    /\ UNCHANGED <<log, drift, disk, pc, opts, rc, handles, signals, contents, exit,
                   history, runs>>

(* The splitter finds the end of the buffer, or an error. *)
ReplayEnds ==
    /\ pc = "split"
    /\ S!Finish \/ S!Reject
    /\ UNCHANGED <<log, drift, disk, pc, opts, rc, handles, divedata, signals, contents,
                   exit, history, runs>>

(* The splitter has returned: a negative count frees what was collected. *)
Replay ==
    /\ pc = "split"
    /\ result # "running"
    /\ IF S!ReturnValue < 0
       THEN FreeDives /\ Exit("failure")
       ELSE UNCHANGED divedata /\ Goto("save")
    /\ UNCHANGED <<log, drift, disk, rc, handles, history, runs>>

(* doreplay returns, whatever became of the save. *)
Return ==
    /\ pc = "replayed"
    /\ Exit("success")
    /\ UNCHANGED <<log, drift, disk, rc, handles, divedata, history, runs>>

-----------------------------------------------------------------------------
(* Interruptions. *)

(* The process dies: the system closes what it had open.  A record being   *)
(* written and a file being saved are left incomplete.                     *)
Kill ==
    /\ pc # "idle"
    /\ Exit("killed")
    /\ stream' = FALSE /\ device' = FALSE /\ dumpFile' = FALSE
    /\ FreeDives
    /\ IF pc = "write" /\ dumpFile
       THEN /\ \E k \in 0..Current.size : AppendToDump(k)
            /\ sent' = sent \o Bytes(Current)
       ELSE UNCHANGED <<dump, sent>>
    /\ output' \in IF pc = "save" THEN {output, Torn} ELSE {output}
    /\ UNCHANGED <<log, drift, rc, saving, lost, saved, runs>>

(* The first SIGINT sets g_cancel and restores the default action, which   *)
(* the second one then meets.                                              *)
Interrupt ==
    /\ pc # "idle"
    /\ armed
    /\ cancel' = TRUE
    /\ armed' = FALSE
    /\ UNCHANGED <<log, drift, disk, pc, opts, rc, handles, divedata, splitter, exit,
                   history, runs>>

-----------------------------------------------------------------------------

Download ==
    \/ OpenStream \/ OpenDevice \/ Register \/ Begin
    \/ Transfer \/ EndOfLog \/ TransferFails \/ Write \/ Filter
    \/ Downloaded \/ CloseDevice \/ CloseStream

Replaying == Read \/ ReplayRecord \/ ReplayEnds \/ Replay \/ Return

Program == Search \/ Download \/ Save \/ Replaying

Next ==
    \/ \E o \in Options : Run(o)
    \/ Program
    \/ Kill
    \/ Interrupt

Spec == Init /\ [][Next]_vars /\ WF_vars(Program)

-----------------------------------------------------------------------------
(* Properties *)

Labels == {"idle", "search", "connect", "open", "register", "begin", "foreach",
           "write", "filter", "fclose", "save", "closedevice", "closestream",
           "read", "split", "replayed"}

Dive == [rec : Record, stamp : {"placeholder", "none", "parsed"}, date : Int,
         body : {"empty", "partial", "complete"}]

File == [state : {"absent", "torn", "written"}, dives : Seq(Dive)]

ProgramType ==
    /\ pc \in Labels
    /\ exit \in {"none", "success", "failure", "killed"}
    /\ opts \in Options \cup {NoOptions}
    /\ cancel \in BOOLEAN /\ armed \in BOOLEAN

SplitterType ==
    /\ contents \in Seq(Cell)
    /\ offset \in Nat
    /\ index \in Nat
    /\ visited \in Seq([at : Nat, size : Nat])
    /\ result \in S!Results

DivedataType ==
    /\ transferred \in Seq(Record)
    /\ dives \in Seq(Dive)
    /\ collected \in Nat

FilesType ==
    /\ dump \in Seq(Cell)
    /\ sent \in Seq(Cell)
    /\ output \in File

FlagsType ==
    /\ log \in Logs
    /\ drift \in Drifts
    /\ rc \in {"ok", "failed"}
    /\ stream \in BOOLEAN /\ device \in BOOLEAN /\ dumpFile \in BOOLEAN
    /\ saving \in BOOLEAN /\ lost \in BOOLEAN /\ saved \in {"no", "yes", "failed"}
    /\ runs \in 0..MaxRuns

(* The type of every variable of a run and of the files it leaves. *)
TypeOK == ProgramType /\ SplitterType /\ DivedataType /\ FilesType /\ FlagsType

(* The dives a download of these records should keep: those before the     *)
(* first that is over the limit or too old (README, --limit and --since).  *)
Selected(records) ==
    LET over == {i \in 1..Len(records) :
                    \/ opts.limit > 0 /\ i > opts.limit
                    \/ Old(records[i])}
    IN  SubSeq(records, 1, IF over = {} THEN Len(records) ELSE Min(over) - 1)

Parsed(records) == [i \in 1..Len(records) |-> Parse(records[i])]

(* The records a file holds, in the order in which they begin in it, and   *)
(* whether it holds the whole of each.                                     *)
WithStart(records, c) == IF c.at = 1 THEN Append(records, c.rec) ELSE records

Begun(cells) ==
    LET begun[n \in 0..Len(cells)] ==
            IF n = 0 THEN <<>> ELSE WithStart(begun[n - 1], cells[n])
    IN  begun

Records(cells) == Begun(cells)[Len(cells)]

Intact(cells) ==
    \A i \in 1..Len(cells) :
        /\ cells[i].at = 1 \/ (i > 1 /\ cells[i - 1] = [cells[i] EXCEPT !.at = @ - 1])
        /\ cells[i].at = cells[i].rec.size \/ i < Len(cells)
        /\ i < Len(cells) /\ cells[i + 1].at = 1 => cells[i].at = cells[i].rec.size

IsDump(cells) == S!IsDump(HeaderViews(cells))

(* While a run saves its dump, and after it failed or died, the file is a  *)
(* prefix of the bytes of the records given to dive_cb; as long as the     *)
(* dump is not given up, it is all of them (dc2uddf.c:529-541).  Only a    *)
(* flush that loses bytes may break it.                                    *)
DumpIsPrefix ==
    saving /\ ~lost =>
        /\ IsPrefix(dump, sent)
        /\ dumpFile => dump = sent

(* The dump is taken before the filters: until it is given up, it holds    *)
(* every record given to dive_cb, those that the limit or the date rejects *)
(* among them (dc2uddf.c:529-530), whole and in order.                     *)
DumpHoldsAll ==
    dumpFile /\ ~lost /\ pc # "write" => Records(dump) = transferred /\ Intact(dump)

(* What a download is about to save is exactly the selection: nothing      *)
(* dropped, nothing beyond the limit, dives that did not parse included    *)
(* and counted (dive_cb ignores doparse's status), and whatever became of  *)
(* the dump meanwhile (dc2uddf.c:529-560).                                 *)
DownloadSelects == pc = "save" /\ opts.live => dives = Parsed(Selected(log))

(* What a replay of an undamaged dump is about to save is the selection    *)
(* among the records saved in it, seen through the splitter in the same    *)
(* order; it saves part of them only when the user has interrupted it.     *)
ReplaySelects ==
    pc = "save" /\ ~opts.live /\ Intact(contents) =>
        LET selection == Parsed(Selected(Records(contents))) IN
        /\ IsPrefix(dives, selection)
        /\ ~cancel => dives = selection

(* The purpose of the dump: once a download with an intact dump is about   *)
(* to be saved, replaying the dump with the same options would be accepted *)
(* by the splitter and save the same dives, provided that the computer's   *)
(* clock needed no correction, which a replay cannot make.                 *)
ReplayReproduces ==
    pc = "save" /\ saving /\ dump = sent /\ drift = 0 =>
        /\ dump # <<>> => IsDump(dump)
        /\ Parsed(Selected(Records(dump))) = dives

(* The device is closed before the stream it uses, the dump before either, *)
(* and all of them when the program ends, on every path through the error  *)
(* handling of dowork.                                                     *)
HandlesClosedInOrder ==
    /\ device => stream
    /\ dumpFile => device
    /\ pc \in {"idle", "read", "split", "replayed"} => ~stream
    /\ pc \in {"save", "closedevice"} => ~dumpFile

(* A dump saved earlier is not lost to a run that never reaches the        *)
(* computer: it is emptied only once the device is open.                   *)
DumpKeptUntilConnected == [][dump' # dump => device]_vars

(* Every run ends, however the computer, the disk and the user behave.     *)
RunEnds == pc # "idle" ~> pc = "idle"

(* The output file keeps the promise of Logbook.                           *)
LB == INSTANCE Logbook WITH
    book <- output,
    run <- IF pc = "idle" THEN "none" ELSE IF saved = "no" THEN "open" ELSE "done",
    report <- exit,
    job <- [dives |-> Parsed(Selected(IF opts.live THEN log ELSE Records(dump))),
            sound |-> opts.live \/ Intact(dump),
            cut |-> ~opts.live /\ cancel]

KeepsLogbook == LB!Spec

-----------------------------------------------------------------------------
(* What the documentation says and the code does not do. *)

(* "flush per record so an interrupted download still leaves a valid,      *)
(* replayable prefix" (dc2uddf.c:537): after a download that died, a dump  *)
(* with at least one whole record can be replayed.                         *)
InterruptedDumpReplays ==
    pc = "idle" /\ exit = "killed" /\ saving /\ ~lost /\ dump # <<>>
        /\ Found(dump, 1, dump[1].rec, dump[1].rec.size) => IsDump(dump)

(* "also save the raw dive records to FILE for later replay with           *)
(* --from-dump" (README.md:238): a dump that was not given up can be       *)
(* replayed when the download is over.                                     *)
SavedDumpReplays ==
    pc = "fclose" /\ rc = "ok" /\ dumpFile /\ dump # <<>> => IsDump(dump)

=============================================================================
