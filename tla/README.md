# Verification of dc2uddf

dc2uddf downloads the dives a dive computer remembers, through libdivecomputer,
and writes them as a UDDF file. This directory holds TLA+ models of the parts
of it that carry its own logic, TLC configurations that check them on small
instances, and proofs, checked by TLAPS, of the properties that matter most.

Paths below are those of the repository (`src/dc2uddf.c` is the program,
`src/dumpfile.c` the splitter, and so on).

## The system

| Part | Source | State | Operations |
|---|---|---|---|
| Program runs | `src/dc2uddf.c` | `divedata` (collection, count, dump file), the open stream and device, `g_cancel`; on disk the dump and the UDDF file | `dump_dives`, `dowork`, `dive_cb`, `doreplay`, `replay_record_cb`, `process_and_save`, `sighandler` |
| Dump file splitter | `src/dumpfile.c` | `offset`, `index` | `dumpfile_foreach_uwatec_smart` |
| Dive parsing | `src/dc2uddf.c` | the dive being built | `doparse`, `sample_cb`, `make_parser` |
| Alarm decoder | `src/uwatec_smart_alarms.c` | `offset`, `time`, the bits in effect, the result | `uwatec_smart_alarms_decode` |
| Dive data model | `src/dif/dif.c` | dives, samples, gas mixes | adding, finding, sorting; pressures, depths, duration, surface interval |
| Dive algorithms | `src/dif/algos.c` | the samples of a dive | truncation, initial pressure fix |
| UDDF serializer | `src/dif/uddf.c` | the document | waypoints, dives, repetition groups, gas definitions, save |
| Command line, listings | `src/dc2uddf.c` | `program_options_t` | `main`, `search`, `print_devices`, `print_backends` |
| Logging | `src/utils.c` | a log file | `message` |

How they interact. `main` turns the command line into options and calls
`dump_dives`, which installs the handler of SIGINT, finds the device descriptor
and calls either `dowork` (a live download) or `doreplay` (a dump saved
earlier). Both feed whole dive records to the same callback, `dive_cb`:
libdivecomputer's `dc_device_foreach` does it live, the splitter through
`replay_record_cb` on replay. `dive_cb` writes the record to the dump, applies
`--limit` and `--since`, has `doparse` build a dive and counts it. `doparse`
runs libdivecomputer's parser, whose `sample_cb` collects the samples, and adds
the alarms the decoder finds in the raw record. When all records are in,
`process_and_save` truncates the dives and fixes their pressures if asked to,
and the serializer derives the values of each dive and writes the file.

Nothing runs in parallel but the signal handler. What is hard in this program
is elsewhere: two producers of records that must lead to the same result;
files that outlive a run, and a run that may end at any step (an error of the
device, a full disk, SIGINT, the death of the process); status values that are
ignored at some steps and final at others; lengths and offsets that come from
the bytes of a file; walks that depend on every byte before; and a sequence of
algorithms on a list of samples that is sorted only at the end. `PROJECT.json`
lists these hazards line by line, with the properties that watch over them.

### What makes each part correct

- Splitter: the records handed out tile the buffer; a dump is accepted iff it is
  one; the count returned is the number of callbacks; the walk ends.
- Runs: what is saved is what the options select; the dump is a prefix of what
  was transferred and leads to the same dives when replayed; files of earlier runs
  survive runs that fail early; handles are closed in order; every run ends.
- Decoder: the events are exactly the waypoints at which a bit was set; a
  damaged record yields an error and no events; it stays inside the record and
  moves on with every sample.
- Parsing: every record becomes one dive; a dive has what the computer reported and
  nothing else; the parser is released on every return.
- Algorithms: truncation stops at the first surfacing that no 1 m follows and never
  loses the greatest depth;
  the pressure fix sets the first valid pressure; a pressure drop belongs to one
  tank; waypoints are in order and alarms on them are kept.
- Serializer: waypoints have the elements of the schema in its order; no alarm, dive or
  gas mix is lost on the way; repetition groups are days, and intervals are true.

## The modules

| Module | What it is |
|---|---|
| `DumpFile` | the splitter, over a buffer of arbitrary bytes |
| `Logbook` | abstract: what the program promises about the UDDF file |
| `Session` | runs of the program; uses `DumpFile` for replay, implements `Logbook` |
| `ParsedDive` | abstract: what `dive_cb` may rely on when it calls `doparse` |
| `DiveParse` | one record on its way through `doparse` and `_createWaypoint`; uses `Waypoint`, implements `ParsedDive` |
| `Waypoint` | the elements of one waypoint and their order (operators only) |
| `StableSort` | the sort of glib's lists (operators only) |
| `DiveAlgos` | one dive from its samples to the values written |
| `ProfileData` | a collection of dives: order, intervals, repetition groups, gas definitions |
| `AlarmDecoder` | the walk over the samples of a raw record |
| `DumpFileProofs`, `SessionProofs`, `AlarmDecoderProofs`, `DiveParseProofs`, `DiveAlgosProofs`, `ProfileDataProofs` | theorems about the module of that name |
| `ReplayProofs` | theorems about `Session` that need inductions over the bytes and records of the dump, and the refinement of `Logbook` |
| `Induction` | lemmas on inductions, folds, cardinalities and the stable sort, which the proof modules share |
| `MCDumpFile`, `MCSession`, `MCDiveParse`, `MCDiveAlgos`, `MCProfileData`, `MCAlarmDecoder` | instances for TLC |

Each module also holds, next to a definition, a few marked *Fault*: the
definition with a plausible bug in it. They are part of no specification;
putting one in the place of the original must make TLC report the property it
is meant to break (`mutants` in `PROJECT.json`), which shows that the property
can fail.

### DumpFile

State and actions are those of `dumpfile_foreach_uwatec_smart`: `offset`, `index`
and the outcome are its locals and return paths, and one iteration of the loop is
`RejectMagic`, `RejectLength` or `Visit(more)`, where `more` is what the callback
returns. `visited` is a history of the calls. A buffer is the sequence of its
*header views*: for each offset the length a header there would claim, or
`NoMagic`. The splitter learns nothing else of the bytes. Views of overlapping
offsets are chosen independently, which allows more buffers than exist, and so
is sound for the invariants. Whether less than a header remains is computed from
the offset, as in the code.

### Session

One action per step of the program, labelled by `pc`: `Run` (a user starts the
program; `signal` in `dump_dives`), `Search` (context and descriptor),
`OpenStream`, `OpenDevice`, `Register` (events, cancellation, memory dump),
`Begin` (the collection; `fopen` of the dump), `Transfer` / `EndOfLog` /
`TransferFails` (the three things `dc_device_foreach` may do next), `Write` and
`Filter` (the two halves of `dive_cb`), `Downloaded` (after `foreach`), `Save`
(`process_and_save`), `CloseDevice`, `CloseStream`; for a replay `Read`,
`ReplayRecord`, `ReplayEnds`, `Replay` and `Return`. `Write` and `Filter` are two actions
because the process may die between them. `Kill` may happen at every step, and
`Interrupt`, the handler of SIGINT, while it is installed; the second SIGINT is a
`Kill`. After an interrupt a download fails at some later step of `foreach`
(libdivecomputer polls `cancel_cb` between packets), which `TransferFails`
allows for any reason, so it does not need to read `cancel`.

The replay embeds the splitter: `S == INSTANCE DumpFile` with the header views of
the file as its buffer, and `ReplayRecord` is `S!Visit` together with what the
callback does.

Data are reduced to what these steps tell apart. A record has a size, a date and a
`kind`: how far `doparse` gets with it. Every kind leaves a dive in the
collection: `doparse` adds the dive first, and `dive_cb` ignores its status. Files
are sequences of cells, each a byte of some record, so that a torn or a
spliced dump is told from a whole one. The assumptions behind `HeaderViews`:

- a record has a header and a payload (`SizesAssumption`: it is longer than a header);
- a record's payload holds no record header (the splitter never looks there in a
  sound file; in a spliced one it might);
- a header that is cut short reads its length, or part of it, from the magic of the
  record behind it (0x5A5AA5A5 when all four bytes of the length are missing, at least
  0x5A000000 in any case), which is more than a dump holds: it counts as no header.

After a flush that fails, the bytes it could not write are lost (glibc discards
the buffer); what `Replayed` reads over such a gap may parse in any way.

### Logbook

The UDDF file (`book`) changes at most once in a run, when the run publishes what
it was asked for, all of it or, for a replay the user interrupted, the part
before; a run that reports success has got that far. A save that fails or dies may
spoil the file, but nothing else may. `Session!KeepsLogbook` is this
specification under the mapping `LB`: `book` is the output file, `job` what the
options select of the computer's memory or of the dump, `report` the exit status.

### DiveParse, Waypoint and ParsedDive

One action of `DiveParse` is one call of `doparse` with the code behind it up to the
next call: `Alloc`, `MakeParser`, one for each field, `GetTank` and `GetGasmix` for one
round of their loops, `SampleCb` for one call of the callback, `ImportAlarm` for one
event of the decoder, `Destroy`. A record is what the parser answers: to each call
*success* with a value, *unsupported*, or *error* (all other statuses, which the code
does not tell apart). `Get` is the pattern the calls share: an error releases the
parser and returns, anything else goes on. `Write` is `_createDive` as far as it concerns the
samples and the temperature; it happens whatever `doparse` returned, because
`dive_cb` does not look at it. What `process_and_save` may do in between is in `DiveAlgos`.

`Waypoint` has the elements that each subsample becomes, the one marker, the events that
are alarms, the elements only written with `--invalid`, and the sort by the rank of
the schema. The loop over the subsamples is a recursive function (`ChildrenUpTo`), the sort `SortedBy`
of `StableSort`. `DIF_SAMPLE_SETMARKER` subsamples are left out: no code of the program makes one.

Promises of libdivecomputer that `RecordsAssumption` names: a time comes before the
values of that time (the code would dereference a NULL sample otherwise), and each
value but pressures, events and vendor data comes at most once per time (a second
depth would break the schema). Units are integers: hundredths of a degree, tenths of
a bar, thousandths of a percent.

`ParsedDive` is the contract of `doparse`: the record is one dive of the collection before
anything can fail, with the placeholder date of `dif_dive_alloc` until its own is known;
a dive whose parsing succeeded has a date of its own, or none. `Session` takes it as the
single step `Filter`, with the outcomes that a record's `kind` names.

One thing that the model does not show: `cbdata` (`src/dc2uddf.c:456`) is not freed when the samples
fail to parse.

### DiveAlgos

The dives to look at come in `Families` (what the computer reports, and how much of it), so
that one run covers long profiles without pressures and short ones with them. The phases of a dive: `Time`, `Depth`, `TankPressure` are the cases of `sample_cb`;
`AddAlarm` is `dif_dive_add_alarm` as `doparse` calls it, for times that
increase, as the decoder's do; `Scan` is one round of the loop of
`dif_alg_dive_truncate_dive`, with its `currentLast`; `Truncate` (which frees what follows) and `Fix` are
the algorithms in the order of `process_and_save`; `Save` is `_createDive`, which reads the tanks' begin pressure,
sorts the samples and derives the rest. Depths are in millimetres and pressures in
tenths of a bar, which makes the thresholds of the code (1 m, 0.001 m, 1.0 bar,
0.1 bar) integers; values between two multiples behave as one of them, except
pressures between 0.1 and 0.2 bar, which count as 0.2. The parser's
clock is in milliseconds and rounded down to seconds, so two samples may share a
second. The loop of `dif_dive_get_average_depth` is the recursive function `MeasuredUpTo`, with the
locals of the code in a record; the average is kept as the fraction that the code divides.

What the computer itself reports of its tanks and of the average depth (`reported`) goes before what is
derived (`HasTankPressures`, `HasAvgdepth`). Of these values there is nothing to check here: a reported average is
written as it is, and stays that of the whole dive when truncation has cut some of it.
`AverageBetween` and `OneTank` are about the values computed from the samples.

The alarms put samples behind those of the computer, at any second before or after the surfacing, and
truncation goes by the list. The history `timed` counts the computer's own samples, so that `StopsAtSurfacing` can
say which of *them* are kept, and compare times otherwise.

The sorting in `dif_dive_get_final_pressure` and the like repeats the one of
`_createDive` and changes nothing; the one in the surface interval, for dives
without a duration, comes before `Save` and is left out (it would only matter to
`tankBegin`, read before the sort).

### ProfileData

`Add` is a dive of the collection, as its readers see it: a start or no date, a duration or 0, the
span of its samples or none, and its gas mixes. The begin pressure of its `tankdata`, which only its samples tell, is left out.
`DefineGas`, `NextDive` and `GasesDefined` are the loops of `_createGasDefinitions`, which run
first; `Sort` is `dif_dive_collection_sort_dives`, stable, undated dives last;
`SurfaceInterval` is one round of `dif_dive_collection_calculate_surface_interval`, with the duration it
computes for a dive that has none, which the next round reads; `Group` is one round of the loop of
`_createProfileData`, and `Grouped` what follows it. A gas mix is found by its name, which casts its
percentages to integers; standard names are the table of `dif_gasmix_type`.

Two consequences of the code that no property speaks against: an undated dive behind
another one gets an interval of 0 s (the difference to a NULL date is 0), and mixes that differ by
less than a percent share a definition.

### AlarmDecoder

One iteration of the loop of `uwatec_smart_alarms_decode` is `Sample`, `RejectType`
or `RejectSample`; the header checks are `RejectHeader` and `AcceptHeader`. The table
is `galileo_samples`, entry by entry, without the two columns that change nothing
(`absolute` is not read, `ignoretype` is 0 throughout). Of the header the model
keeps its size and the freedive bit; the test that the settings lie in the record is
always true once the header does. `reach` is a history of the highest byte read.

`stream` is the bytes of the record behind its header. The reference for `ReportsWhatSounded` is a
second reading of them: `written`, the samples that are whole, each with its bytes, the waypoints it
completes and the bits it sets, and behind them either nothing or a rest that begins with no sample
(`Damaged`: a type that does not exist, a misc sample without room for its own length byte, a sample
that is cut). What a sample is (`WellFormed`) is stated by type byte and length, from the bit patterns
beside the table, and shares no definition with the decoder. `Recordings` holds such readings; that every
sequence of bytes has one is a theorem, `EveryRecord`.

## What is checked

All runs finish in under two and a half minutes on two cores; the largest has 6 million states.

| Run | Properties | Instance and why it is enough |
|---|---|---|
| `splitter` | `TypeOK`, `RecordsTile`, `CountsVisits`, `AcceptsDumps`, `Returns` | Header of 2, every buffer of up to 6 offsets with views none, 0 (the walk would stand still), 2 (too short), 3 and 4 (legal), 7 (past the end): two records, or one and any tail. The fault for `Returns` skips a record of a bad length instead of failing at it, and spins at a length of 0. |
| `session` | `TypeOK`, `DumpIsPrefix`, `DumpHoldsAll`, `DownloadSelects`, `ReplayReproduces`, `HandlesClosedInOrder`, `RunEnds` | One run; a memory of three dives, the middle one of each kind, or none; limits 0 to 2, with and without a date, with and without a dump, with and without clock drift; a failure, kill or interrupt at any step. |
| `replay` | `ReplaySelects`, `DumpKeptUntilConnected`, `KeepsLogbook` | Two runs (`MaxRuns`), so that the second meets the files of the first, torn and spliced dumps among them. The middle dive has no parser. |
| `parse` | `TypeOK`, `ParserReleased`, `FaithfulReadings`, `FaithfulMixes`, `WaypointsConform`, `SignalsWritten`, `LowestTemperatureTrue`, `ImplementsParsedDive` | 6500 records, with and without `--invalid`. Every combination of answers to the fields; up to two tanks and two gas mixes with every answer to each; one sample with every pair of reports, or one of each in two orders; up to three samples, two of them of one second or out of order, with temperatures and events and up to two alarms; errors at every call. |
| `dive` | `TypeOK`, `StopsAtSurfacing`, `DepthSurvives`, `AverageBetween`, `OneTankUnfixed`, `FixedStart`, `AlarmsWritten` | Up to five samples with depths 0, 0.999, 1 and 2 m or none, and an alarm beside them: two surfacings and a second descent fit. And up to three samples, one pressure in each, of two tanks, around each threshold; samples of the same second; two alarms; with and without reported tank pressures and average. |
| `profile` | `TypeOK`, `GroupsTile`, `GroupsAreDays`, `PassedTimeTrue`, `LinksResolve` | Every collection of up to three dives, in any order: two times of one day and one of the next, or no date; with a duration, with samples instead, or with neither; a gas mix of one of three names, two of the mixes sharing theirs, or none. |
| `decoder` | `TypeOK`, `StaysInside`, `ReportsWhatSounded` | Every record of up to three of 14 samples: all kinds of length, data bytes that would be alarms if read as types, whole, cut at every byte, or with a bad tail; header sizes of 84 and 152 and the sizes next to the limits. |

Bounds. `MaxRuns`, `MaxDives`, `MaxGases`, the bounds in `Families` and the sets of the
`MC` modules are the only ones. Deadlock is not checked: each of these systems
stops when it is done.

Fairness. The splitter is sequential code that runs until it
returns: `WF(Next)`. In `Session` only the program's own steps are fair,
`WF(Program)`: the user need not start, interrupt or kill anything. That
`dc_device_foreach` returns, with or without an error, is libdivecomputer's promise
(its reads have timeouts); the computer's memory is finite.

`KeepsLogbook` and `ImplementsParsedDive` are safety refinements: the abstract modules
have no fairness. `DiveParse`, `DiveAlgos` and `ProfileData` are straight lines of code whose
loops run over lists that do not grow, and each iteration of `AlarmDecoder` moves on by a byte at least; that they
end needs no argument but that, and they state no fairness.

### Where the code does not do what it says

Five runs are expected to end in a counterexample.

- `interrupted_dump`: *"flush per record so an interrupted download still leaves a
  valid, replayable prefix"* (`src/dc2uddf.c:537`). A kill while a record is being
  written leaves part of it, and the splitter then rejects the whole dump, the
  records before it included. A download stopped between two records is fine.
- `lost_flush`: *"save the raw dive records to FILE for later replay"*
  (`README.md:238`). `fflush` is not checked (`src/dc2uddf.c:539`), unlike `fwrite`
  just above: a full disk leaves a gap, the dump stays in use, and cannot be replayed.
- `mixed_tanks`: *"multi-tank dives never mix pressures from different tanks"*
  (`src/dif/uddf.c:417`). With `-i`, the fix overwrites an early reading of one tank with
  the first valid pressure of another (`src/dif/algos.c:53`), and the drop is then taken
  between the two.
- `shallow_descent`: truncation *"truncates all points after the last time the surface is 0 and there
  is never another time the depth goes below 0.0"* (`src/dif/algos.c:81`). Only a depth of 1 m or more
  counts as another descent (`src/dif/algos.c:93`): after 2 m, 0, 0.999 m and 0 the dive is cut at the first 0, and the
  samples at 0.999 m are lost. `README.md:233` says what the code does (*"if you don't go down below
  1m again"*), so `StopsAtSurfacing` follows it and not the comment.
- `cut_alarm`: an alarm without a sample of its second gets a new one, and *"callers relying on sample order should
  re-run dif_dive_sort_samples, as the serializer does"* (`src/dif/dif.c:249`). Truncation relies on the order
  without sorting, and comes before the serializer (`src/dc2uddf.c:653`): an alarm at second 0, before a first sample
  at second 1, is behind all the samples, and is cut with those behind the surfacing, although
  truncation only *"stops a dive after you've surfaced"* (`README.md:233`). With the decoder and libdivecomputer in agreement on the
  times there is a sample for each alarm; the code provides for the case that there is none. `AlarmsWritten` is about
  all alarms of dives that are not cut, and of the others about those that joined a sample.

Met while modelling, and plain from one place of the code, so without a run:
- `process_and_save` *"saves the collected dives as UDDF"* (`src/dc2uddf.c:644`), but the result of the save
  is ignored (`src/dif/uddf.c:649`) and the run reports success. `Session` has the step (`Save` fails
  and the exit is a success), and `KeepsLogbook` says what becomes of the file.
- The file is UDDF 3.2.3 (`README.md:5`), whose schema requires a `tankpressurebegin` of each `tankdata`
  (`xsd/uddf_3.2.3.xsd:1265`); a dive with a gas mix and no pressure reading is written without
  one (`src/dif/uddf.c:357`).
- A dive whose date cannot be made is written without the `datetime` the schema requires
  (`src/dif/uddf.c:319`), and a run that collects no dive writes `profiledata` without a `repetitiongroup`.

## What is proved

For every value of the constants, under the named assumptions of each module (that
they are sets of the right kind; that `HeaderSize` is positive and a record longer; that only live runs save a
dump; what libdivecomputer promises, `RecordsAssumption`; and that a recording is samples and a rest,
`RecordingsAssumption`). No number of records, runs, samples,
subsamples, tanks, mixes, alarms or bytes is bounded. Every safety property the passing runs check is
a theorem.

The library's induction theorems take an operator as a parameter, which the provers cannot
instantiate. `Induction` has first-order forms instead: a *set* that holds 0 and each successor
holds every number (`NatSet`, `RangeSet`), a recursive function exists as the fold of a sequence of
functions (`FoldExists`, `KeptAlong`), finite ranges have ends, a bijection preserves
cardinality (`SameNumber`), and the stable sort is a permutation that orders keys and keeps ties
(`StableOrderIs`). Every induction over data below goes through these.

**DumpFile.** `SplitterInvariant` proves an inductive invariant: the type of the
variables, `RecordsTile`, that `index` counts the records walked over and `offset`
is the end of the last of them (or its start, when the callback stopped there), and that the
walk has only passed well-formed records. It gives `TypeCorrect`, `TilesTheBuffer`
(`RecordsTile`), `ReturnsCount` (`CountsVisits`) and `ExactVerdict`
(`AcceptsDumps`). The last needs more than an induction on steps: a dump is defined by
a set of cuts closed under following records; a completed walk provides such a set
(lemma `WalkIsCuts`), and for the converse the invariant says that any such set
holds the current offset, so an error there refutes the set. `Advances`: a record accepted moves the
walk by more than a header, the safety half of `Returns`.

**Session.** `SessionInvariant` proves `TypeOK`, `DumpIsPrefix`, that there is a
current record in `write` and `filter`, for each label, which handles are open
(`HandlesByLabel`), and what has been collected (`Gathering`); the properties alone are not inductive, as they do not say which
handle is open where. Corollaries: `TypeCorrect`, `HandlesClosed`, `DumpPrefix` and the
action property `DumpKept`. `DownloadSelection` (`DownloadSelects`) rests on `Gathering`: until the
download stops, the dives are those of the records before the current one, of which none
calls for a stop, so the one it stops at is the first that the selection leaves out (lemma
`StopSelects`). Lemmas about `Bytes`, `SubSeq` and prefixes carry
`DumpIsPrefix` through the partial writes.

`ReplayProofs` adds what the files hold. Reading a file is a fold over its cells (`Begun`), and
by induction over the records, the bytes of a list of whole records read as that list, the splitter's
header views of them are where the records begin, and `IsDump` holds of them (`IntactIsDump`). With
that, `RecordsInvariant` adds three parts: what a download has sent is whole records (`SentWhole`); a replay
over an intact file is at the beginning of a record and has collected the selection among those before
(`Walking`); and which exit codes and saves go with which label (`Progress`). It gives `DumpWhole`
(`DumpHoldsAll`), `Reproduces` (`ReplayReproduces`), `ReplaySelection` (`ReplaySelects`), and
`Implements`: every action of `Session` is an action of `Logbook` or a stutter under the mapping `LB`
(`KeepsLogbook`), with one lemma per action that changes what the mapping reads.

**AlarmDecoder.** `DecoderInvariant` ties `size`, `offset` and the stream
together and bounds `offset` and `reach` by `size`; `TypeCorrect` and `Inside` follow. Types
matter here: `value` is a natural only where the bytes it is read from exist.

`Sounded` (`ReportsWhatSounded`) relates two readings of the same bytes. Its invariant `Decoding` says that
between two steps the walk has done the first `k` samples for some `k` (`Between`): `offset` is where
sample `k + 1` begins, `time` the waypoints completed so far times the interval, `alarms` the bits in
effect, and the events those of these samples, in order and all before `time`. Lemma `SampleIs`: the decoder's table takes a
whole sample at that offset for what it is, with all its bytes and no more; lemma `DamagedIs`: it takes a
damaged rest for no sample. So the walk rejects a record or finishes only at `k = Len(written)` (`AtEnd`),
and which of the two depends on whether anything is left. Both lemmas go by the type byte through the rows of
the table (`RowOf`, `EndOf`); the offsets of samples in their encoding are an induction over the samples
(`EncodedAt`). TLC checked the invariant on a small instance before it was proved.

`EveryRecord` shows that nothing is left out by what is assumed of `Recordings`: of all ways to take
samples off the front of some bytes, the one that leaves the fewest leaves a rest that is empty or damaged
(`FirstSample`). Hence `Sounded` is about every record the decoder can be given. `Advances`: each sample moves the walk
and keeps it in the record.

**DiveParse.** `Released` proves `ParserReleased` from which label holds the parser and
that it was made. `Readings` (`FaithfulReadings`) and `Refines` (`ImplementsParsedDive`) share the
inductive invariant `IInv`: for each reading, that it is there from its call on, is not there before,
and may be there after a return with an error (`Taken`); that no tank the loop has passed has
both pressures, so that the one it stops at is the least (lemma `FirstOf`); and what the
date may be at each label. `TypeCorrect` adds the types of the dive (`DataIInv`), through every report, alarm and sort;
`Mixes` (`FaithfulMixes`) that the mixes are those reported, by the number of valid ones before each.

What is written is proved from one more invariant, the theorem `SubsamplesTraced`. Its part `TraceIInv` says that there
is a map `o` from the subsamples of the dive to what they come from, a report by its number or an alarm by its
number with a minus, which takes each of them exactly once (`TracedOnce`, `TracedAll`), into a sample
of its second (`TracedEach`), and two reports of one sample have no time between them (`TracedTogether`). The
existence of the map is what survives: a report extends it at the last sample, an alarm at the first sample of its second or at a new
one at the end, and the sort permutes it. The sums and counts of the properties need it because samples may share a
second, and alarms join samples long past.
A second map (`WrittenFrom`) takes the children of a waypoint to the subsamples, through the loop and the sort
of `_createWaypoint`. From the two:
`Conforms` (`WaypointsConform`), since a sample has one value of each kind (what the parser promises, and
`TracedTogether`), there is one marker (`MarkedIff`), and the sort's ranks agree with the schema's order; `Signals`
(`SignalsWritten`), since the composition of the maps is a bijection between the alarms of a
second and the events and buzzers of that second (`AlarmsCounted`, `EventTargets`, `BuzzTargets`); and `LowestIsTrue`
(`LowestTemperatureTrue`), since every temperature reading is a child and the other way round.

**DiveAlgos.** `AlgorithmsInvariant` holds from the first sample to the values written. In the scan, `currentLast` is
the first of the samples seen at which the dive is over as far as these tell (`Scanned`). At the
end of the loop this is the definition of the surfacing, hence `Truncates`
(`StopsAtSurfacing`; that its position in the list and its time agree is `TimedInv`: the computer's samples are the first and in
order, and those behind them have no depth) and `KeepsDiving`: no sample of 1 m or more is cut away, so the greatest depth survives
(`GreatestSurvives`, `DepthSurvives`). `AlarmInv` says that each alarm is on one sample of its second, the first, and `OrderInv` that no
sample with a pressure is behind a later one, although the alarms added samples at the end: with the
stability of the sort, this is why the readings the tanks take before the sort are the first after it (`StartIsFixed`,
`DropIsOfOneTank`) and why alarms are written once (`WritesAlarms`); of a truncated dive, an alarm that joined a sample
of the computer until the surfacing joined one that is kept. `AverageIsBetween`, for the average that is computed because none is
reported, is an induction over the sorted samples: every
trapezium lies between the least and the greatest depth times its width. `TypeCorrect` includes the values derived.

**ProfileData.** `TypeCorrect`; `GasLinks` (`LinksResolve`) from an invariant on the mixes the
loops have visited, with lemmas on names: two mixes of one name are within a percent of
each other; `TimesPassed` (`PassedTimeTrue`) from an invariant on the dives the interval
loop has been at; `Tiles` (`GroupsTile`) and `Days` (`GroupsAreDays`) from invariants on the
groups written and the one being collected: no dive behind the list is of a day of the list, which
follows from the sort and from a calendar day being an interval (`DaysAreIntervals`).

Only model-checked: liveness (`Returns`, `RunEnds`) and whatever needs `ENABLED`, which
are out of the prover's reach. Of `Returns` the part that is safety is proved (`DumpFileProofs!Advances`): the loop makes
progress; that the code takes its next step is fairness. That the recursive functions
compute what they should is proved for every argument wherever a theorem above uses it.

## What is not modelled

- The memory image of `--dump-memory`: a file nothing reads back. A failure to write it
  does not end the run, which `Register` allows for. The fingerprint: no option sets it.
- What libdivecomputer and libxml2 do inside; they may succeed or fail.
- Parsing of the command line, listings, logging, memory management.
- The bytes of the UDDF document and of a dive record's header; the generator and diver
  blocks, which are fixed text.
- Out of memory: glib ends the program.
- Surface intervals of more than 68 years, which would overflow (`src/dif/dif.c:503`).
- A run whose user saves the dump and the UDDF file under one name.

## What could come next

1. Composition of `AlarmDecoder` and `DiveParse`: a raw record to the alarms written. Now the decoder's
   events are an input of `DiveParse`.
2. Legal and illegal combinations of options in `main`, and the search for a descriptor.
