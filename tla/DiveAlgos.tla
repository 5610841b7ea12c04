------------------------------ MODULE DiveAlgos ------------------------------
(***************************************************************************)
(* The life of one dive between the parser and the file: the samples that  *)
(* sample_cb collects and the alarms that doparse attaches to them         *)
(* (src/src/dc2uddf.c), the two algorithms process_and_save may apply      *)
(* (src/src/dif/algos.c), and what _createDive derives from the samples it *)
(* writes (src/src/dif/uddf.c).                                            *)
(*                                                                         *)
(* A sample keeps what these steps tell apart: its time, its depth, its    *)
(* pressure readings and how many alarms it carries.  Depths are in        *)
(* millimetres and pressures in tenths of a bar, so that the thresholds of *)
(* the code are integers; the parser's clock is in milliseconds.           *)
(***************************************************************************)
EXTENDS StableSort, SequencesExt, FiniteSetsExt

CONSTANT
    Families    \* kinds of dives to look at: what the computer may report of one

Reading == [tank : Nat, value : Nat]

(* What doparse found besides the samples: the begin and end pressures     *)
(* (<<>> if it did not) and the average depth (0 if it did not; one of 0   *)
(* is not kept).                                                           *)
Reported == [pressures : {<<>>} \cup ((Nat \ 0..1) \X (Nat \ 0..1)), average : Nat]

(* Of a family: the milliseconds between two samples, the depths in        *)
(* millimetres, the pressures, what else is reported, the seconds at which *)
(* the decoder may find an alarm, and bounds on the samples the parser     *)
(* reports, the pressures in one of them and the alarms.                   *)
ASSUME FamiliesAssumption ==
    \A f \in Families :
        /\ DOMAIN f = {"intervals", "depths", "readings", "reported", "alarmTimes",
                       "maxSamples", "maxPressures", "maxAlarms"}
        /\ f.intervals \subseteq Nat /\ f.depths \subseteq Nat /\ f.alarmTimes \subseteq Nat
        /\ f.readings \subseteq Reading
        /\ f.reported \subseteq Reported
        /\ f.maxSamples \in Nat /\ f.maxPressures \in Nat /\ f.maxAlarms \in Nat

VARIABLES
    family,     \* the kind of the dive
    opts,       \* truncateDives and initialPressureFix of program_options_t
    reported,   \* the tank pressures and the average depth of the dive, if it has them
    phase,      \* how far the dive has come
    clock,      \* time of the parser's last sample
    samples,    \* dive->samples
    timed,      \* history: how many of them the parser reported, the first ones
    alarms,     \* history: times of the alarms attached to the dive
    parsed,     \* history: the samples as doparse left them
    scan,       \* truncation: the sample the loop is at, and currentLast (0: NULL)
    info        \* informationafterdive and tankdata, as written

vars == <<family, opts, reported, phase, clock, samples, timed, alarms, parsed, scan, info>>

DepthMin == 1000        \* DEPTH_MIN
Epsilon == 1            \* EPSILON, of a depth
PressureMin == 10       \* PRESSURE_MIN
GasEpsilon == 1         \* GAS_EPSILON, of a pressure

NoDepth == -1

-----------------------------------------------------------------------------
(* The samples, as the steps below read them. *)

NewSample(t) == [time |-> t, depth |-> NoDepth, pressures |-> <<>>, alarms |-> 0]

(* dif_sample_get_subsample returns the first pressure of a sample. *)
HasPressure(s) == s.pressures # <<>>
Pressure(s) == s.pressures[1]

FindSample(list, t) == SelectInSeq(list, LAMBDA s : s.time = t)

(* Fault: the samples stay in the order they were added. *)
AsAdded(list) == list

Sorted(list) == SortedBy(list, LAMBDA s : s.time)

(* The samples whose pressure a scan for a tank stops at; any if tank < 0. *)
Valid(list, tank) ==
    {i \in DOMAIN list :
        /\ HasPressure(list[i])
        /\ tank < 0 \/ Pressure(list[i]).tank = tank
        /\ Pressure(list[i]).value > GasEpsilon}

InitialPressure(list, tank) ==
    IF Valid(list, tank) = {} THEN 0 ELSE Pressure(list[Min(Valid(list, tank))]).value

(* Fault: the last pressure of any tank. *)
LastPressure(list, tank) ==
    IF Valid(list, -1) = {} THEN 0 ELSE Pressure(list[Max(Valid(list, -1))]).value

FinalPressure(list, tank) ==
    IF Valid(list, tank) = {} THEN 0 ELSE Pressure(list[Max(Valid(list, tank))]).value

InitialTank(list) ==
    IF Valid(list, -1) = {} THEN -1 ELSE Pressure(list[Min(Valid(list, -1))]).tank

(* Fault: the scan starts from no depth. *)
GreatestDepthFromNone(list) == Max({NoDepth} \cup {list[i].depth : i \in DOMAIN list})

GreatestDepth(list) == Max({0} \cup {list[i].depth : i \in DOMAIN list})

Duration(list) == Max({0} \cup {list[i].time : i \in DOMAIN list})

(* The flags of the dive, set when doparse found these. *)
HasTankPressures == reported.pressures # <<>>
HasAvgdepth == reported.average # 0

(* The loop of dif_dive_get_average_depth: the number, the sum and the     *)
(* last of the depths so far, the times of the first and of the last, and  *)
(* the area under them, twice.                                             *)
NoneMeasured == [count |-> 0, sum |-> 0, depth |-> 0, first |-> 0, last |-> 0, area |-> 0]

WithDepth(m, s) ==
    IF s.depth = NoDepth THEN m
    ELSE [count |-> m.count + 1,
          sum |-> m.sum + s.depth,
          depth |-> s.depth,
          first |-> IF m.count = 0 THEN s.time ELSE m.first,
          last |-> s.time,
          area |-> IF m.count = 0 THEN 0
                   ELSE m.area + (m.depth + s.depth) * (s.time - m.last)]

MeasuredUpTo(list) ==
    LET upTo[n \in 0..Len(list)] ==
            IF n = 0 THEN NoneMeasured ELSE WithDepth(upTo[n - 1], list[n])
    IN  upTo

Measured(list) == MeasuredUpTo(list)[Len(list)]

(* Fault: over the time since the parser's clock started.                  *)
AverageSinceZero(list) ==
    LET measured == Measured(Sorted(list))
    IN  IF measured.last = 0 THEN [sum |-> 0, per |-> 1]
        ELSE [sum |-> measured.area, per |-> 2 * measured.last]

(* The average depth as a fraction: over the time from the first depth to  *)
(* the last, or over their number if no time passes between them.          *)
AverageDepth(list) ==
    LET measured == Measured(Sorted(list))
        elapsed == measured.last - measured.first
    IN  IF measured.count = 0 THEN [sum |-> 0, per |-> 1]
        ELSE IF elapsed = 0 THEN [sum |-> measured.sum, per |-> measured.count]
        ELSE [sum |-> measured.area, per |-> 2 * elapsed]

(* The one written: the reported one, if there is one; none if it is 0.    *)
NotWritten == [sum |-> 0, per |-> 1]

AverageWritten(list) ==
    LET average == IF HasAvgdepth THEN [sum |-> reported.average, per |-> 1]
                   ELSE AverageDepth(list)
    IN  IF average.sum > 0 THEN average ELSE NotWritten

-----------------------------------------------------------------------------
(* The algorithms. *)

(* Faults: the last surfacing is not forgotten; or not at 1 m exactly.      *)
FirstSurfacing(depth) == IF scan.last = 0 /\ depth = 0 THEN scan.at ELSE scan.last

CurrentLastBelow(depth) ==
    CASE depth > DepthMin -> 0
      [] scan.last = 0 /\ depth \in 0..(Epsilon - 1) -> scan.at
      [] OTHER -> scan.last

(* The scan of dif_alg_dive_truncate_dive: a sample of 1 m or more forgets *)
(* the surfacing found so far, the next one at the surface becomes it.     *)
CurrentLast(depth) ==
    CASE depth >= DepthMin -> 0
      [] scan.last = 0 /\ depth \in 0..(Epsilon - 1) -> scan.at
      [] OTHER -> scan.last

TruncateDive == IF scan.last = 0 THEN samples ELSE SubSeq(samples, 1, scan.last)

(* Fault: a reading of 0 is a reading. *)
AddPressure(s, reading) ==
    IF HasPressure(s) THEN s ELSE [s EXCEPT !.pressures = <<reading>>]

(* A pressure overwrites the value of the sample's own one, or is added.   *)
SetPressure(s, reading) ==
    IF HasPressure(s) THEN [s EXCEPT !.pressures[1].value = reading.value]
    ELSE [s EXCEPT !.pressures = <<reading>>]

InitialPressureFix(list) ==
    LET above == {i \in DOMAIN list :
                    HasPressure(list[i]) /\ Pressure(list[i]).value > PressureMin}
    IN  IF above = {} THEN list
        ELSE [i \in DOMAIN list |->
                IF i < Min(above) THEN SetPressure(list[i], Pressure(list[Min(above)]))
                ELSE list[i]]

-----------------------------------------------------------------------------

NoInfo == [tankBegin |-> 0, greatest |-> 0, duration |-> 0, begin |-> 0, end |-> 0,
           drop |-> 0, average |-> NotWritten]

Init ==
    /\ family \in Families
    /\ opts \in [truncate : BOOLEAN, fix : BOOLEAN]
    /\ reported \in family.reported
    /\ phase = "samples"
    /\ clock = 0
    /\ samples = <<>>
    /\ timed = 0
    /\ alarms = {}
    /\ parsed = <<>>
    /\ scan = [at |-> 1, last |-> 0]
    /\ info = NoInfo

(* sample_cb: a time opens a sample ... *)
Time(interval) ==
    /\ phase = "samples"
    /\ Len(samples) < family.maxSamples
    /\ clock' = clock + interval
    /\ samples' = Append(samples, NewSample(clock' \div 1000))
    /\ UNCHANGED <<family, opts, reported, phase, timed, alarms, parsed, scan, info>>

(* ... that what follows it belongs to; libdivecomputer reports a time     *)
(* first, and one depth.                                                   *)
Depth(d) ==
    /\ phase = "samples"
    /\ samples # <<>>
    /\ Last(samples).depth = NoDepth
    /\ samples' = [samples EXCEPT ![Len(samples)].depth = d]
    /\ UNCHANGED <<family, opts, reported, phase, clock, timed, alarms, parsed, scan, info>>

TankPressure(reading) ==
    /\ phase = "samples"
    /\ samples # <<>>
    /\ Len(Last(samples).pressures) < family.maxPressures
    /\ samples' = [samples EXCEPT ![Len(samples)].pressures = Append(@, reading)]
    /\ UNCHANGED <<family, opts, reported, phase, clock, timed, alarms, parsed, scan, info>>

SamplesParsed ==
    /\ phase = "samples"
    /\ phase' = "alarms"
    /\ timed' = Len(samples)
    /\ UNCHANGED <<family, opts, reported, clock, samples, alarms, parsed, scan, info>>

(* dif_dive_add_alarm: the alarm joins the first sample of its second, or  *)
(* gets a sample of its own behind all the others.  The decoder's times    *)
(* increase.                                                               *)
AddAlarm(t) ==
    LET found == FindSample(samples, t) IN
    /\ phase = "alarms"
    /\ Cardinality(alarms) < family.maxAlarms
    /\ \A u \in alarms : u < t
    /\ samples' = IF found = 0 THEN Append(samples, [NewSample(t) EXCEPT !.alarms = 1])
                  ELSE [samples EXCEPT ![found].alarms = @ + 1]
    /\ alarms' = alarms \cup {t}
    /\ UNCHANGED <<family, opts, reported, phase, clock, timed, parsed, scan, info>>

DiveParsed ==
    /\ phase = "alarms"
    /\ phase' = "truncate"
    /\ parsed' = samples
    /\ UNCHANGED <<family, opts, reported, clock, samples, timed, alarms, scan, info>>

(* process_and_save truncates before it fixes the pressures: the loop over *)
(* the samples, one at a time, and what follows the last one kept is freed.*)
Scan ==
    /\ phase = "truncate"
    /\ opts.truncate
    /\ scan.at <= Len(samples)
    /\ scan' = [at |-> scan.at + 1, last |-> CurrentLast(samples[scan.at].depth)]
    /\ UNCHANGED <<family, opts, reported, phase, clock, samples, timed, alarms, parsed, info>>

Truncate ==
    /\ phase = "truncate"
    /\ opts.truncate => scan.at > Len(samples)
    /\ phase' = "fix"
    /\ samples' = IF opts.truncate THEN TruncateDive ELSE samples
    /\ UNCHANGED <<family, opts, reported, clock, timed, alarms, parsed, scan, info>>

Fix ==
    /\ phase = "fix"
    /\ phase' = "save"
    /\ samples' = IF opts.fix THEN InitialPressureFix(samples) ELSE samples
    /\ UNCHANGED <<family, opts, reported, clock, timed, alarms, parsed, scan, info>>

(* _createDive: the tanks' begin pressure is read before the samples are   *)
(* sorted, the rest after it.                                              *)
Save ==
    /\ phase = "save"
    /\ phase' = "saved"
    /\ samples' = Sorted(samples)
    /\ LET tank == InitialTank(samples')
           begin == IF HasTankPressures THEN reported.pressures[1]
                    ELSE InitialPressure(samples', tank)
           end == IF HasTankPressures THEN reported.pressures[2]
                  ELSE FinalPressure(samples', tank)
       IN  info' = [tankBegin |-> InitialPressure(samples, -1),
                    greatest |-> GreatestDepth(samples'),
                    duration |-> Duration(samples'),
                    begin |-> begin,
                    end |-> end,
                    drop |-> IF begin > GasEpsilon /\ end > GasEpsilon /\ begin > end
                             THEN begin - end ELSE 0,
                    average |-> AverageWritten(samples')]
    /\ UNCHANGED <<family, opts, reported, clock, timed, alarms, parsed, scan>>

Parsing ==
    \/ \E i \in family.intervals : Time(i)
    \/ \E d \in family.depths : Depth(d)
    \/ \E r \in family.readings : TankPressure(r)
    \/ SamplesParsed
    \/ \E t \in family.alarmTimes : AddAlarm(t)
    \/ DiveParsed

Next == Parsing \/ Scan \/ Truncate \/ Fix \/ Save

Spec == Init /\ [][Next]_vars

-----------------------------------------------------------------------------
(* Properties *)

Phases == {"samples", "alarms", "truncate", "fix", "save", "saved"}

Sample == [time : Nat, depth : family.depths \cup {NoDepth}, pressures : Seq(Reading),
           alarms : Nat]

TypeOK ==
    /\ family \in Families
    /\ opts \in [truncate : BOOLEAN, fix : BOOLEAN]
    /\ reported \in family.reported
    /\ phase \in Phases
    /\ clock \in Nat
    /\ samples \in Seq(Sample)
    /\ timed \in Nat
    /\ alarms \subseteq family.alarmTimes
    /\ parsed \in Seq(Sample)
    /\ scan \in [at : Nat \ {0}, last : Nat]
    /\ info \in [tankBegin : Nat, greatest : Nat, duration : Nat, begin : Nat, end : Nat,
                drop : Nat, average : [sum : Nat, per : Nat \ {0}]]

(* Where a dive is over: at its first sample at the surface that no sample *)
(* of 1 m or more follows, 0 if there is none.                             *)
Surfacing(list) ==
    LET over == {i \in DOMAIN list :
                    /\ list[i].depth = 0
                    /\ \A j \in (i + 1)..Len(list) : list[j].depth < DepthMin}
    IN  IF over = {} THEN 0 ELSE Min(over)

(* Truncation stops the dive, and when.                                    *)
Surfaced == opts.truncate /\ Surfacing(parsed) # 0
SurfacingTime == parsed[Surfacing(parsed)].time

(* The samples of the dive the user asked for. *)
Kept == IF Surfaced THEN SubSeq(parsed, 1, Surfacing(parsed)) ELSE parsed

(* "this stops a dive after you've surfaced if you don't go down below 1m  *)
(* again" (README, --truncate): dif_alg_dive_truncate_dive leaves a first  *)
(* part of the list, of the computer's samples exactly those up to the     *)
(* surfacing, however often the diver surfaced before, and nothing later   *)
(* than it, although the alarms may have put samples of any time behind.   *)
(* A dive without a surfacing keeps all.                                   *)
StopsAtSurfacing ==
    phase = "fix" =>
        /\ samples = SubSeq(parsed, 1, Len(samples))
        /\ ~Surfaced => samples = parsed
        /\ Surfaced =>
              /\ \A i \in 1..timed :
                    \/ i \in DOMAIN samples /\ i <= Surfacing(parsed)
                    \/ i \notin DOMAIN samples /\ parsed[i].time >= SurfacingTime
              /\ \A i \in DOMAIN samples : samples[i].time <= SurfacingTime

(* No option takes diving away: the greatest depth written is that of the  *)
(* dive as it was parsed (algos.c:86-97 before uddf.c:395), save for a     *)
(* dive that never reached 1 m.                                            *)
DepthSurvives ==
    phase = "saved" /\ GreatestDepth(parsed) >= DepthMin =>
        info.greatest = GreatestDepth(parsed)

(* The average depth, where the computer reports none and it is computed,  *)
(* lies between the least and the greatest depth of the samples written,   *)
(* whatever times they have and however many lack a depth (dif.c:589-625): *)
(* the weights are times between samples, of the same second, of one, or   *)
(* of several.                                                             *)
AverageBetween ==
    phase = "saved" /\ ~HasAvgdepth =>
        LET depths == {samples[i].depth : i \in DOMAIN samples} \ {NoDepth}
        IN  depths # {} =>
                /\ info.average.sum >= Min(depths) * info.average.per
                /\ info.average.sum <= Max(depths) * info.average.per

(* Begin and end of the pressure drop are readings of one tank.            *)
OneTank ==
    phase = "saved" /\ ~HasTankPressures /\ info.begin # 0 =>
        \E i, j \in DOMAIN parsed :
            /\ HasPressure(parsed[i]) /\ HasPressure(parsed[j])
            /\ Pressure(parsed[i]).tank = Pressure(parsed[j]).tank
            /\ Pressure(parsed[i]).value = info.begin
            /\ Pressure(parsed[j]).value = info.end
            /\ parsed[i].time <= parsed[j].time

(* The pressure drop is that of one tank (uddf.c:424-427), unless the      *)
(* initial pressure fix has rewritten the readings.                        *)
OneTankUnfixed == ~opts.fix => OneTank

(* "sets the initial pressure to the first valid pressure reading" (README,*)
(* --ipf): it is the begin pressure of the tanks, and no waypoint written  *)
(* before it shows another pressure, in the order the samples are sorted   *)
(* into after the fix.                                                     *)
FixedStart ==
    LET above == {i \in DOMAIN Kept :
                    HasPressure(Kept[i]) /\ Pressure(Kept[i]).value > PressureMin}
        first == Kept[Min(above)]
    IN  phase = "saved" /\ opts.fix /\ above # {} =>
            /\ info.tankBegin = Pressure(first).value
            /\ \A i \in DOMAIN samples :
                  HasPressure(samples[i]) /\ samples[i].time < first.time =>
                      Pressure(samples[i]).value = Pressure(first).value

(* An alarm at second t is no later than the surfacing the dive stops at.  *)
InDive(t) == Surfaced => t <= SurfacingTime

(* The computer reported a sample of second t, for the alarm to join.      *)
HasWaypoint(t) == \E i \in 1..timed : parsed[i].time = t

WrittenOnce(t) ==
    \E i \in DOMAIN samples :
        /\ samples[i].time = t /\ samples[i].alarms = 1
        /\ \A j \in DOMAIN samples \ {i} : samples[j].time = t => samples[j].alarms = 0

(* The waypoints are written in order, and every alarm (dif.c:246-268) is  *)
(* written once, at its second: by the one waypoint of that second that    *)
(* has an alarm, however many others share the second.  If the dive is     *)
(* stopped at its surfacing, so are the alarms until then at a second with *)
(* a sample of the computer; for the others see AlarmsSurvive.             *)
AlarmsWritten ==
    phase = "saved" =>
        /\ \A i \in 2..Len(samples) : samples[i - 1].time <= samples[i].time
        /\ \A t \in alarms :
              InDive(t) /\ (Surfaced => HasWaypoint(t)) => WrittenOnce(t)

-----------------------------------------------------------------------------
(* What the comments say and the code does not do. *)

(* "the sample fallback pins begin and end to the tank that produced the   *)
(* first valid reading so multi-tank dives never mix pressures from        *)
(* different tanks" (uddf.c:417-419): a drop is never written for two.     *)
NeverMixesTanks == info.drop > 0 => OneTank

(* "Truncates all points after the last time the surface is 0 and there is *)
(* never another time the depth goes below 0.0" (algos.c:81-83): no sample *)
(* with a depth is among them.                                             *)
CutsNoDescent ==
    phase = "fix" => \A i \in DOMAIN parsed : parsed[i].depth > 0 => i \in DOMAIN samples

(* The alarms are re-decoded "directly from the raw dive record" and       *)
(* emitted (README:220-223), at a second without a sample "a new sample is *)
(* created" (dif.c:250), and truncation "stops a dive after you've         *)
(* surfaced" (README:233): no alarm until then is lost.                    *)
AlarmsSurvive == phase = "saved" => \A t \in alarms : InDive(t) => WrittenOnce(t)

=============================================================================
