---------------------------- MODULE MCDiveAlgos ----------------------------
(* Small instances of DiveAlgos. *)
EXTENDS DiveAlgos

NoneReported == [pressures |-> <<>>, average |-> 0]

(* The surface, under it, and the threshold of 1 m and its neighbour, with *)
(* one alarm, between the samples or behind them.                          *)
Profile == [intervals |-> {1000}, depths |-> {0, 999, 1000, 2000}, readings |-> {},
            reported |-> {NoneReported}, alarmTimes |-> {2, 6},
            maxSamples |-> 5, maxPressures |-> 0, maxAlarms |-> 1]

(* Two tanks; no reading, the threshold of 1 bar, and two valid readings.  *)
(* Samples a second apart, or two of the same second.                      *)
Gauges == [intervals |-> {500, 1000}, depths |-> {0, 1000},
           readings |-> {[tank |-> 1, value |-> 0], [tank |-> 1, value |-> 2000],
                         [tank |-> 2, value |-> 10], [tank |-> 2, value |-> 900]},
           reported |-> {NoneReported, [pressures |-> <<2100, 600>>, average |-> 700]},
           alarmTimes |-> {0, 1},
           maxSamples |-> 3, maxPressures |-> 1, maxAlarms |-> 2]

(* Two pressures in a sample. *)
Manifold == [Gauges EXCEPT !.intervals = {1000}, !.depths = {0}, !.reported = {NoneReported},
                           !.alarmTimes = {}, !.maxPressures = 2, !.maxAlarms = 0]

ProfileAndGauges == {Profile, Gauges}
OnlyProfile == {Profile}
OnlyGauges == {Gauges}
OnlyManifold == {Manifold}

=============================================================================
