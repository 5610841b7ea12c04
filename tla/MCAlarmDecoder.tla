--------------------------- MODULE MCAlarmDecoder ---------------------------
(* Small instances of AlarmDecoder. *)
EXTENDS AlarmDecoder

Sets(byte, b) == [bytes |-> <<byte>>, waypoints |-> 0, bits |-> b]
Completes(bs, n) == [bytes |-> bs, waypoints |-> n, bits |-> NoBits]

(* Depths of one and of three bytes, times, the events of each index; the  *)
(* data bytes are, read as type bytes, events themselves.                  *)
SomeSamples == {
    Completes(<<0>>, 1), Completes(<<241, 225, 226>>, 1),
    Completes(<<194>>, 2), Completes(<<192>>, 0),
    Sets(224, 0), Sets(225, 1), Sets(235, 3), Sets(228, 4),
    Completes(<<240, 225>>, 0), Completes(<<249, 226>>, 0), Completes(<<161>>, 0),
    Completes(<<250, 225, 0, 0, 0, 0, 0, 0, 226>>, 0),
    Completes(<<251, 1>>, 0), Completes(<<251, 3, 226, 0>>, 0)}

(* No type, a misc sample without a length, one longer than the record.    *)
BadTails == {<<252>>, <<251, 0>>, <<251, 9, 0>>}
Cuts == {<<>>} \cup UNION {{SubSeq(s.bytes, 1, k) : k \in 1..(Len(s.bytes) - 1)} :
                          s \in SomeSamples}

Shorter(n, tails) == [samples : BoundedSeq(SomeSamples, n), rest : tails]

SomeRecordings == Shorter(3, {<<>>} \cup BadTails) \cup Shorter(2, Cuts)
=============================================================================
