---------------------------- MODULE AlarmDecoder ----------------------------
(***************************************************************************)
(* uwatec_smart_alarms_decode (src/src/uwatec_smart_alarms.c): the walk    *)
(* over the samples of a Uwatec Smart dive record that recovers the bits   *)
(* of its buzzer.  The record is a stream of samples of one byte or more,  *)
(* found by the leading bits of the first one; a byte misread, and all     *)
(* that follow are.                                                        *)
(*                                                                         *)
(* Of the header the model keeps what the decoder takes from it: its size, *)
(* which the model number and the trimix bit choose, and the freedive bit. *)
(***************************************************************************)
EXTENDS Integers, Sequences, SequencesExt, FiniteSetsExt

CONSTANTS
    Models,             \* of the dive computers: a subset of Family
    Freedive,           \* values of the freedive bit of the settings
    Recordings,         \* the samples of a dive, and the bytes behind the last whole one
    ShortSizes          \* sizes of records that end within their header

(* How the switch of the decoder tells the models apart; "galileo" is the  *)
(* one whose header says by itself which layout it has.                    *)
Family == {"galileo", "galileo trimix", "square", "matrix", "other"}

Byte == 0..255

(* A sample, the waypoints it completes, and the alarm bits it sets, or    *)
(* NoBits.                                                                 *)
NoBits == -1
DeviceSample == [bytes : Seq(Byte), waypoints : Nat, bits : {NoBits} \cup 0..7]

(* The format, as the comments of the table have it: what follows the type *)
(* byte, of which the length of a misc sample counts itself.               *)
Following(bytes) ==
    CASE bytes[1] < 240 \/ bytes[1] > 251 -> 0
      [] bytes[1] \in {240, 242, 247, 249} -> 1
      [] bytes[1] \in {241, 243, 244, 245, 246, 248} -> 2
      [] bytes[1] = 250 -> 8
      [] bytes[1] = 251 -> IF Len(bytes) = 1 THEN 1 ELSE bytes[2]

(* A depth completes a waypoint, a time as many as it says; the first      *)
(* byte of the events sets the bits.                                       *)
WaypointsOf(type) ==
    CASE type \in 0..127 \cup {241} -> 1
      [] type \in 192..207 -> type - 192
      [] OTHER -> 0

BitsOf(type) == IF type \in 224..239 THEN type % 8 ELSE NoBits

WellFormed(s) ==
    /\ s.bytes # <<>>
    /\ s.bytes[1] <= 251
    /\ Len(s.bytes) = 1 + Following(s.bytes)
    /\ s.waypoints = WaypointsOf(s.bytes[1])
    /\ s.bits = BitsOf(s.bytes[1])

(* Bytes that begin with no sample: a type that does not exist, a misc     *)
(* sample that is shorter than its length byte, or a sample that is cut.   *)
Damaged(bytes) ==
    /\ bytes # <<>>
    /\ \/ bytes[1] > 251
       \/ bytes[1] = 251 /\ Len(bytes) > 1 /\ bytes[2] = 0
       \/ Len(bytes) <= Following(bytes)

ASSUME ModelsAssumption == Models \subseteq Family
ASSUME FreediveAssumption == Freedive \subseteq BOOLEAN
(* Any bytes are some samples and what remains behind them                 *)
(* (AlarmDecoderProofs!EveryRecord).                                       *)
ASSUME RecordingsAssumption ==
    /\ Recordings \subseteq [samples : Seq(DeviceSample), rest : Seq(Byte)]
    /\ \A r \in Recordings :
          /\ \A i \in DOMAIN r.samples : WellFormed(r.samples[i])
          /\ r.rest = <<>> \/ Damaged(r.rest)
ASSUME ShortSizesAssumption == ShortSizes \subseteq Nat

VARIABLES
    model, freedive,    \* from the device descriptor and the header
    written,            \* history: the samples that are whole in the record
    stream,             \* the bytes of the record after its header
    size,               \* size of the record
    offset,             \* where the walk is
    time,               \* of the next waypoint
    alarms,             \* the bits in effect
    events,             \* result
    result,             \* "running", "ok" or the error set
    reach               \* history: bytes of the record looked at, from its start

record == <<model, freedive, written, stream, size>>
vars == <<record, offset, time, alarms, events, result, reach>>

-----------------------------------------------------------------------------
(* The header. *)

TrimixFlag == 43        \* the byte that holds the trimix bit

HeaderSize == IF model \in {"galileo", "square"} THEN 152 ELSE 84

interval == IF freedive THEN 1 ELSE 4

-----------------------------------------------------------------------------
(* The table of the samples. *)

Entry(type, index, ntypebits, extrabytes) ==
    [type |-> type, index |-> index, ntypebits |-> ntypebits, extrabytes |-> extrabytes]

galileo_samples == <<
    Entry("depth", 0, 1, 0), Entry("rbt", 0, 3, 0), Entry("pressure", 0, 4, 0),
    Entry("temperature", 0, 4, 0), Entry("time", 0, 4, 0), Entry("heartrate", 0, 4, 0),
    Entry("alarms", 0, 4, 0), Entry("alarms", 1, 8, 1), Entry("depth", 0, 8, 2),
    Entry("rbt", 0, 8, 1), Entry("temperature", 0, 8, 2), Entry("pressure", 0, 8, 2),
    Entry("pressure", 1, 8, 2), Entry("pressure", 2, 8, 2), Entry("heartrate", 0, 8, 1),
    Entry("bearing", 0, 8, 2), Entry("alarms", 2, 8, 1), Entry("apnea", 0, 8, 0),
    Entry("misc", 0, 8, 1)>>

(* _galileo_identify, counting from 1. *)
identify(byte) ==
    CASE byte < 128 -> 1
      [] byte \in 128..159 -> 2
      [] byte \in 160..239 -> ((byte \div 16) % 8) + 1
      [] byte >= 240 -> (byte % 16) + 8

ApneaBytes == 8

data(at) == stream[at - HeaderSize + 1]

(* What the walk finds where it is. *)
id == identify(data(offset))
found == galileo_samples[id]
end == offset + 1 + found.extrabytes

(* The bits that share the type byte, or the bytes that follow it. *)
value ==
    CASE found.ntypebits = 1 -> data(offset) % 128
      [] found.ntypebits = 3 -> data(offset) % 32
      [] found.ntypebits = 4 -> data(offset) % 16
      [] found.extrabytes = 1 -> data(offset + 1)
      [] found.extrabytes = 2 -> 256 * data(offset + 1) + data(offset + 2)
      [] OTHER -> 0

(* Fault: the length of a misc sample, without its own byte. *)
skippedWhole ==
    CASE found.type = "apnea" -> ApneaBytes
      [] found.type = "misc" -> value
      [] OTHER -> 0

skipped ==
    CASE found.type = "apnea" -> ApneaBytes
      [] found.type = "misc" -> value - 1
      [] OTHER -> 0

complete ==
    CASE found.type = "depth" -> 1
      [] found.type = "time" -> value
      [] OTHER -> 0

(* Fault: only the data bytes of the table are checked. *)
IncompleteData == end <= size => (found.type = "misc" /\ value < 1)

Incomplete ==
    end <= size => (found.type = "misc" /\ value < 1) \/ end + skipped > size

-----------------------------------------------------------------------------

Encode(samples) == FlattenSeq([i \in DOMAIN samples |-> samples[i].bytes])

(* A record, or one that is cut short within its header.                   *)
Init ==
    /\ model \in Models
    /\ freedive \in Freedive
    /\ \/ /\ \E r \in Recordings :
                written = r.samples /\ stream = Encode(r.samples) \o r.rest
          /\ size = HeaderSize + Len(stream)
       \/ /\ written = <<>> /\ stream = <<>>
          /\ size \in ShortSizes
          /\ size < HeaderSize
    /\ offset = 0
    /\ time = 0
    /\ alarms = 0
    /\ events = <<>>
    /\ result = "header"
    /\ reach = 0

(* Fault: an error without its code. *)
FailsSomehow(error) ==
    /\ result' = "failed"
    /\ events' = <<>>
    /\ UNCHANGED <<record, offset, time, alarms>>

Fails(error) ==
    /\ result' = error
    /\ events' = <<>>
    /\ UNCHANGED <<record, offset, time, alarms>>

(* The checks of the header, in the order of the code. *)
RejectHeader ==
    /\ result = "header"
    /\ \/ /\ model \in {"galileo", "galileo trimix"}
          /\ size <= TrimixFlag
          /\ Fails("truncated") /\ UNCHANGED reach
       \/ /\ model = "other"
          /\ Fails("unsupported") /\ UNCHANGED reach
       \/ /\ model # "other"
          /\ model \in {"galileo", "galileo trimix"} => size > TrimixFlag
          /\ size < HeaderSize
          /\ Fails("truncated")
          /\ reach' = IF model \in {"galileo", "galileo trimix"} THEN TrimixFlag + 1 ELSE 0

AcceptHeader ==
    /\ result = "header"
    /\ model # "other"
    /\ size >= HeaderSize
    /\ result' = "running"
    /\ offset' = HeaderSize
    /\ reach' = HeaderSize
    /\ UNCHANGED <<record, time, alarms, events>>

RejectType ==
    /\ result = "running"
    /\ offset < size
    /\ id > Len(galileo_samples)
    /\ Fails("invalid")
    /\ reach' = offset + 1

RejectSample ==
    /\ result = "running"
    /\ offset < size
    /\ id <= Len(galileo_samples)
    /\ Incomplete
    /\ Fails("truncated")
    /\ reach' = IF end > size THEN offset + 1 ELSE end

(* A sample changes the bits in effect or completes waypoints, each of     *)
(* which is reported as long as a bit is set.                              *)
Sample ==
    /\ result = "running"
    /\ offset < size
    /\ id <= Len(galileo_samples)
    /\ ~Incomplete
    /\ offset' = end + skipped
    /\ reach' = end
    /\ alarms' = IF found.type = "alarms" /\ found.index = 0 THEN value % 8 ELSE alarms
    /\ time' = time + complete * interval
    /\ events' = IF alarms' = 0 THEN events
                 ELSE events \o [i \in 1..complete |->
                                    [timestamp |-> time + (i - 1) * interval,
                                     alarms |-> alarms']]
    /\ UNCHANGED <<record, result>>

Finish ==
    /\ result = "running"
    /\ offset >= size
    /\ result' = "ok"
    /\ UNCHANGED <<record, offset, time, alarms, events, reach>>

Next == RejectHeader \/ AcceptHeader \/ RejectType \/ RejectSample \/ Sample \/ Finish

Spec == Init /\ [][Next]_vars

-----------------------------------------------------------------------------
(* Properties *)

Event == [timestamp : Nat, alarms : 1..7]

Errors == {"truncated", "invalid", "unsupported"}

TypeOK ==
    /\ model \in Models
    /\ freedive \in Freedive
    /\ written \in Seq(DeviceSample)
    /\ stream \in Seq(Byte)
    /\ size \in Nat
    /\ offset \in Nat
    /\ time \in Nat
    /\ alarms \in 0..7
    /\ events \in Seq(Event)
    /\ result \in {"header", "running", "ok"} \cup Errors
    /\ reach \in Nat

(* No byte beyond the record is looked at, whatever the lengths in it say  *)
(* (uwatec_smart_alarms.c:216-284).                                        *)
StaysInside == reach <= size /\ (result = "running" => offset <= size)

(* The waypoints completed by the first j samples.                         *)
Completed(samples) ==
    LET completed[j \in 0..Len(samples)] ==
            IF j = 0 THEN 0 ELSE completed[j - 1] + samples[j].waypoints
    IN  completed

(* The bits in effect at sample j: those of the last that set them. *)
InEffect(samples, j) ==
    LET setting == {i \in 1..j : samples[i].bits # NoBits}
    IN  IF setting = {} THEN 0 ELSE samples[Max(setting)].bits

Sounding(samples) ==
    UNION {{[timestamp |-> interval * (Completed(samples)[j - 1] + i),
             alarms |-> InEffect(samples, j)] : i \in 0..(samples[j].waypoints - 1)}
           : j \in {k \in DOMAIN samples : InEffect(samples, k) # 0}}

(* "the bits are treated as state: they stay in effect until the next      *)
(* events-sample changes them, so a long warning is reported at every      *)
(* waypoint it spans" (uwatec_smart_alarms.c:121-123).  For a record that  *)
(* ends with a sample, the events are the waypoints at which the computer  *)
(* had a bit set, each once, in order, at the time libdivecomputer gives   *)
(* it; for any other there are none, and an error.                         *)
ReportsWhatSounded ==
    result \notin {"header", "running"} =>
        IF /\ size >= HeaderSize
           /\ model # "other"
           /\ stream = Encode(written)
        THEN /\ result = "ok"
             /\ ToSet(events) = Sounding(written)
             /\ \A i \in 2..Len(events) : events[i - 1].timestamp < events[i].timestamp
        ELSE result \in Errors /\ events = <<>>

=============================================================================
