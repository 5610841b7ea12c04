------------------------------ MODULE DumpFile ------------------------------
(***************************************************************************)
(* The dump file splitter, src/src/dumpfile.c.                             *)
(*                                                                         *)
(* A dump is a sequence of records framed as [magic][length][payload],     *)
(* where the length counts the header.  The splitter walks a buffer of     *)
(* ARBITRARY bytes, so all it can learn at an offset is the header it      *)
(* would read there: no magic, or a claimed length.  A buffer is therefore *)
(* the sequence of its header views, one for each offset (offset o is      *)
(* element o + 1).  Views of overlapping headers are independent here,     *)
(* which allows more buffers than there are.                               *)
(***************************************************************************)
EXTENDS Integers, Sequences

CONSTANTS
    HeaderSize,     \* UWATEC_SMART_HEADER_SIZE, 8 in the code
    NoMagic,        \* the view of an offset that does not hold the magic
    Buffers         \* the buffers the splitter may be called with

HeaderView == Nat \cup {NoMagic}

ASSUME HeaderSizeAssumption == HeaderSize \in Nat \ {0}
ASSUME NoMagicAssumption == NoMagic \notin Nat
ASSUME BuffersAssumption == Buffers \subseteq Seq(HeaderView)

VARIABLES
    buf,        \* the buffer being split
    offset,     \* offset of the next record
    index,      \* number of records passed to the callback and accepted
    visited,    \* history: the [at, size] of each callback call
    result      \* the outcome: "running", "ok", or the DumpfileError

splitter == <<offset, index, visited, result>>
vars == <<buf, offset, index, visited, result>>

Errors == {"EMPTY", "BAD_MAGIC", "BAD_LENGTH"}
Results == {"running", "ok"} \cup Errors

-----------------------------------------------------------------------------
(* What the loop reads at the current offset. *)

Remaining == Len(buf) - offset

Header == buf[offset + 1]

HasMagic == Remaining >= HeaderSize /\ Header # NoMagic

(* Faults: the length is not compared with what remains, or is by one less. *)
HasAnyLength == HeaderSize < Header
HasShorterLength == HeaderSize < Header /\ Header < Remaining

HasLength == HeaderSize < Header /\ Header <= Remaining

-----------------------------------------------------------------------------

(* Fault: the index of the last record, before there is one. *)
StartBelow ==
    /\ offset = 0
    /\ index = -1
    /\ visited = <<>>
    /\ result = "running"

(* The splitter's locals when it is called. *)
Start ==
    /\ offset = 0
    /\ index = 0
    /\ visited = <<>>
    /\ result = "running"

Init ==
    /\ buf \in Buffers
    /\ Start

Fail(error) ==
    /\ result' = error
    /\ UNCHANGED <<offset, index, visited>>

RejectEmpty ==
    /\ result = "running"
    /\ buf = <<>>
    /\ Fail("EMPTY")

RejectMagic ==
    /\ result = "running"
    /\ offset < Len(buf)
    /\ ~HasMagic
    /\ Fail("BAD_MAGIC")

(* Fault: a record of a bad length is skipped by that length. *)
SkipBadLength ==
    /\ result = "running"
    /\ offset < Len(buf)
    /\ HasMagic
    /\ ~HasLength
    /\ offset' = offset + Header
    /\ UNCHANGED <<index, visited, result>>

RejectLength ==
    /\ result = "running"
    /\ offset < Len(buf)
    /\ HasMagic
    /\ ~HasLength
    /\ Fail("BAD_LENGTH")

(* The callback is given the record and asks for the next one, or not. *)
Visit(more) ==
    /\ result = "running"
    /\ offset < Len(buf)
    /\ HasMagic
    /\ HasLength
    /\ visited' = Append(visited, [at |-> offset, size |-> Header])
    /\ \/ /\ more
          /\ offset' = offset + Header
          /\ index' = index + 1
          /\ UNCHANGED result
       \/ /\ ~more
          /\ result' = "ok"
          /\ UNCHANGED <<offset, index>>

Finish ==
    /\ result = "running"
    /\ buf # <<>>
    /\ offset >= Len(buf)
    /\ result' = "ok"
    /\ UNCHANGED <<offset, index, visited>>

(* Fault: the record the callback stopped at is not counted. *)
IndexOnly == IF result \in Errors THEN -1 ELSE index

(* The value returned to the caller, once the splitter has returned. *)
ReturnValue ==
    CASE result \in Errors -> -1
      [] result = "ok" /\ offset < Len(buf) -> index + 1
      [] OTHER -> index

Reject == RejectEmpty \/ RejectMagic \/ RejectLength

Step == Reject \/ Finish \/ \E more \in BOOLEAN : Visit(more)

Next == Step /\ UNCHANGED buf

Spec == Init /\ [][Next]_vars /\ WF_vars(Next)

-----------------------------------------------------------------------------
(* Properties *)

Record == [at : Nat, size : Nat]

(* Every variable has its type: the splitter's locals in dumpfile.c. *)
TypeOK ==
    /\ buf \in Buffers
    /\ offset \in Nat
    /\ index \in Nat
    /\ visited \in Seq(Record)
    /\ result \in Results

(* The records handed to the callback tile the buffer from its start: each *)
(* begins where the one before it ends, and none is too short for a        *)
(* payload or reaches past the end, whatever bytes the file holds          *)
(* (dumpfile.c:48-61, the checks on a length that comes from the file).    *)
RecordsTile ==
    \A i \in 1..Len(visited) :
        /\ visited[i].at = IF i = 1 THEN 0
                           ELSE visited[i - 1].at + visited[i - 1].size
        /\ visited[i].size > HeaderSize
        /\ visited[i].at + visited[i].size <= Len(buf)

(* The count returned is the number of callbacks made, also when the       *)
(* callback stops the walk at its last record, where the code has not yet  *)
(* incremented the index (dumpfile.h: "the number of records visited").    *)
CountsVisits ==
    result = "ok" => ReturnValue = Len(visited)

(* A well-formed record can be read at offset o of buffer b. *)
RecordAt(b, o) ==
    /\ o + HeaderSize <= Len(b)
    /\ b[o + 1] # NoMagic
    /\ HeaderSize < b[o + 1]
    /\ o + b[o + 1] <= Len(b)

(* The set cuts holds the start and, with every record's offset, the       *)
(* offset the record ends at.                                              *)
Cuts(b, cuts) ==
    /\ cuts \subseteq 0..Len(b)
    /\ 0 \in cuts
    /\ \A o \in cuts \ {Len(b)} : RecordAt(b, o) /\ o + b[o + 1] \in cuts

(* The format dumpfile.h documents: back-to-back records, nothing else.    *)
IsDump(b) == b # <<>> /\ \E cuts \in SUBSET (0..Len(b)) : Cuts(b, cuts)

(* The verdict is exact: an error is returned only for a buffer that is    *)
(* not a dump, and a walk that was not stopped succeeds only on a dump.    *)
AcceptsDumps ==
    /\ result \in Errors => ~IsDump(buf)
    /\ (result = "ok" /\ offset = Len(buf)) => IsDump(buf)

(* Every call returns: a length that does not move the offset, 0 above     *)
(* all, ends the walk (dumpfile.c:48), so a file cannot make the loop spin.*)
Returns == <>(result # "running")

=============================================================================
