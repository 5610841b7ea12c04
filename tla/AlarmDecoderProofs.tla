------------------------ MODULE AlarmDecoderProofs ------------------------
(***************************************************************************)
(* Proofs about AlarmDecoder, for records of any bytes: the type           *)
(* invariant, that the walk never looks beyond the end of the record, that *)
(* it reports the bits the computer set, and that it goes on.              *)
(***************************************************************************)
EXTENDS AlarmDecoder, Induction, SequenceTheorems

Framed ==
    /\ size < HeaderSize \/ size = HeaderSize + Len(stream)
    /\ result = "header" => reach = 0
    /\ result = "running" => HeaderSize <= offset /\ HeaderSize <= size

Invariant == TypeOK /\ Framed /\ StaysInside

LEMMA HeaderType == HeaderSize \in Nat \ 0..43 /\ interval \in {1, 4}
BY DEF HeaderSize, interval

(* What the table says of a sample. *)
LEMMA TableType ==
    /\ Len(galileo_samples) = 19
    /\ \A k \in 1..19 :
          /\ galileo_samples[k].ntypebits \in {1, 3, 4, 8}
          /\ galileo_samples[k].extrabytes \in 0..2
          /\ galileo_samples[k].extrabytes > 0 => galileo_samples[k].ntypebits = 8
BY DEF galileo_samples, Entry

LEMMA IdentifyType == ASSUME NEW b \in Byte PROVE identify(b) \in Nat \ {0}
BY DEF identify, Byte

LEMMA ByteType == ASSUME NEW b \in Byte PROVE b \in Nat
BY DEF Byte

-----------------------------------------------------------------------------
(* The bytes of a list of samples. *)

(* Those of the first j samples.                                           *)
EncodedTo(samples) ==
    LET encoded[j \in 0..Len(samples)] ==
            IF j = 0 THEN <<>> ELSE encoded[j - 1] \o samples[j].bytes
    IN  encoded

LEMMA SampleOf ==
    ASSUME NEW samples \in Seq(DeviceSample), NEW j \in 1..Len(samples)
    PROVE  /\ samples[j].bytes \in Seq(Byte)
           /\ samples[j].waypoints \in Nat
           /\ samples[j].bits \in {NoBits} \cup 0..7
<1>1. samples[j] \in DeviceSample
  OBVIOUS
<1>. QED  BY <1>1 DEF DeviceSample

(* Recursive as it is, EncodedTo is defined. *)
LEMMA EncodedStep ==
    ASSUME NEW samples \in Seq(DeviceSample)
    PROVE  LET encoded == EncodedTo(samples) IN
           /\ encoded \in [0..Len(samples) -> Seq(Byte)]
           /\ encoded[0] = <<>>
           /\ \A j \in 1..Len(samples) : encoded[j] = encoded[j - 1] \o samples[j].bytes
<1>. DEFINE N == Len(samples)
            S == Seq(Byte)
            a == <<>>
            With(bs, j) == bs \o samples[j].bytes
            g == [j \in 1..N |-> [bs \in S |-> With(bs, j)]]
            Is(f) == f = [j \in 0..N |-> IF j = 0 THEN a ELSE With(f[j - 1], j)]
            encoded == CHOOSE f : Is(f)
<1>0. N \in Nat /\ a \in S
  OBVIOUS
<1>1. \A j \in 1..N : \A bs \in S : With(bs, j) \in S
  BY SampleOf
<1>2. EncodedTo(samples) = encoded
  BY DEF EncodedTo
<1>. HIDE DEF N, S, With
<1>3. g \in [1..N -> [S -> S]]
  BY <1>1
<1>. HIDE DEF g, a
<1>4. PICK f \in [0..N -> S] : f[0] = a /\ \A j \in 1..N : f[j] = g[j][f[j - 1]]
  BY <1>0, <1>3, FoldExists
<1>5. Is(f)
  <2>1. \A j \in 0..N : j # 0 => j \in 1..N /\ j - 1 \in 0..N
    BY <1>0
  <2>2. \A j \in 0..N : j # 0 => g[j][f[j - 1]] = With(f[j - 1], j)
    BY <1>4, <2>1 DEF g
  <2>. QED  BY <1>4, <2>1, <2>2
<1>. HIDE DEF Is
<1>6. Is(encoded)
  BY <1>5
<1>. HIDE DEF encoded
<1>7. encoded[0] = a /\ \A j \in 1..N : encoded[j] = With(encoded[j - 1], j)
  <2>1. 0 \in 0..N /\ \A j \in 1..N : j # 0 /\ j \in 0..N
    BY <1>0
  <2>. QED  BY <1>6, <2>1 DEF Is
<1>8. \A j \in 0..N : encoded[j] \in S
  <2>1. ASSUME NEW j \in 1..N, encoded[j - 1] \in S PROVE encoded[j] \in S
    BY <1>1, <1>7, <2>1
  <2>. QED  BY <1>0, <1>7, <2>1, KeptAlong
<1>9. encoded \in [0..N -> S]
  BY <1>6, <1>8 DEF Is
<1>. QED  BY <1>2, <1>7, <1>9 DEF N, S, a, With

(* Encode is the last of them. *)
LEMMA EncodeIs ==
    ASSUME NEW samples \in Seq(DeviceSample)
    PROVE  /\ Encode(samples) = EncodedTo(samples)[Len(samples)]
           /\ Encode(samples) \in Seq(Byte)
<1>. DEFINE N == Len(samples)
            seqs == [i \in 1..N |-> samples[i].bytes]
            e == EncodedTo(samples)
            Is(f) == f = [i \in 1..N |-> IF i = 1 THEN seqs[i] ELSE f[i - 1] \o seqs[i]]
            flatten == CHOOSE f : Is(f)
<1>1. seqs \in Seq(Seq(Byte)) /\ Len(seqs) = N /\ N \in Nat
  BY SampleOf
<1>2. Encode(samples) = FlattenSeq(seqs)
  <2>1. DOMAIN samples = 1..N
    OBVIOUS
  <2>. QED  BY <2>1, Zenon DEF Encode
<1>3. FlattenSeq(seqs) = IF N = 0 THEN seqs ELSE flatten[N]
  <2>. DEFINE Is2(f) == f = [i \in 1..Len(seqs) |->
                                IF i = 1 THEN seqs[i] ELSE f[i - 1] \o seqs[i]]
  <2>1. FlattenSeq(seqs) = IF Len(seqs) = 0 THEN seqs ELSE (CHOOSE f : Is2(f))[Len(seqs)]
    BY Zenon DEF FlattenSeq
  <2>. HIDE DEF seqs
  <2>. QED  BY <1>1, <2>1
<1>4. /\ e \in [0..N -> Seq(Byte)] /\ e[0] = <<>>
      /\ \A i \in 1..N : e[i] = e[i - 1] \o seqs[i]
  BY EncodedStep
<1>. HIDE DEF e
<1>5. CASE N = 0
  <2>1. seqs = <<>>
    <3>. HIDE DEF seqs
    <3>. QED  BY <1>1, <1>5
  <2>2. <<>> \in Seq(Byte)
    OBVIOUS
  <2>. QED  BY <1>2, <1>3, <1>4, <1>5, <2>1, <2>2, Zenon DEF e
<1>6. CASE N # 0
  <2>1. \A i \in 1..N : seqs[i] \in Seq(Byte)
    BY <1>1
  <2>. HIDE DEF seqs
  <2>2. e[1] = seqs[1]
    <3>1. 1 \in 1..N
      BY <1>1, <1>6
    <3>2. e[1] = <<>> \o seqs[1]
      <4>1. 1 - 1 = 0
        OBVIOUS
      <4>. QED  BY <1>4, <3>1, <4>1, Zenon
    <3>3. seqs[1] \in Seq(Byte)
      BY <2>1, <3>1
    <3>. QED  BY <3>2, <3>3, ConcatEmptySeq, Zenon
  <2>. DEFINE h == [i \in 1..N |-> e[i]]
  <2>3. Is(h)
    <3>1. \A i \in 1..N : i # 1 => i - 1 \in 1..N
      BY <1>1
    <3>2. \A i \in 1..N : h[i] = IF i = 1 THEN seqs[i] ELSE h[i - 1] \o seqs[i]
      BY <1>4, <2>2, <3>1
    <3>. HIDE DEF e
    <3>. QED  BY <3>2
  <2>. HIDE DEF Is, h
  <2>4. Is(flatten)
    BY <2>3
  <2>. HIDE DEF flatten
  <2>5. \A i \in 1..N :
           flatten[i] = IF i = 1 THEN seqs[i] ELSE flatten[i - 1] \o seqs[i]
    BY <2>4 DEF Is
  <2>. DEFINE T == {i \in 1..N : flatten[i] = e[i]}
  <2>6. 1 \in T
    BY <1>1, <1>6, <2>2, <2>5
  <2>7. \A i \in 1..(N - 1) : i \in T => i + 1 \in T
    <3>. SUFFICES ASSUME NEW i \in 1..(N - 1), i \in T PROVE i + 1 \in T
      OBVIOUS
    <3>1. i + 1 \in 1..N /\ i + 1 # 1 /\ (i + 1) - 1 = i
      BY <1>1
    <3>2. flatten[i] = e[i]
      OBVIOUS
    <3>3. flatten[i + 1] = flatten[i] \o seqs[i + 1]
      BY <2>5, <3>1
    <3>4. e[i + 1] = e[i] \o seqs[i + 1]
      BY <1>4, <3>1
    <3>. QED  BY <3>1, <3>2, <3>3, <3>4
  <2>. HIDE DEF T
  <2>8. 1..N \subseteq T
    <3>1. 1 \in Int /\ N \in Int
      BY <1>1
    <3>. QED  BY <2>6, <2>7, <3>1, RangeSet
  <2>9. flatten[N] = e[N]
    <3>1. N \in 1..N
      BY <1>1, <1>6
    <3>. QED  BY <2>8, <3>1 DEF T
  <2>10. Encode(samples) = e[N]
    BY <1>2, <1>3, <1>6, <2>9
  <2>. QED  BY <1>1, <1>4, <2>10 DEF e
<1>7. e[N] \in Seq(Byte)
  BY <1>1, <1>4
<1>. QED  BY <1>5, <1>6, <1>7 DEF e

LEMMA Joined ==
    ASSUME NEW S, NEW s \in Seq(S), NEW t \in Seq(S)
    PROVE  /\ s \o t \in Seq(S)
           /\ Len(s) \in Nat /\ Len(t) \in Nat /\ Len(s \o t) = Len(s) + Len(t)
           /\ \A i \in 1..Len(s) : (s \o t)[i] = s[i]
           /\ \A i \in 1..Len(t) : (s \o t)[Len(s) + i] = t[i]
OBVIOUS

(* Where each sample begins, and what is there. *)
LEMMA EncodedAt ==
    ASSUME NEW samples \in Seq(DeviceSample), NEW j \in 1..Len(samples)
    PROVE  LET e == EncodedTo(samples)
               bytes == samples[j].bytes
           IN  /\ Len(e[j - 1]) \in Nat
               /\ Len(e[j]) = Len(e[j - 1]) + Len(bytes)
               /\ Len(e[j]) <= Len(Encode(samples))
               /\ \A i \in 1..Len(bytes) : Encode(samples)[Len(e[j - 1]) + i] = bytes[i]
<1>. DEFINE N == Len(samples)
            e == EncodedTo(samples)
            bytes == samples[j].bytes
            start == Len(e[j - 1])
            T == {k \in j..N : /\ Len(e[j]) <= Len(e[k])
                               /\ \A i \in 1..Len(bytes) : e[k][start + i] = bytes[i]}
<1>1. /\ N \in Nat /\ j \in 1..N
      /\ \A k \in 0..N : e[k] \in Seq(Byte)
      /\ \A k \in 1..N : e[k] = e[k - 1] \o samples[k].bytes
      /\ \A k \in 1..N : samples[k].bytes \in Seq(Byte)
  <2>1. /\ e \in [0..N -> Seq(Byte)]
        /\ \A k \in 1..N : e[k] = e[k - 1] \o samples[k].bytes
    BY EncodedStep
  <2>2. N \in Nat /\ \A k \in 1..N : samples[k].bytes \in Seq(Byte)
    BY SampleOf
  <2>. HIDE DEF e
  <2>. QED  BY <2>1, <2>2
<1>2. Encode(samples) = e[N]
  BY EncodeIs
<1>. HIDE DEF e, N
<1>3. /\ e[j - 1] \in Seq(Byte) /\ e[j] \in Seq(Byte) /\ bytes \in Seq(Byte)
      /\ e[j] = e[j - 1] \o bytes
  <2>1. j - 1 \in 0..N /\ j \in 0..N
    BY <1>1
  <2>. QED  BY <1>1, <2>1
<1>4. /\ start \in Nat /\ Len(bytes) \in Nat /\ Len(e[j]) \in Nat
      /\ Len(e[j]) = start + Len(bytes)
      /\ \A i \in 1..Len(bytes) : e[j][start + i] = bytes[i]
  <2>. HIDE DEF bytes
  <2>. QED  BY <1>3, Joined
<1>. HIDE DEF bytes, start
<1>5. j \in T
  BY <1>1, <1>4
<1>6. \A k \in j..(N - 1) : k \in T => k + 1 \in T
  <2>. SUFFICES ASSUME NEW k \in j..(N - 1), k \in T PROVE k + 1 \in T
    OBVIOUS
  <2>1. k + 1 \in 1..N /\ k + 1 \in j..N /\ k \in 0..N /\ (k + 1) - 1 = k
    BY <1>1
  <2>2. /\ e[k] \in Seq(Byte) /\ samples[k + 1].bytes \in Seq(Byte)
        /\ e[k + 1] = e[k] \o samples[k + 1].bytes
    BY <1>1, <2>1
  <2>3. Len(e[j]) <= Len(e[k]) /\ \A i \in 1..Len(bytes) : e[k][start + i] = bytes[i]
    OBVIOUS
  <2>. DEFINE more == samples[k + 1].bytes
              before == e[k]
  <2>4. /\ Len(before \o more) = Len(before) + Len(more)
        /\ Len(before) \in Nat /\ Len(more) \in Nat
        /\ \A i \in 1..Len(before) : (before \o more)[i] = before[i]
    <3>1. before \in Seq(Byte) /\ more \in Seq(Byte)
      BY <2>2
    <3>. HIDE DEF before, more
    <3>. QED  BY <3>1, Joined
  <2>. HIDE DEF more, before
  <2>5. Len(e[j]) <= Len(before \o more)
    BY <1>4, <2>3, <2>4 DEF before
  <2>6. ASSUME NEW i \in 1..Len(bytes) PROVE (before \o more)[start + i] = bytes[i]
    <3>1. start + i \in 1..Len(before)
      BY <1>4, <2>3, <2>4 DEF before
    <3>. QED  BY <2>3, <2>4, <3>1 DEF before
  <2>. QED  BY <2>1, <2>2, <2>5, <2>6 DEF before, more
<1>. HIDE DEF T
<1>7. j..N \subseteq T
  <2>1. j \in Int /\ N \in Int
    BY <1>1
  <2>. QED  BY <1>5, <1>6, <2>1, RangeSet
<1>8. N \in T
  BY <1>1, <1>7
<1>. QED  BY <1>2, <1>4, <1>8 DEF T, e, bytes, start

(* One sample more adds its bytes at the end. *)
LEMMA EncodeAppend ==
    ASSUME NEW samples \in Seq(DeviceSample), NEW s \in DeviceSample
    PROVE  Encode(Append(samples, s)) = Encode(samples) \o s.bytes
<1>. DEFINE N == Len(samples)
            more == Append(samples, s)
            e == EncodedTo(samples)
            f == EncodedTo(more)
            T == {k \in 0..N : f[k] = e[k]}
<1>1. /\ N \in Nat /\ more \in Seq(DeviceSample) /\ Len(more) = N + 1
      /\ \A k \in 1..N : more[k] = samples[k]
      /\ more[N + 1] = s
  OBVIOUS
<1>2. e[0] = <<>> /\ \A k \in 1..N : e[k] = e[k - 1] \o samples[k].bytes
  BY EncodedStep
<1>. HIDE DEF more
<1>3. f[0] = <<>> /\ \A k \in 1..(N + 1) : f[k] = f[k - 1] \o more[k].bytes
  BY <1>1, EncodedStep
<1>4. Encode(samples) = e[N] /\ Encode(more) = f[N + 1]
  BY <1>1, EncodeIs
<1>. HIDE DEF e, f, N
<1>5. 0 \in T
  BY <1>1, <1>2, <1>3
<1>6. \A k \in 0..(N - 1) : k \in T => k + 1 \in T
  <2>. SUFFICES ASSUME NEW k \in 0..(N - 1), k \in T PROVE k + 1 \in T
    OBVIOUS
  <2>1. k + 1 \in 1..N /\ k + 1 \in 0..N /\ k + 1 \in 1..(N + 1) /\ (k + 1) - 1 = k
    BY <1>1
  <2>2. f[k] = e[k]
    OBVIOUS
  <2>. QED  BY <1>1, <1>2, <1>3, <2>1, <2>2
<1>. HIDE DEF T
<1>7. 0..N \subseteq T
  <2>1. 0 \in Int /\ N \in Int
    BY <1>1
  <2>. QED  BY <1>5, <1>6, <2>1, RangeSet
<1>8. f[N] = e[N]
  BY <1>1, <1>7 DEF T
<1>9. f[N + 1] = f[N] \o s.bytes
  <2>1. N + 1 \in 1..(N + 1) /\ (N + 1) - 1 = N
    BY <1>1
  <2>. QED  BY <1>1, <1>3, <2>1
<1>. QED  BY <1>4, <1>8, <1>9 DEF more

-----------------------------------------------------------------------------
(* The walk stays inside the record. *)

(* A byte of the record, and the sample it begins. *)
LEMMA DataType ==
    ASSUME Invariant, size = HeaderSize + Len(stream), NEW at \in HeaderSize..(size - 1)
    PROVE  data(at) \in Byte
<1>1. stream \in Seq(Byte) /\ size \in Nat
  BY DEF Invariant, TypeOK
<1>2. at - HeaderSize + 1 \in 1..Len(stream)
  BY <1>1, HeaderType
<1>. QED  BY <1>1, <1>2 DEF data

LEMMA SampleType ==
    ASSUME Invariant, result = "running", offset < size, id <= Len(galileo_samples)
    PROVE  /\ end \in Nat /\ offset < end /\ end <= offset + 3
           /\ end <= size => value \in Nat /\ complete \in Nat
           /\ end <= size /\ ~Incomplete =>
                 skipped \in Nat /\ end + skipped <= size
<1>. DEFINE entry == galileo_samples[id]
<1>1. /\ offset \in Nat /\ size \in Nat /\ HeaderSize \in Nat
      /\ HeaderSize <= offset /\ size = HeaderSize + Len(stream)
  BY HeaderType DEF Invariant, TypeOK, Framed
<1>2. data(offset) \in Byte
  BY <1>1, DataType
<1>3. id \in 1..19
  BY <1>2, IdentifyType, TableType DEF id
<1>4. /\ found.ntypebits \in {1, 3, 4, 8}
      /\ found.extrabytes \in 0..2
      /\ found.extrabytes > 0 => found.ntypebits = 8
  BY <1>3, TableType DEF found
<1>5. end \in Nat /\ offset < end /\ end <= offset + 3
  BY <1>1, <1>4 DEF end
<1>6. ASSUME end <= size PROVE value \in Nat
  <2>1. found.extrabytes > 0 => data(offset + 1) \in Byte
    BY <1>1, <1>4, <1>6, DataType DEF end
  <2>2. found.extrabytes = 2 => data(offset + 2) \in Byte
    BY <1>1, <1>4, <1>6, DataType DEF end
  <2>3. CASE found.ntypebits # 8
    <3>1. data(offset) \in Nat
      BY <1>2, ByteType
    <3>2. data(offset) % 128 \in Nat /\ data(offset) % 32 \in Nat /\ data(offset) % 16 \in Nat
      BY <3>1
    <3>. QED  BY <1>4, <2>3, <3>2 DEF value
  <2>4. CASE found.ntypebits = 8
    <3>1. found.extrabytes > 0 => data(offset + 1) \in Nat
      BY <2>1, ByteType
    <3>2. found.extrabytes = 2 => data(offset + 2) \in Nat
      BY <2>2, ByteType
    <3>. QED  BY <1>4, <2>4, <3>1, <3>2 DEF value
  <2>. QED  BY <2>3, <2>4
<1>7. end <= size => complete \in Nat
  BY <1>6 DEF complete
<1>8. ASSUME end <= size, ~Incomplete PROVE skipped \in Nat /\ end + skipped <= size
  <2>1. ~(found.type = "misc" /\ value < 1) /\ ~(end + skipped > size)
    BY <1>8 DEF Incomplete
  <2>2. skipped \in Nat
    BY <1>6, <1>8, <2>1 DEF skipped, ApneaBytes
  <2>. QED  BY <1>1, <1>5, <2>1, <2>2
<1>. QED  BY <1>5, <1>6, <1>7, <1>8

LEMMA InitInvariant == Init => Invariant
<1>. SUFFICES ASSUME Init PROVE Invariant
  OBVIOUS
<1>1. written \in Seq(DeviceSample) /\ stream \in Seq(Byte)
  <2>1. ASSUME NEW r \in Recordings, written = r.samples,
               stream = Encode(r.samples) \o r.rest
        PROVE  written \in Seq(DeviceSample) /\ stream \in Seq(Byte)
    <3>1. r.samples \in Seq(DeviceSample) /\ r.rest \in Seq(Byte)
      BY RecordingsAssumption
    <3>2. Encode(r.samples) \in Seq(Byte)
      BY <3>1, EncodeIs
    <3>. QED  BY <2>1, <3>1, <3>2
  <2>2. <<>> \in Seq(DeviceSample) /\ <<>> \in Seq(Byte)
    OBVIOUS
  <2>. QED  BY <2>1, <2>2 DEF Init
<1>2. size \in Nat /\ (size < HeaderSize \/ size = HeaderSize + Len(stream))
  <2>1. Len(stream) \in Nat /\ HeaderSize \in Nat
    BY <1>1, HeaderType
  <2>2. \/ size = HeaderSize + Len(stream)
        \/ size \in ShortSizes /\ size < HeaderSize
    BY DEF Init
  <2>3. CASE size = HeaderSize + Len(stream)
    BY <2>1, <2>3
  <2>4. CASE size \in ShortSizes /\ size < HeaderSize
    BY <2>4, ShortSizesAssumption
  <2>. QED  BY <2>2, <2>3, <2>4
<1>3. TypeOK
  BY <1>1, <1>2 DEF Init, TypeOK
<1>. QED  BY <1>2, <1>3 DEF Init, Invariant, Framed, StaysInside

(* The walk takes one step over a whole sample. *)
LEMMA SampleInvariant ==
    ASSUME Invariant, Sample
    PROVE  Invariant'
<1>1. /\ offset \in Nat /\ size \in Nat /\ time \in Nat /\ HeaderSize \in Nat
      /\ alarms \in 0..7 /\ events \in Seq(Event) /\ result = "running" /\ offset < size
      /\ HeaderSize <= offset /\ HeaderSize <= size
      /\ UNCHANGED <<record, result>>
  BY HeaderType DEF Invariant, TypeOK, Framed, Sample
<1>2. end <= size
  BY <1>1 DEF Sample, Incomplete
<1>3. /\ end \in Nat /\ offset < end
      /\ value \in Nat /\ complete \in Nat
      /\ skipped \in Nat /\ end + skipped <= size
  BY <1>1, <1>2, SampleType DEF Sample
<1>4. /\ offset' \in Nat /\ offset < offset' /\ offset' <= size
      /\ reach' \in Nat /\ reach' <= size
  BY <1>1, <1>2, <1>3 DEF Sample
<1>5. alarms' \in 0..7
  BY <1>1, <1>3 DEF Sample
<1>6. interval \in {1, 4}
  BY HeaderType
<1>7. \A i \in 1..complete : time + (i - 1) * interval \in Nat
  BY <1>1, <1>3, <1>6
<1>8. time' \in Nat
  BY <1>1, <1>3, <1>6 DEF Sample
<1>9. events' \in Seq(Event)
  <2>. DEFINE new == [i \in 1..complete |->
                        [timestamp |-> time + (i - 1) * interval, alarms |-> alarms']]
  <2>1. CASE alarms' = 0
    BY <1>1, <2>1 DEF Sample
  <2>2. CASE alarms' # 0
    <3>1. \A i \in 1..complete :
             [timestamp |-> time + (i - 1) * interval, alarms |-> alarms'] \in Event
      BY <1>5, <1>7, <2>2 DEF Event
    <3>2. new \in Seq(Event)
      BY <1>3, <3>1
    <3>3. events' = events \o new
      BY <2>2 DEF Sample
    <3>. HIDE DEF new
    <3>. QED  BY <1>1, <3>2, <3>3
  <2>. QED  BY <2>1, <2>2
<1>10. TypeOK'
  BY <1>1, <1>4, <1>5, <1>8, <1>9 DEF Invariant, TypeOK, record
<1>11. Framed'
  BY <1>1, <1>4 DEF Invariant, Framed, record, HeaderSize
<1>. QED  BY <1>1, <1>4, <1>10, <1>11 DEF Invariant, StaysInside, record

LEMMA NextInvariant ==
    ASSUME Invariant, [Next]_vars
    PROVE  Invariant'
<1>. USE DEF Invariant, Framed, StaysInside, record, Fails, Errors
<1>1. /\ offset \in Nat /\ size \in Nat /\ reach \in Nat /\ HeaderSize \in Nat \ 0..43
      /\ <<>> \in Seq(Event)
  BY HeaderType DEF TypeOK
<1>2. CASE RejectHeader
  <2>1. /\ result' \in Errors /\ events' = <<>>
        /\ UNCHANGED <<record, offset, time, alarms>>
    BY <1>2 DEF RejectHeader
  <2>2. reach' \in Nat /\ reach' <= size
    <3>1. CASE UNCHANGED reach
      BY <1>1, <3>1
    <3>2. CASE /\ model \in {"galileo", "galileo trimix"} => size > TrimixFlag
               /\ reach' = IF model \in {"galileo", "galileo trimix"}
                           THEN TrimixFlag + 1 ELSE 0
      <4>1. CASE model \in {"galileo", "galileo trimix"}
        <5>1. reach' = TrimixFlag + 1
          BY <3>2, <4>1
        <5>2. size > TrimixFlag
          BY <3>2, <4>1
        <5>. QED  BY <1>1, <5>1, <5>2 DEF TrimixFlag
      <4>2. CASE model \notin {"galileo", "galileo trimix"}
        <5>1. reach' = 0
          BY <3>2, <4>2
        <5>. QED  BY <1>1, <5>1
      <4>. QED  BY <4>1, <4>2
    <3>. QED  BY <1>2, <3>1, <3>2 DEF RejectHeader
  <2>3. HeaderSize' = HeaderSize
    BY <2>1 DEF HeaderSize
  <2>. QED  BY <1>1, <2>1, <2>2, <2>3 DEF TypeOK
<1>3. CASE AcceptHeader
  BY <1>1, <1>3 DEF AcceptHeader, TypeOK, HeaderSize
<1>4. CASE RejectType
  BY <1>1, <1>4 DEF RejectType, TypeOK, HeaderSize
<1>5. CASE RejectSample
  <2>1. end \in Nat
    BY <1>5, SampleType DEF RejectSample
  <2>. QED  BY <1>1, <1>5, <2>1 DEF RejectSample, TypeOK, HeaderSize
<1>6. CASE Sample
  BY <1>6, SampleInvariant
<1>7. CASE Finish
  BY <1>1, <1>7 DEF Finish, TypeOK, HeaderSize
<1>8. CASE UNCHANGED vars
  BY <1>8 DEF vars, TypeOK, HeaderSize
<1>. QED  BY <1>2, <1>3, <1>4, <1>5, <1>6, <1>7, <1>8 DEF Next

THEOREM DecoderInvariant == Spec => []Invariant
<1>. QED  BY InitInvariant, NextInvariant, PTL DEF Spec

(* Every variable of the decoder keeps its type. *)
THEOREM TypeCorrect == Spec => []TypeOK
<1>1. Invariant => TypeOK
  BY DEF Invariant
<1>. QED  BY <1>1, DecoderInvariant, PTL

(* Whatever the bytes of a record are, the decoder looks at none behind    *)
(* its end.                                                                *)
THEOREM Inside == Spec => []StaysInside
<1>1. Invariant => StaysInside
  BY DEF Invariant
<1>. QED  BY <1>1, DecoderInvariant, PTL

-----------------------------------------------------------------------------
(* What the walk finds is what was written. *)

(* The rows of the table, by the type byte. *)
LEMMA RowOf ==
    ASSUME NEW b \in Byte
    PROVE  LET row == galileo_samples[identify(b)] IN
           /\ identify(b) \in Nat /\ (identify(b) <= 19 <=> b <= 251)
           /\ b < 128 => row = Entry("depth", 0, 1, 0)
           /\ b \in 128..159 => row = Entry("rbt", 0, 3, 0)
           /\ b \in 160..175 => row = Entry("pressure", 0, 4, 0)
           /\ b \in 176..191 => row = Entry("temperature", 0, 4, 0)
           /\ b \in 192..207 => row = Entry("time", 0, 4, 0)
           /\ b \in 208..223 => row = Entry("heartrate", 0, 4, 0)
           /\ b \in 224..239 => row = Entry("alarms", 0, 4, 0)
           /\ b = 240 => row = Entry("alarms", 1, 8, 1)
           /\ b = 241 => row = Entry("depth", 0, 8, 2)
           /\ b = 242 => row = Entry("rbt", 0, 8, 1)
           /\ b = 243 => row = Entry("temperature", 0, 8, 2)
           /\ b = 244 => row = Entry("pressure", 0, 8, 2)
           /\ b = 245 => row = Entry("pressure", 1, 8, 2)
           /\ b = 246 => row = Entry("pressure", 2, 8, 2)
           /\ b = 247 => row = Entry("heartrate", 0, 8, 1)
           /\ b = 248 => row = Entry("bearing", 0, 8, 2)
           /\ b = 249 => row = Entry("alarms", 2, 8, 1)
           /\ b = 250 => row = Entry("apnea", 0, 8, 0)
           /\ b = 251 => row = Entry("misc", 0, 8, 1)
<1>1. /\ b < 128 => identify(b) = 1
      /\ b \in 128..159 => identify(b) = 2
      /\ \A h \in 10..14 : b \in (16 * h)..(16 * h + 15) => identify(b) = h - 7
      /\ b >= 240 => identify(b) = b - 232
  BY DEF identify, Byte
<1>2. /\ b \in 0..255 /\ identify(b) \in Nat
      /\ identify(b) <= 19 <=> b <= 251
  BY <1>1 DEF identify, Byte
<1>3. /\ galileo_samples[1] = Entry("depth", 0, 1, 0)
      /\ galileo_samples[2] = Entry("rbt", 0, 3, 0)
      /\ galileo_samples[3] = Entry("pressure", 0, 4, 0)
      /\ galileo_samples[4] = Entry("temperature", 0, 4, 0)
      /\ galileo_samples[5] = Entry("time", 0, 4, 0)
      /\ galileo_samples[6] = Entry("heartrate", 0, 4, 0)
      /\ galileo_samples[7] = Entry("alarms", 0, 4, 0)
      /\ galileo_samples[8] = Entry("alarms", 1, 8, 1)
      /\ galileo_samples[9] = Entry("depth", 0, 8, 2)
      /\ galileo_samples[10] = Entry("rbt", 0, 8, 1)
      /\ galileo_samples[11] = Entry("temperature", 0, 8, 2)
      /\ galileo_samples[12] = Entry("pressure", 0, 8, 2)
      /\ galileo_samples[13] = Entry("pressure", 1, 8, 2)
      /\ galileo_samples[14] = Entry("pressure", 2, 8, 2)
      /\ galileo_samples[15] = Entry("heartrate", 0, 8, 1)
      /\ galileo_samples[16] = Entry("bearing", 0, 8, 2)
      /\ galileo_samples[17] = Entry("alarms", 2, 8, 1)
      /\ galileo_samples[18] = Entry("apnea", 0, 8, 0)
      /\ galileo_samples[19] = Entry("misc", 0, 8, 1)
  BY DEF galileo_samples
<1>4. /\ b \in 160..175 => identify(b) = 3
      /\ b \in 176..191 => identify(b) = 4
      /\ b \in 192..207 => identify(b) = 5
      /\ b \in 208..223 => identify(b) = 6
      /\ b \in 224..239 => identify(b) = 7
  BY <1>1
<1>. QED  BY <1>1, <1>2, <1>3, <1>4

(* The bytes are those of the stream from the walk's offset on. *)
AtOffset(bytes) == \A i \in 1..Len(bytes) : data(offset + (i - 1)) = bytes[i]

LEMMA FirstByte ==
    ASSUME NEW bytes \in Seq(Byte), bytes # <<>>, AtOffset(bytes), offset \in Nat
    PROVE  /\ Len(bytes) \in Nat \ {0} /\ bytes[1] \in Byte /\ bytes[1] \in 0..255
           /\ data(offset) = bytes[1]
           /\ id = identify(bytes[1])
           /\ found = galileo_samples[identify(bytes[1])]
           /\ Len(bytes) > 1 => bytes[2] \in 0..255 /\ data(offset + 1) = bytes[2]
<1>1. Len(bytes) \in Nat \ {0}
  OBVIOUS
<1>2. 1 \in 1..Len(bytes) /\ offset + (1 - 1) = offset
  BY <1>1
<1>3. Len(bytes) > 1 => 2 \in 1..Len(bytes) /\ offset + (2 - 1) = offset + 1
  BY <1>1
<1>4. \A i \in 1..Len(bytes) : bytes[i] \in Byte
  OBVIOUS
<1>5. data(offset) = bytes[1] /\ (Len(bytes) > 1 => data(offset + 1) = bytes[2])
  BY <1>2, <1>3 DEF AtOffset
<1>. QED  BY <1>1, <1>2, <1>3, <1>4, <1>5 DEF id, found, Byte

(* What of a row the walk depends on. *)
RowAs(row, b) ==
    /\ row.type = "depth" <=> b \in 0..127 \cup {241}
    /\ row.type = "time" <=> b \in 192..207
    /\ row.type = "alarms" /\ row.index = 0 <=> b \in 224..239
    /\ row.type = "apnea" <=> b = 250
    /\ row.type = "misc" <=> b = 251
    /\ b < 240 \/ b = 250 => row.extrabytes = 0
    /\ b \in {240, 242, 247, 249, 251} => row.extrabytes = 1
    /\ b \in {241, 243, 244, 245, 246, 248} => row.extrabytes = 2
    /\ b < 128 => row.ntypebits = 1
    /\ b \in 128..159 => row.ntypebits = 3
    /\ b \in 160..239 => row.ntypebits = 4
    /\ b >= 240 => row.ntypebits = 8

LEMMA RowSays ==
    ASSUME NEW b \in Byte, b <= 251
    PROVE  RowAs(galileo_samples[identify(b)], b)
<1>. DEFINE row == galileo_samples[identify(b)]
            OneOf(type, index, n, x) == /\ row.type = type /\ row.index = index
                                        /\ row.ntypebits = n /\ row.extrabytes = x
<1>1. \A type, index, n, x : row = Entry(type, index, n, x) => OneOf(type, index, n, x)
  BY DEF Entry
<1>2. b \in 0..251
  BY DEF Byte
<1>. HIDE DEF row
<1>3. CASE b < 160
  <2>1. /\ b < 128 => OneOf("depth", 0, 1, 0)
        /\ b >= 128 => OneOf("rbt", 0, 3, 0)
    BY <1>1, <1>2, <1>3, RowOf DEF row
  <2>. QED  BY <1>2, <1>3, <2>1 DEF row, RowAs
<1>4. CASE b \in 160..207
  <2>1. /\ b < 176 => OneOf("pressure", 0, 4, 0)
        /\ b \in 176..191 => OneOf("temperature", 0, 4, 0)
        /\ b >= 192 => OneOf("time", 0, 4, 0)
    BY <1>1, <1>2, <1>4, RowOf DEF row
  <2>. QED  BY <1>2, <1>4, <2>1 DEF row, RowAs
<1>5. CASE b \in 208..239
  <2>1. /\ b < 224 => OneOf("heartrate", 0, 4, 0)
        /\ b >= 224 => OneOf("alarms", 0, 4, 0)
    BY <1>1, <1>2, <1>5, RowOf DEF row
  <2>. QED  BY <1>2, <1>5, <2>1 DEF row, RowAs
<1>6. CASE b \in 240..243
  <2>1. /\ b = 240 => OneOf("alarms", 1, 8, 1)
        /\ b = 241 => OneOf("depth", 0, 8, 2)
        /\ b = 242 => OneOf("rbt", 0, 8, 1)
        /\ b = 243 => OneOf("temperature", 0, 8, 2)
    BY <1>1, <1>2, <1>6, RowOf DEF row
  <2>. QED  BY <1>2, <1>6, <2>1 DEF row, RowAs
<1>7. CASE b \in 244..247
  <2>1. /\ b = 244 => OneOf("pressure", 0, 8, 2)
        /\ b = 245 => OneOf("pressure", 1, 8, 2)
        /\ b = 246 => OneOf("pressure", 2, 8, 2)
        /\ b = 247 => OneOf("heartrate", 0, 8, 1)
    BY <1>1, <1>2, <1>7, RowOf DEF row
  <2>. QED  BY <1>2, <1>7, <2>1 DEF row, RowAs
<1>8. CASE b \in 248..251
  <2>1. /\ b = 248 => OneOf("bearing", 0, 8, 2)
        /\ b = 249 => OneOf("alarms", 2, 8, 1)
        /\ b = 250 => OneOf("apnea", 0, 8, 0)
        /\ b = 251 => OneOf("misc", 0, 8, 1)
    BY <1>1, <1>2, <1>8, RowOf DEF row
  <2>. QED  BY <1>2, <1>8, <2>1 DEF row, RowAs
<1>. QED  BY <1>2, <1>3, <1>4, <1>5, <1>6, <1>7, <1>8

(* The definitions that go by cases, one at a time. *)
LEMMA ValueIs ==
    /\ found.ntypebits = 4 /\ found.extrabytes = 0 => value = data(offset) % 16
    /\ found.ntypebits = 8 /\ found.extrabytes = 1 => value = data(offset + 1)
<1>. DEFINE n == found.ntypebits
            x == found.extrabytes
            low(m) == data(offset) % m
            next == data(offset + 1)
            both == 256 * data(offset + 1) + data(offset + 2)
            v1 == low(128)
            v2 == low(32)
            v3 == low(16)
<1>1. value = CASE n = 1 -> v1 [] n = 3 -> v2 [] n = 4 -> v3
                [] x = 1 -> next [] x = 2 -> both [] OTHER -> 0
  BY Zenon DEF value
<1>. HIDE DEF n, x, next, both, v1, v2, v3
<1>2. n = 4 /\ x = 0 => value = v3
  BY <1>1
<1>3. n = 8 /\ x = 1 => value = next
  BY <1>1
<1>. QED  BY <1>2, <1>3, Zenon DEF n, x, v3, next

LEMMA SkippedIs ==
    /\ found.type = "apnea" => skipped = 8
    /\ found.type = "misc" => skipped = value - 1
    /\ found.type \notin {"apnea", "misc"} => skipped = 0
<1>. DEFINE less == value - 1
<1>1. skipped = CASE found.type = "apnea" -> 8
                  [] found.type = "misc" -> less
                  [] OTHER -> 0
  BY DEF skipped, ApneaBytes
<1>. HIDE DEF less
<1>2. found.type = "misc" => skipped = less
  BY <1>1
<1>3. found.type = "apnea" => skipped = 8
  BY <1>1
<1>4. found.type \notin {"apnea", "misc"} => skipped = 0
  BY <1>1
<1>. QED  BY <1>2, <1>3, <1>4 DEF less

LEMMA CompleteIs ==
    /\ found.type = "depth" => complete = 1
    /\ found.type = "time" => complete = value
    /\ found.type \notin {"depth", "time"} => complete = 0
BY DEF complete

FollowsAs(b, length, second, x) ==
    /\ b < 240 => x = 0
    /\ b \in {240, 242, 247, 249} => x = 1
    /\ b \in {241, 243, 244, 245, 246, 248} => x = 2
    /\ b = 250 => x = 8
    /\ b = 251 /\ length = 1 => x = 1
    /\ b = 251 /\ length # 1 => x = second

LEMMA FollowingIs ==
    ASSUME NEW bytes, bytes[1] \in 0..251
    PROVE  FollowsAs(bytes[1], Len(bytes), bytes[2], Following(bytes))
<1>1. PICK b \in 0..251 : b = bytes[1]
  BY Zenon
<1>. DEFINE second == IF Len(bytes) = 1 THEN 1 ELSE bytes[2]
            x == Following(bytes)
<1>2. x = CASE b < 240 \/ b > 251 -> 0
            [] b \in {240, 242, 247, 249} -> 1
            [] b \in {241, 243, 244, 245, 246, 248} -> 2
            [] b = 250 -> 8
            [] b = 251 -> second
  BY <1>1, Zenon DEF Following
<1>. HIDE DEF second, x
<1>3. b < 240 => x = 0
  BY <1>2
<1>4. b \in {240, 242, 247, 249} => x = 1
  BY <1>2
<1>5. b \in {241, 243, 244, 245, 246, 248} => x = 2
  BY <1>2
<1>6. b = 250 => x = 8
  BY <1>2
<1>7. b = 251 => x = second
  BY <1>2
<1>8. /\ Len(bytes) = 1 => second = 1
      /\ Len(bytes) # 1 => second = bytes[2]
  BY Zenon DEF second
<1>9. /\ b = 251 /\ Len(bytes) = 1 => x = 1
      /\ b = 251 /\ Len(bytes) # 1 => x = bytes[2]
  BY <1>7, <1>8, Zenon
<1>10. FollowsAs(b, Len(bytes), bytes[2], x)
  BY <1>3, <1>4, <1>5, <1>6, <1>9, Zenon DEF FollowsAs
<1>. QED  BY <1>1, <1>10, Zenon DEF x

LEMMA WaypointsOfIs ==
    ASSUME NEW b \in 0..255
    PROVE  /\ b \in 0..127 \cup {241} => WaypointsOf(b) = 1
           /\ b \in 192..207 => WaypointsOf(b) = b - 192
           /\ b \notin 0..127 \cup {241} \cup 192..207 => WaypointsOf(b) = 0
BY DEF WaypointsOf

LEMMA WaypointsOfType == ASSUME NEW b \in 0..255 PROVE WaypointsOf(b) \in Nat
<1>. DEFINE w == WaypointsOf(b)
<1>1. /\ b \in 0..127 \cup {241} => w = 1
      /\ b \in 192..207 => w = b - 192
      /\ b \notin 0..127 \cup {241} \cup 192..207 => w = 0
  BY WaypointsOfIs
<1>. HIDE DEF w
<1>2. b \in 192..207 => w \in Nat
  BY <1>1
<1>3. b \in 0..127 \cup {241} => w \in Nat
  BY <1>1
<1>4. b \notin 0..127 \cup {241} \cup 192..207 => w \in Nat
  BY <1>1
<1>. QED  BY <1>2, <1>3, <1>4, Zenon DEF w

(* Where a sample ends that begins with the bytes b and c, of length bytes *)
(* of which x should follow the first.                                     *)
EndsAs(b, c, length, x) ==
    /\ b < 250 => found.type # "misc" /\ skipped = 0 /\ end = offset + 1 + x
    /\ b = 250 => found.type # "misc" /\ skipped = 8 /\ end = offset + 1 /\ x = 8
    /\ b = 251 => /\ found.type = "misc" /\ end = offset + 2
                  /\ length = 1 => x = 1
                  /\ length > 1 => x = c /\ value = c /\ skipped = c - 1

LEMMA EndOf ==
    ASSUME NEW bytes \in Seq(Byte), bytes # <<>>, AtOffset(bytes), offset \in Nat
    PROVE  \E b \in 0..255, c \in 0..255, length \in Nat \ {0} :
              /\ b = bytes[1] /\ length = Len(bytes) /\ (length > 1 => c = bytes[2])
              /\ id <= Len(galileo_samples) <=> b <= 251
              /\ b <= 251 => \E x \in Nat : x = Following(bytes) /\ EndsAs(b, c, length, x)
<1>1. PICK length \in Nat \ {0} : length = Len(bytes)
  BY FirstByte
<1>2. PICK c \in 0..255 : length > 1 => c = bytes[2]
  <2>1. Len(bytes) > 1 => bytes[2] \in 0..255
    BY FirstByte
  <2>. QED  BY <1>1, <2>1
<1>3. PICK b \in 0..255 : b = bytes[1]
  BY FirstByte
<1>4. /\ b \in Byte
      /\ length > 1 => data(offset + 1) = c
      /\ id = identify(b) /\ found = galileo_samples[identify(b)]
  <2>1. /\ Len(bytes) > 1 => data(offset + 1) = bytes[2]
        /\ id = identify(bytes[1]) /\ found = galileo_samples[identify(bytes[1])]
    BY FirstByte
  <2>. QED  BY <1>1, <1>2, <1>3, <2>1 DEF Byte
<1>5. id <= Len(galileo_samples) <=> b <= 251
  BY <1>4, RowOf, TableType
<1>6. ASSUME b <= 251
      PROVE  \E x \in Nat : x = Following(bytes) /\ EndsAs(b, c, length, x)
  <2>1. b \in 0..251
    BY <1>6
  <2>2. /\ found.type = "apnea" <=> b = 250
        /\ found.type = "misc" <=> b = 251
        /\ b < 240 \/ b = 250 => found.extrabytes = 0
        /\ b \in {240, 242, 247, 249, 251} => found.extrabytes = 1
        /\ b \in {241, 243, 244, 245, 246, 248} => found.extrabytes = 2
        /\ b >= 240 => found.ntypebits = 8
    <3>1. RowAs(found, b)
      BY <1>4, <1>6, RowSays, Zenon
    <3>. QED  BY <3>1 DEF RowAs
  <2>3. PICK x : x = Following(bytes)
    BY Zenon
  <2>4. FollowsAs(b, length, bytes[2], x)
    <3>1. bytes[1] \in 0..251
      BY <1>3, <2>1, Zenon
    <3>. QED  BY <1>1, <1>3, <2>3, <3>1, FollowingIs, Zenon
  <2>5. x \in Nat /\ EndsAs(b, c, length, x)
    <3>1. CASE b < 250
      <4>1. b < 240 \/ b \in {240, 242, 247, 249} \/ b \in {241, 243, 244, 245, 246, 248}
        BY <3>1
      <4>2. found.extrabytes = x /\ x \in 0..2
        BY <2>2, <2>4, <4>1 DEF FollowsAs
      <4>3. found.type # "misc" /\ skipped = 0
        BY <2>2, <3>1, SkippedIs
      <4>4. end = offset + 1 + x
        BY <4>2 DEF end
      <4>. QED  BY <3>1, <4>2, <4>3, <4>4 DEF EndsAs
    <3>2. CASE b = 250
      <4>1. found.type # "misc" /\ skipped = 8
        BY <2>2, <3>2, SkippedIs
      <4>2. end = offset + 1
        BY <2>2, <3>2 DEF end
      <4>3. x = 8
        BY <2>4, <3>2 DEF FollowsAs
      <4>. QED  BY <3>2, <4>1, <4>2, <4>3 DEF EndsAs
    <3>3. CASE b = 251
      <4>1. end = offset + 2 /\ found.type = "misc"
        BY <2>2, <3>3 DEF end
      <4>2. /\ length = 1 => x = 1
            /\ length # 1 => x = bytes[2]
        BY <2>4, <3>3 DEF FollowsAs
      <4>3. length > 1 => x = c
        BY <1>2, <4>2
      <4>4. length > 1 => value = c
        BY <1>4, <2>2, <3>3, ValueIs
      <4>5. skipped = value - 1
        BY <4>1, SkippedIs
      <4>6. length = 1 => x = 1
        BY <4>2
      <4>7. x \in Nat
        BY <4>3, <4>6
      <4>. QED  BY <3>3, <4>1, <4>3, <4>4, <4>5, <4>6, <4>7 DEF EndsAs
    <3>. QED  BY <2>1, <3>1, <3>2, <3>3
  <2>. QED  BY <2>3, <2>5, Zenon
<1>. QED  BY <1>1, <1>2, <1>3, <1>5, <1>6, Zenon

(* A sample of the format is taken for what it is, all of it. *)
LEMMA SampleIs ==
    ASSUME NEW s \in DeviceSample, WellFormed(s), AtOffset(s.bytes),
           offset \in Nat, size \in Nat, offset + Len(s.bytes) <= size
    PROVE  /\ id <= Len(galileo_samples)
           /\ ~Incomplete
           /\ end + skipped = offset + Len(s.bytes)
           /\ complete = s.waypoints
           /\ s.bits = IF found.type = "alarms" /\ found.index = 0 THEN value % 8 ELSE NoBits
<1>. DEFINE bytes == s.bytes
<1>1. bytes \in Seq(Byte) /\ bytes # <<>> /\ AtOffset(bytes) /\ offset + Len(bytes) <= size
  BY DEF DeviceSample, WellFormed
<1>2. /\ bytes[1] <= 251
      /\ Len(bytes) = 1 + Following(bytes)
      /\ s.waypoints = WaypointsOf(bytes[1])
      /\ s.bits = BitsOf(bytes[1])
  BY Zenon DEF WellFormed
<1>. HIDE DEF bytes
<1>3. PICK b \in 0..255, c \in 0..255, length \in Nat \ {0} :
         /\ b = bytes[1] /\ length = Len(bytes) /\ (length > 1 => c = bytes[2])
         /\ id <= Len(galileo_samples) <=> b <= 251
         /\ b <= 251 => \E x \in Nat : x = Following(bytes) /\ EndsAs(b, c, length, x)
  BY <1>1, EndOf, Zenon
<1>4. b <= 251
  BY <1>2, <1>3, Zenon
<1>5. PICK x \in Nat : x = Following(bytes) /\ EndsAs(b, c, length, x)
  BY <1>3, <1>4, Zenon
<1>6. offset + length <= size
  BY <1>1, <1>3
<1>7. /\ length = 1 + x
      /\ s.waypoints = WaypointsOf(b)
      /\ s.bits = BitsOf(b)
  BY <1>2, <1>3, <1>5, Zenon
<1>8. b \in Byte /\ b \in 0..251
  BY <1>4 DEF Byte
<1>9. /\ data(offset) = b
      /\ id = identify(b) /\ found = galileo_samples[identify(b)]
  <2>1. /\ data(offset) = bytes[1]
        /\ id = identify(bytes[1]) /\ found = galileo_samples[identify(bytes[1])]
    BY <1>1, FirstByte
  <2>. QED  BY <1>3, <2>1, Zenon
<1>10. id <= Len(galileo_samples)
  BY <1>3, <1>4, Zenon
<1>11. /\ found.type = "depth" <=> b \in 0..127 \cup {241}
       /\ found.type = "time" <=> b \in 192..207
       /\ found.type = "alarms" /\ found.index = 0 <=> b \in 224..239
       /\ b \in 160..239 => found.ntypebits = 4 /\ found.extrabytes = 0
  <2>1. RowAs(found, b)
    BY <1>4, <1>8, <1>9, RowSays, Zenon
  <2>. QED  BY <2>1 DEF RowAs
<1>13. end + skipped = offset + length /\ ~Incomplete
  <2>1. CASE b < 250
    BY <1>5, <1>6, <1>7, <2>1 DEF EndsAs, Incomplete
  <2>2. CASE b = 250
    BY <1>5, <1>6, <1>7, <2>2 DEF EndsAs, Incomplete
  <2>3. CASE b = 251
    <3>1. length > 1
      BY <1>5, <1>7, <2>3 DEF EndsAs
    <3>. QED  BY <1>5, <1>6, <1>7, <2>3, <3>1 DEF EndsAs, Incomplete
  <2>. QED  BY <1>8, <2>1, <2>2, <2>3
<1>14. complete = s.waypoints
  <2>1. CASE b \in 192..207
    <3>1. value = b % 16
      BY <1>9, <1>11, <2>1, ValueIs
    <3>2. b % 16 = b - 192
      BY <2>1
    <3>3. complete = value
      BY <1>11, <2>1, CompleteIs
    <3>4. WaypointsOf(b) = b - 192
      BY <1>8, <2>1, WaypointsOfIs
    <3>. QED  BY <1>7, <3>1, <3>2, <3>3, <3>4
  <2>2. CASE b \in 0..127 \cup {241}
    <3>1. complete = 1
      BY <1>11, <2>2, CompleteIs
    <3>2. WaypointsOf(b) = 1
      BY <1>8, <2>2, WaypointsOfIs
    <3>. QED  BY <1>7, <3>1, <3>2
  <2>3. CASE b \notin 0..127 \cup {241} \cup 192..207
    <3>1. complete = 0
      BY <1>11, <2>3, CompleteIs
    <3>2. WaypointsOf(b) = 0
      BY <2>3 DEF WaypointsOf
    <3>. QED  BY <1>7, <3>1, <3>2
  <2>. QED  BY <2>1, <2>2, <2>3
<1>15. s.bits = IF found.type = "alarms" /\ found.index = 0 THEN value % 8 ELSE NoBits
  <2>1. CASE b \in 224..239
    <3>1. value = b % 16
      BY <1>9, <1>11, <2>1, ValueIs
    <3>2. (b % 16) % 8 = b % 8
      BY <2>1
    <3>3. BitsOf(b) = b % 8
      BY <2>1 DEF BitsOf
    <3>4. found.type = "alarms" /\ found.index = 0
      BY <1>11, <2>1
    <3>. QED  BY <1>7, <3>1, <3>2, <3>3, <3>4
  <2>2. CASE b \notin 224..239
    <3>1. BitsOf(b) = NoBits
      BY <2>2 DEF BitsOf
    <3>2. ~(found.type = "alarms" /\ found.index = 0)
      BY <1>11, <2>2
    <3>. QED  BY <1>7, <3>1, <3>2
  <2>. QED  BY <2>1, <2>2
<1>. QED  BY <1>3, <1>10, <1>13, <1>14, <1>15, Zenon DEF bytes

(* Damaged bytes at the end of the record are no sample. *)
LEMMA DamagedIs ==
    ASSUME NEW bytes \in Seq(Byte), Damaged(bytes), AtOffset(bytes),
           offset \in Nat, size \in Nat, offset + Len(bytes) = size
    PROVE  id > Len(galileo_samples) \/ Incomplete
<1>1. bytes # <<>>
  BY Zenon DEF Damaged
<1>2. PICK b \in 0..255, c \in 0..255, length \in Nat \ {0} :
         /\ b = bytes[1] /\ length = Len(bytes) /\ (length > 1 => c = bytes[2])
         /\ id <= Len(galileo_samples) <=> b <= 251
         /\ b <= 251 => \E x \in Nat : x = Following(bytes) /\ EndsAs(b, c, length, x)
  BY <1>1, EndOf, Zenon
<1>3. \/ b > 251
      \/ b = 251 /\ length > 1 /\ c = 0
      \/ length <= Following(bytes)
  BY <1>2, Zenon DEF Damaged
<1>4. CASE b <= 251
  <2>1. PICK x \in Nat : x = Following(bytes) /\ EndsAs(b, c, length, x)
    BY <1>2, <1>4, Zenon
  <2>2. (b = 251 /\ length > 1 /\ c = 0) \/ length <= x
    <3>1. \/ b > 251
          \/ b = 251 /\ length > 1 /\ c = 0
          \/ length <= x
      BY <1>3, <2>1, Zenon
    <3>. QED  BY <1>4, <3>1
  <2>3. offset + length = size
    BY <1>2, Zenon
  <2>4. CASE b < 250
    BY <2>1, <2>2, <2>3, <2>4 DEF EndsAs, Incomplete
  <2>5. CASE b = 250
    BY <2>1, <2>2, <2>3, <2>5 DEF EndsAs, Incomplete
  <2>6. CASE b = 251
    BY <2>1, <2>2, <2>3, <2>6 DEF EndsAs, Incomplete
  <2>. QED  BY <1>4, <2>4, <2>5, <2>6
<1>5. CASE b > 251
  <2>1. id = identify(b) /\ b \in Byte
    BY <1>1, <1>2, FirstByte DEF Byte
  <2>. QED  BY <1>2, <1>5, <2>1, IdentifyType, TableType
<1>. QED  BY <1>4, <1>5

-----------------------------------------------------------------------------
(* The waypoints of the samples, and the bits in effect at each. *)

LEMMA CompletedStep ==
    ASSUME NEW samples \in Seq(DeviceSample)
    PROVE  LET completed == Completed(samples) IN
           /\ completed \in [0..Len(samples) -> Nat]
           /\ completed[0] = 0
           /\ \A j \in 1..Len(samples) :
                 completed[j] = completed[j - 1] + samples[j].waypoints
<1>. DEFINE N == Len(samples)
            S == Nat
            a == 0
            With(m, j) == m + samples[j].waypoints
            g == [j \in 1..N |-> [m \in S |-> With(m, j)]]
            Is(f) == f = [j \in 0..N |-> IF j = 0 THEN a ELSE With(f[j - 1], j)]
            completed == CHOOSE f : Is(f)
<1>0. N \in Nat /\ a \in S
  OBVIOUS
<1>1. \A j \in 1..N : \A m \in S : With(m, j) \in S
  BY SampleOf
<1>2. Completed(samples) = completed
  BY DEF Completed
<1>. HIDE DEF N, S, With
<1>3. g \in [1..N -> [S -> S]]
  BY <1>1
<1>. HIDE DEF g, a
<1>4. PICK f \in [0..N -> S] : f[0] = a /\ \A j \in 1..N : f[j] = g[j][f[j - 1]]
  BY <1>0, <1>3, FoldExists
<1>5. Is(f)
  <2>1. \A j \in 0..N : j # 0 => j \in 1..N /\ j - 1 \in 0..N
    BY <1>0
  <2>2. \A j \in 0..N : j # 0 => g[j][f[j - 1]] = With(f[j - 1], j)
    BY <1>4, <2>1 DEF g
  <2>. QED  BY <1>4, <2>1, <2>2
<1>. HIDE DEF Is
<1>6. Is(completed)
  BY <1>5
<1>. HIDE DEF completed
<1>7. completed[0] = a /\ \A j \in 1..N : completed[j] = With(completed[j - 1], j)
  <2>1. 0 \in 0..N /\ \A j \in 1..N : j # 0 /\ j \in 0..N
    BY <1>0
  <2>. QED  BY <1>6, <2>1 DEF Is
<1>8. \A j \in 0..N : completed[j] \in S
  <2>1. ASSUME NEW j \in 1..N, completed[j - 1] \in S PROVE completed[j] \in S
    BY <1>1, <1>7, <2>1
  <2>. QED  BY <1>0, <1>7, <2>1, KeptAlong
<1>9. completed \in [0..N -> S]
  BY <1>6, <1>8 DEF Is
<1>. QED  BY <1>2, <1>7, <1>9 DEF N, S, a, With

LEMMA InEffectStep ==
    ASSUME NEW samples \in Seq(DeviceSample)
    PROVE  /\ InEffect(samples, 0) = 0
           /\ \A j \in 1..Len(samples) :
                 /\ samples[j].bits = NoBits =>
                       InEffect(samples, j) = InEffect(samples, j - 1)
                 /\ samples[j].bits # NoBits => InEffect(samples, j) = samples[j].bits
<1>. DEFINE setting(j) == {i \in 1..j : samples[i].bits # NoBits}
<1>1. \A j : InEffect(samples, j) =
                IF setting(j) = {} THEN 0 ELSE samples[Max(setting(j))].bits
  BY Zenon DEF InEffect
<1>2. setting(0) = {}
  OBVIOUS
<1>3. ASSUME NEW j \in 1..Len(samples)
      PROVE  /\ samples[j].bits = NoBits => setting(j) = setting(j - 1)
             /\ samples[j].bits # NoBits => setting(j) # {} /\ Max(setting(j)) = j
  <2>1. j \in Nat \ {0} /\ 1..j = 1..(j - 1) \cup {j}
    OBVIOUS
  <2>2. samples[j].bits = NoBits => setting(j) = setting(j - 1)
    BY <2>1, Zenon
  <2>3. ASSUME samples[j].bits # NoBits PROVE setting(j) # {} /\ Max(setting(j)) = j
    <3>1. j \in setting(j) /\ setting(j) \subseteq 1..j
      BY <2>1, <2>3
    <3>. HIDE DEF setting
    <3>2. \A y \in setting(j) : j >= y
      BY <2>1, <3>1
    <3>3. \A x \in setting(j) : (\A y \in setting(j) : x >= y) => x = j
      BY <2>1, <3>1
    <3>4. Max(setting(j)) = j
      BY <3>1, <3>2, <3>3, Zenon DEF Max
    <3>. QED  BY <3>1, <3>4
  <2>. QED  BY <2>2, <2>3
<1>. HIDE DEF setting
<1>. QED  BY <1>1, <1>2, <1>3, Zenon

-----------------------------------------------------------------------------
(* The walk goes from sample to sample. *)

(* The record is the samples written and, if anything, no sample.          *)
Recorded ==
    /\ \A i \in 1..Len(written) : WellFormed(written[i])
    /\ \/ size < HeaderSize
       \/ \E rest \in Seq(Byte) : /\ stream = Encode(written) \o rest
                                  /\ rest = <<>> \/ Damaged(rest)

(* The events of sample j, and those of the first k samples.               *)
SoundingOf(j) ==
    {[timestamp |-> interval * (Completed(written)[j - 1] + i),
      alarms |-> InEffect(written, j)] : i \in 0..(written[j].waypoints - 1)}

SoundingTo(k) == UNION {SoundingOf(j) : j \in {m \in 1..k : InEffect(written, m) # 0}}

(* The walk has done the first k samples.                                  *)
Between(k) ==
    /\ offset = HeaderSize + Len(EncodedTo(written)[k])
    /\ time = interval * Completed(written)[k]
    /\ alarms = InEffect(written, k)
    /\ ToSet(events) = SoundingTo(k)

(* Events in order, all of them before a time.                             *)
Ordered(es, t) ==
    /\ \A i \in 1..Len(es) : es[i].timestamp < t
    /\ \A i \in 2..Len(es) : es[i - 1].timestamp < es[i].timestamp

InOrder == Ordered(events, time)

Walk ==
    /\ result = "header" => time = 0 /\ alarms = 0 /\ events = <<>>
    /\ result = "running" => /\ model # "other" /\ InOrder
                            /\ \E k \in 0..Len(written) : Between(k)

LEMMA AtSample ==
    ASSUME Invariant, Recorded, result = "running",
           NEW k \in 0..(Len(written) - 1), Between(k)
    PROVE  LET s == written[k + 1] IN
           /\ s \in DeviceSample /\ WellFormed(s)
           /\ AtOffset(s.bytes)
           /\ s.bytes # <<>> /\ offset < size /\ offset + Len(s.bytes) <= size
           /\ Len(EncodedTo(written)[k + 1]) = Len(EncodedTo(written)[k]) + Len(s.bytes)
<1>1. /\ written \in Seq(DeviceSample) /\ stream \in Seq(Byte)
      /\ HeaderSize \in Nat /\ size \in Nat /\ HeaderSize <= size
      /\ size = HeaderSize + Len(stream)
  BY HeaderType DEF Invariant, TypeOK, Framed
<1>2. k + 1 \in 1..Len(written) /\ (k + 1) - 1 = k
  BY <1>1
<1>. DEFINE s == written[k + 1]
            bytes == s.bytes
            start == Len(EncodedTo(written)[k])
            next == Len(EncodedTo(written)[k + 1])
            whole == Encode(written)
<1>3. s \in DeviceSample /\ WellFormed(s) /\ bytes \in Seq(Byte)
  BY <1>1, <1>2, SampleOf DEF Recorded
<1>4. bytes # <<>>
  BY <1>3, Zenon DEF WellFormed
<1>5. /\ start \in Nat
      /\ next = start + Len(bytes) /\ next <= Len(whole)
      /\ \A i \in 1..Len(bytes) : whole[start + i] = bytes[i]
  <2>1. PICK j \in 1..Len(written) : j = k + 1 /\ j - 1 = k
    BY <1>2
  <2>2. /\ Len(EncodedTo(written)[j - 1]) \in Nat
        /\ Len(EncodedTo(written)[j]) =
              Len(EncodedTo(written)[j - 1]) + Len(written[j].bytes)
        /\ Len(EncodedTo(written)[j]) <= Len(whole)
        /\ \A i \in 1..Len(written[j].bytes) :
              whole[Len(EncodedTo(written)[j - 1]) + i] = written[j].bytes[i]
    BY <1>1, EncodedAt, Zenon
  <2>. QED  BY <2>1, <2>2, Zenon
<1>6. offset = HeaderSize + start
  BY Zenon DEF Between
<1>7. PICK rest \in Seq(Byte) : stream = whole \o rest
  BY <1>1 DEF Recorded
<1>8. whole \in Seq(Byte)
  BY <1>1, EncodeIs
<1>. HIDE DEF s, bytes, start, next, whole
<1>9. /\ Len(bytes) \in Nat \ {0} /\ Len(whole) \in Nat
      /\ Len(whole) <= Len(stream) /\ Len(stream) \in Nat
      /\ \A i \in 1..Len(whole) : stream[i] = whole[i]
  BY <1>3, <1>4, <1>7, <1>8
<1>10. offset < size /\ offset + Len(bytes) <= size
  BY <1>1, <1>5, <1>6, <1>9
<1>11. AtOffset(bytes)
  <2>1. ASSUME NEW i \in 1..Len(bytes) PROVE data(offset + (i - 1)) = bytes[i]
    <3>1. (offset + (i - 1)) - HeaderSize + 1 = start + i /\ start + i \in 1..Len(whole)
      BY <1>1, <1>5, <1>6, <1>9
    <3>. QED  BY <1>5, <1>9, <3>1, Zenon DEF data
  <2>. QED  BY <2>1 DEF AtOffset
<1>. QED  BY <1>3, <1>4, <1>5, <1>10, <1>11, Zenon DEF s, bytes, start, next

LEMMA AtRest ==
    ASSUME Invariant, Recorded, result = "running", Between(Len(written))
    PROVE  \E rest \in Seq(Byte) : /\ stream = Encode(written) \o rest
                                   /\ rest = <<>> \/ Damaged(rest)
                                   /\ AtOffset(rest) /\ offset + Len(rest) = size
<1>1. /\ written \in Seq(DeviceSample) /\ stream \in Seq(Byte)
      /\ HeaderSize \in Nat /\ size \in Nat /\ HeaderSize <= size
      /\ size = HeaderSize + Len(stream)
  BY HeaderType DEF Invariant, TypeOK, Framed
<1>. DEFINE whole == Encode(written)
<1>2. PICK rest \in Seq(Byte) : stream = whole \o rest /\ (rest = <<>> \/ Damaged(rest))
  BY <1>1 DEF Recorded
<1>3. whole \in Seq(Byte) /\ offset = HeaderSize + Len(whole)
  BY <1>1, EncodeIs DEF Between
<1>. HIDE DEF whole
<1>4. /\ Len(whole) \in Nat /\ Len(rest) \in Nat /\ Len(stream) = Len(whole) + Len(rest)
      /\ \A i \in 1..Len(rest) : stream[Len(whole) + i] = rest[i]
  BY <1>2, <1>3
<1>5. offset + Len(rest) = size
  BY <1>1, <1>3, <1>4
<1>6. AtOffset(rest)
  <2>1. ASSUME NEW i \in 1..Len(rest) PROVE data(offset + (i - 1)) = rest[i]
    <3>1. (offset + (i - 1)) - HeaderSize + 1 = Len(whole) + i
      BY <1>1, <1>3, <1>4
    <3>. QED  BY <1>4, <3>1, Zenon DEF data
  <2>. QED  BY <2>1 DEF AtOffset
<1>. QED  BY <1>2, <1>5, <1>6 DEF whole

(* At the end of the record the samples are all done and nothing remains.  *)
LEMMA AtEnd ==
    ASSUME Invariant, Recorded, result = "running",
           NEW k \in 0..Len(written), Between(k)
    PROVE  /\ offset >= size => k = Len(written) /\ stream = Encode(written)
           /\ offset < size /\ id <= Len(galileo_samples) /\ ~Incomplete => k < Len(written)
           /\ offset < size /\ (id > Len(galileo_samples) \/ Incomplete) =>
                 k = Len(written) /\ stream # Encode(written)
<1>1. /\ written \in Seq(DeviceSample) /\ offset \in Nat /\ size \in Nat
  BY DEF Invariant, TypeOK
<1>2. Len(written) \in Nat /\ Len(galileo_samples) = 19
  BY <1>1, TableType
<1>3. offset < size => id \in Nat
  <2>1. /\ HeaderSize \in Nat /\ HeaderSize <= offset
        /\ size = HeaderSize + Len(stream)
    BY HeaderType DEF Invariant, TypeOK, Framed
  <2>2. offset < size => offset \in HeaderSize..(size - 1)
    BY <1>1, <2>1
  <2>. QED  BY <2>1, <2>2, DataType, IdentifyType DEF id
<1>4. CASE k < Len(written)
  <2>1. k \in 0..(Len(written) - 1)
    BY <1>2, <1>4
  <2>2. offset < size /\ id <= Len(galileo_samples) /\ ~Incomplete
    <3>. DEFINE s == written[k + 1]
    <3>1. /\ s \in DeviceSample /\ WellFormed(s) /\ AtOffset(s.bytes)
          /\ offset < size /\ offset + Len(s.bytes) <= size
      BY <2>1, AtSample
    <3>. HIDE DEF s
    <3>. QED  BY <1>1, <3>1, SampleIs
  <2>. QED  BY <1>1, <1>2, <1>3, <1>4, <2>2
<1>5. CASE k = Len(written)
  <2>1. PICK rest \in Seq(Byte) : /\ stream = Encode(written) \o rest
                                  /\ rest = <<>> \/ Damaged(rest)
                                  /\ AtOffset(rest) /\ offset + Len(rest) = size
    BY <1>5, AtRest
  <2>2. Encode(written) \in Seq(Byte)
    BY <1>1, EncodeIs
  <2>3. CASE rest = <<>>
    BY <1>1, <1>2, <1>3, <1>5, <2>1, <2>2, <2>3
  <2>4. CASE rest # <<>>
    <3>1. id > Len(galileo_samples) \/ Incomplete
      BY <1>1, <2>1, <2>4, DamagedIs
    <3>2. offset < size /\ stream # Encode(written)
      <4>1. Len(rest) > 0
        BY <2>4
      <4>. QED  BY <1>1, <2>1, <2>2, <4>1
    <3>. QED  BY <1>1, <1>2, <1>3, <1>5, <3>1, <3>2
  <2>. QED  BY <2>3, <2>4
<1>. QED  BY <1>2, <1>4, <1>5

(* The events of one more sample. *)
LEMMA SoundingStep ==
    ASSUME NEW k \in 0..(Len(written) - 1)
    PROVE  /\ SoundingTo(0) = {}
           /\ InEffect(written, k + 1) = 0 => SoundingTo(k + 1) = SoundingTo(k)
           /\ InEffect(written, k + 1) # 0 =>
                 SoundingTo(k + 1) = SoundingTo(k) \cup SoundingOf(k + 1)
<1>. DEFINE sounds(m) == InEffect(written, m) # 0
<1>1. \A n : SoundingTo(n) = UNION {SoundingOf(j) : j \in {m \in 1..n : sounds(m)}}
  BY Zenon DEF SoundingTo
<1>2. 1..(k + 1) = 1..k \cup {k + 1} /\ 1..0 = {}
  OBVIOUS
<1>. HIDE DEF sounds
<1>3. SoundingTo(0) = {}
  BY <1>1, <1>2
<1>4. ~sounds(k + 1) => SoundingTo(k + 1) = SoundingTo(k)
  <2>1. ~sounds(k + 1) => {m \in 1..(k + 1) : sounds(m)} = {m \in 1..k : sounds(m)}
    BY <1>2, Zenon
  <2>. QED  BY <1>1, <2>1, Zenon
<1>5. sounds(k + 1) => SoundingTo(k + 1) = SoundingTo(k) \cup SoundingOf(k + 1)
  <2>1. sounds(k + 1) =>
           {m \in 1..(k + 1) : sounds(m)} = {m \in 1..k : sounds(m)} \cup {k + 1}
    BY <1>2, Zenon
  <2>2. SoundingTo(k) = UNION {SoundingOf(j) : j \in {m \in 1..k : sounds(m)}}
    BY <1>1
  <2>3. sounds(k + 1) =>
           SoundingTo(k + 1) =
              UNION {SoundingOf(j) : j \in {m \in 1..k : sounds(m)} \cup {k + 1}}
    BY <1>1, <2>1, Zenon
  <2>. QED  BY <2>2, <2>3
<1>. QED  BY <1>3, <1>4, <1>5 DEF sounds

(* Events put behind others. *)
LEMMA MoreEvents ==
    ASSUME NEW S, NEW s \in Seq(S), NEW n \in Nat, NEW f \in [1..n -> S]
    PROVE  ToSet(s \o f) = ToSet(s) \cup {f[i] : i \in 1..n}
<1>1. /\ f \in Seq(S) /\ Len(f) = n
      /\ s \o f \in Seq(S) /\ Len(s \o f) = Len(s) + n
      /\ DOMAIN (s \o f) = 1..(Len(s) + n) /\ DOMAIN s = 1..Len(s)
      /\ \A i \in 1..Len(s) : (s \o f)[i] = s[i]
      /\ \A i \in 1..n : (s \o f)[Len(s) + i] = f[i]
      /\ Len(s) \in Nat
  OBVIOUS
<1>2. ToSet(s \o f) = {(s \o f)[i] : i \in 1..(Len(s) + n)} /\ ToSet(s) = {s[i] : i \in 1..Len(s)}
  BY <1>1, Zenon DEF ToSet
<1>3. \A i \in 1..(Len(s) + n) : i \in 1..Len(s) \/ \E j \in 1..n : i = Len(s) + j
  <2>1. ASSUME NEW i \in 1..(Len(s) + n), i \notin 1..Len(s)
        PROVE  i - Len(s) \in 1..n /\ i = Len(s) + (i - Len(s))
    BY <1>1, <2>1
  <2>. QED  BY <2>1
<1>4. \A i \in 1..Len(s) : i \in 1..(Len(s) + n)
  BY <1>1
<1>5. \A i \in 1..n : Len(s) + i \in 1..(Len(s) + n)
  BY <1>1
<1>6. ASSUME NEW e, e \in ToSet(s \o f) PROVE e \in ToSet(s) \cup {f[i] : i \in 1..n}
  <2>1. PICK i \in 1..(Len(s) + n) : e = (s \o f)[i]
    BY <1>2, <1>6, Zenon
  <2>2. CASE i \in 1..Len(s)
    BY <1>1, <1>2, <2>1, <2>2, Zenon
  <2>3. CASE \E j \in 1..n : i = Len(s) + j
    BY <1>1, <2>1, <2>3, Zenon
  <2>. QED  BY <1>3, <2>2, <2>3, Zenon
<1>7. ASSUME NEW e, e \in ToSet(s) PROVE e \in ToSet(s \o f)
  <2>1. PICK i \in 1..Len(s) : e = s[i]
    BY <1>2, <1>7, Zenon
  <2>. QED  BY <1>1, <1>2, <1>4, <2>1, Zenon
<1>8. ASSUME NEW i \in 1..n PROVE f[i] \in ToSet(s \o f)
  BY <1>1, <1>2, <1>5, Zenon
<1>. QED  BY <1>6, <1>7, <1>8, Zenon

LEMMA OrderedAfter ==
    ASSUME NEW es \in Seq(Event), NEW t \in Nat, Ordered(es, t),
           NEW n \in Nat, NEW d \in {1, 4}
    PROVE  /\ Ordered(es, t + n * d)
           /\ \A f \in [1..n -> Event] :
                 (\A i \in 1..n : f[i].timestamp = t + (i - 1) * d) =>
                    Ordered(es \o f, t + n * d)
<1>1. \A e \in Event : e.timestamp \in Nat
  BY DEF Event
<1>2. Len(es) \in Nat /\ \A i \in 1..Len(es) : es[i].timestamp \in Nat
  BY <1>1
<1>3. t + n * d \in Nat /\ t <= t + n * d
  OBVIOUS
<1>4. Ordered(es, t + n * d)
  BY <1>2, <1>3 DEF Ordered
<1>5. ASSUME NEW f \in [1..n -> Event],
             \A i \in 1..n : f[i].timestamp = t + (i - 1) * d
      PROVE  Ordered(es \o f, t + n * d)
  <2>. DEFINE N == Len(es)
              g == es \o f
              at(i) == g[i].timestamp
  <2>1. /\ Len(g) = N + n
        /\ \A i \in 1..N : g[i] = es[i]
        /\ \A i \in 1..n : g[N + i] = f[i]
    <3>1. f \in Seq(Event) /\ Len(f) = n
      OBVIOUS
    <3>2. /\ Len(es \o f) = Len(es) + Len(f)
          /\ \A i \in 1..Len(es) : (es \o f)[i] = es[i]
          /\ \A i \in 1..Len(f) : (es \o f)[Len(es) + i] = f[i]
      BY <3>1
    <3>. QED  BY <3>1, <3>2, Zenon
  <2>. HIDE DEF g
  <2>2. \A i \in 1..N : at(i) = es[i].timestamp /\ at(i) < t /\ at(i) \in Nat
    BY <1>2, <2>1 DEF Ordered
  <2>3. ASSUME NEW i \in (N + 1)..(N + n) PROVE at(i) = t + (i - N - 1) * d
    <3>1. PICK j \in 1..n : i = N + j
      <4>1. i - N \in 1..n /\ i = N + (i - N)
        BY <1>2
      <4>. QED  BY <4>1
    <3>2. at(i) = f[j].timestamp
      BY <2>1, <3>1
    <3>3. i - N - 1 = j - 1
      BY <1>2, <3>1
    <3>. QED  BY <1>5, <3>2, <3>3
  <2>4. ASSUME NEW i \in 2..N PROVE at(i - 1) < at(i)
    <3>1. i \in 1..N /\ i - 1 \in 1..N
      BY <1>2
    <3>2. es[i - 1].timestamp < es[i].timestamp
      BY DEF Ordered
    <3>. QED  BY <2>2, <3>1, <3>2
  <2>. HIDE DEF at
  <2>5. \A i \in 1..(N + n) : at(i) < t + n * d
    <3>1. ASSUME NEW i \in 1..(N + n), i > N PROVE at(i) < t + n * d
      <4>1. i \in (N + 1)..(N + n)
        BY <1>2, <3>1
      <4>2. at(i) = t + (i - N - 1) * d
        BY <2>3, <4>1
      <4>. QED  BY <1>2, <3>1, <4>2
    <3>. QED  BY <1>2, <1>3, <2>2, <3>1
  <2>6. ASSUME NEW i \in 2..(N + n) PROVE at(i - 1) < at(i)
    <3>1. CASE i <= N
      BY <1>2, <2>4, <3>1
    <3>2. CASE i = N + 1
      <4>1. at(i) = t + (i - N - 1) * d /\ at(i - 1) < t /\ at(i - 1) \in Nat
        BY <1>2, <2>2, <2>3, <3>2
      <4>. QED  BY <1>2, <3>2, <4>1
    <3>3. CASE i > N + 1
      <4>1. i \in (N + 1)..(N + n) /\ i - 1 \in (N + 1)..(N + n)
        BY <1>2, <3>3
      <4>2. at(i) = t + (i - N - 1) * d /\ at(i - 1) = t + ((i - 1) - N - 1) * d
        BY <2>3, <4>1
      <4>. QED  BY <1>2, <4>2
    <3>. QED  BY <1>2, <3>1, <3>2, <3>3
  <2>. QED  BY <2>1, <2>5, <2>6, Zenon DEF Ordered, at, g
<1>. QED  BY <1>4, <1>5

LEMMA SampleWalk ==
    ASSUME Invariant, Recorded, Walk, Sample
    PROVE  Recorded' /\ Walk'
<1>1. /\ written \in Seq(DeviceSample) /\ Len(written) \in Nat
      /\ HeaderSize \in Nat /\ offset \in Nat /\ size \in Nat /\ time \in Nat
      /\ alarms \in 0..7 /\ events \in Seq(Event)
      /\ result = "running" /\ offset < size
  BY HeaderType DEF Invariant, TypeOK, Sample
<1>2. PICK k \in 0..Len(written) : Between(k)
  BY <1>1 DEF Walk
<1>3. k \in 0..(Len(written) - 1)
  BY <1>1, <1>2, AtEnd DEF Sample
<1>. DEFINE s == written[k + 1]
            start == Len(EncodedTo(written)[k])
            next == Len(EncodedTo(written)[k + 1])
            done == Completed(written)[k]
            more == Completed(written)[k + 1]
<1>4. /\ s \in DeviceSample /\ WellFormed(s) /\ AtOffset(s.bytes)
      /\ offset + Len(s.bytes) <= size
      /\ next = start + Len(s.bytes)
  BY <1>1, <1>2, <1>3, AtSample
<1>5. k + 1 \in 1..Len(written) /\ (k + 1) - 1 = k
  BY <1>1, <1>3
<1>6. s.bytes \in Seq(Byte) /\ s.waypoints \in Nat /\ s.bits \in {NoBits} \cup 0..7
  BY <1>4 DEF DeviceSample
<1>7. start \in Nat /\ offset = HeaderSize + start
  <2>1. EncodedTo(written)[k] \in Seq(Byte)
    BY <1>1, EncodedStep
  <2>. QED  BY <1>2, <2>1 DEF Between
<1>8. /\ done \in Nat /\ more = done + s.waypoints
      /\ time = interval * done
  <2>1. \A j \in 1..Len(written) :
           Completed(written)[j] = Completed(written)[j - 1] + written[j].waypoints
    BY <1>1, CompletedStep, Zenon
  <2>2. more = done + s.waypoints
    BY <1>5, <2>1, Zenon
  <2>3. done \in Nat
    BY <1>1, CompletedStep
  <2>. QED  BY <1>2, <2>2, <2>3 DEF Between
<1>9. /\ s.bits = NoBits => InEffect(written, k + 1) = InEffect(written, k)
      /\ s.bits # NoBits => InEffect(written, k + 1) = s.bits
  <2>1. \A j \in 1..Len(written) :
           /\ written[j].bits = NoBits => InEffect(written, j) = InEffect(written, j - 1)
           /\ written[j].bits # NoBits => InEffect(written, j) = written[j].bits
    BY <1>1, InEffectStep, Zenon
  <2>. QED  BY <1>5, <2>1, Zenon
<1>. HIDE DEF s, start, next, done, more
<1>10. /\ end + skipped = offset + Len(s.bytes)
       /\ complete = s.waypoints
       /\ s.bits = IF found.type = "alarms" /\ found.index = 0 THEN value % 8 ELSE NoBits
  BY <1>1, <1>4, SampleIs
<1>11. offset' = HeaderSize + next
  <2>1. offset' = end + skipped
    BY DEF Sample
  <2>2. PICK length \in Nat : length = Len(s.bytes)
    BY <1>6
  <2>3. offset' = offset + length
    BY <1>10, <2>1, <2>2, Zenon
  <2>4. next = start + length
    BY <1>4, <2>2, Zenon
  <2>5. offset = HeaderSize + start /\ start \in Nat /\ HeaderSize \in Nat
    BY <1>1, <1>7, Zenon
  <2>. QED  BY <2>3, <2>4, <2>5
<1>12. time' = interval * more /\ time <= time'
  <2>1. time' = time + s.waypoints * interval
    BY <1>10 DEF Sample
  <2>2. PICK d \in {1, 4} : d = interval
    BY HeaderType
  <2>3. PICK w \in Nat : w = s.waypoints
    BY <1>6
  <2>4. /\ done \in Nat /\ more = done + w
        /\ time = d * done /\ time' = time + w * d
    BY <1>8, <2>1, <2>2, <2>3, Zenon
  <2>5. CASE d = 1
    BY <2>2, <2>4, <2>5
  <2>6. CASE d = 4
    BY <2>2, <2>4, <2>6
  <2>. QED  BY <2>5, <2>6
<1>13. alarms' = InEffect(written, k + 1)
  <2>1. value \in Nat
    BY <1>1, SampleType DEF Sample, Incomplete
  <2>2. value % 8 # NoBits
    BY <2>1 DEF NoBits
  <2>3. alarms = InEffect(written, k)
    BY <1>2 DEF Between
  <2>4. alarms' = IF found.type = "alarms" /\ found.index = 0 THEN value % 8 ELSE alarms
    BY DEF Sample
  <2>. QED  BY <1>9, <1>10, <2>2, <2>3, <2>4, Zenon
<1>. DEFINE new == [i \in 1..complete |->
                      [timestamp |-> time + (i - 1) * interval, alarms |-> alarms']]
<1>14. events' = IF alarms' = 0 THEN events ELSE events \o new
  BY Zenon DEF Sample
<1>15. complete \in Nat
  BY <1>6, <1>10
<1>16. /\ alarms' # 0 => new \in [1..complete -> Event]
       /\ \A i \in 1..complete :
             /\ new[i].timestamp = time + (i - 1) * interval
             /\ new[i] = [timestamp |-> interval * (done + (i - 1)),
                          alarms |-> InEffect(written, k + 1)]
  <2>1. alarms' \in 0..7
    BY SampleInvariant DEF Invariant, TypeOK
  <2>2. \A i \in 1..complete : /\ time + (i - 1) * interval \in Nat
                               /\ time + (i - 1) * interval = interval * (done + (i - 1))
    BY <1>8, <1>15, HeaderType
  <2>3. ASSUME NEW i \in 1..complete
        PROVE  [timestamp |-> time + (i - 1) * interval, alarms |-> alarms'] =
               [timestamp |-> interval * (done + (i - 1)),
                alarms |-> InEffect(written, k + 1)]
    BY <1>13, <2>2, Zenon
  <2>4. ASSUME alarms' # 0, NEW i \in 1..complete
        PROVE  [timestamp |-> time + (i - 1) * interval, alarms |-> alarms'] \in Event
    BY <2>1, <2>2, <2>4 DEF Event
  <2>. QED  BY <2>3, <2>4
<1>17. SoundingOf(k + 1) = {new[i] : i \in 1..complete}
  <2>. DEFINE event(i) == [timestamp |-> interval * (done + i),
                           alarms |-> InEffect(written, k + 1)]
  <2>1. SoundingOf(k + 1) = {event(i) : i \in 0..(complete - 1)}
    BY <1>5, <1>10, Zenon DEF SoundingOf, s, done
  <2>2. \A i \in 1..complete : new[i] = event(i - 1)
    BY <1>16, Zenon
  <2>. HIDE DEF event, new
  <2>3. /\ \A i \in 1..complete : i - 1 \in 0..(complete - 1)
        /\ \A i \in 0..(complete - 1) : i + 1 \in 1..complete /\ (i + 1) - 1 = i
    BY <1>15
  <2>4. \A i \in 0..(complete - 1) : new[i + 1] = event(i)
    BY <2>2, <2>3, Zenon
  <2>5. ASSUME NEW e, e \in SoundingOf(k + 1) PROVE e \in {new[i] : i \in 1..complete}
    <3>1. PICK i \in 0..(complete - 1) : e = event(i)
      BY <2>1, <2>5, Zenon
    <3>. QED  BY <2>3, <2>4, <3>1, Zenon
  <2>6. ASSUME NEW i \in 1..complete PROVE new[i] \in SoundingOf(k + 1)
    BY <2>1, <2>2, <2>3, Zenon
  <2>. QED  BY <2>5, <2>6, Zenon
<1>. HIDE DEF new
<1>18. ToSet(events') = SoundingTo(k + 1)
  <2>1. ToSet(events) = SoundingTo(k)
    BY <1>2, Zenon DEF Between
  <2>2. CASE alarms' = 0
    <3>1. SoundingTo(k + 1) = SoundingTo(k)
      BY <1>3, <1>13, <2>2, SoundingStep
    <3>. QED  BY <1>14, <2>1, <2>2, <3>1, Zenon
  <2>3. CASE alarms' # 0
    <3>1. ToSet(events \o new) = ToSet(events) \cup {new[i] : i \in 1..complete}
      BY <1>1, <1>15, <1>16, <2>3, MoreEvents
    <3>2. SoundingTo(k + 1) = SoundingTo(k) \cup SoundingOf(k + 1)
      BY <1>3, <1>13, <2>3, SoundingStep
    <3>. QED  BY <1>14, <1>17, <2>1, <2>3, <3>1, <3>2, Zenon
  <2>. QED  BY <2>2, <2>3
<1>19. InOrder'
  <2>1. Ordered(events, time)
    BY <1>1 DEF Walk, InOrder
  <2>2. time' = time + complete * interval
    BY DEF Sample
  <2>3. Ordered(events', time')
    <3>1. CASE alarms' = 0
      BY <1>1, <1>14, <1>15, <2>1, <2>2, <3>1, OrderedAfter, HeaderType
    <3>2. CASE alarms' # 0
      BY <1>1, <1>14, <1>15, <1>16, <2>1, <2>2, <3>2, OrderedAfter, HeaderType
    <3>. QED  BY <3>1, <3>2
  <2>. QED  BY <2>3 DEF InOrder
<1>20. /\ UNCHANGED <<model, freedive, written, stream, size, result>>
       /\ HeaderSize' = HeaderSize /\ interval' = interval
  BY DEF Sample, record, HeaderSize, interval
<1>21. Recorded'
  BY <1>20, Zenon DEF Recorded
<1>22. Between(k + 1)'
  <2>1. SoundingTo(k + 1)' = SoundingTo(k + 1)
    BY <1>20 DEF SoundingTo, SoundingOf
  <2>. QED  BY <1>11, <1>12, <1>13, <1>18, <1>20, <2>1, Zenon DEF Between, next, more
<1>. QED  BY <1>1, <1>5, <1>19, <1>20, <1>21, <1>22 DEF Walk

(* The inductive invariant. *)
Decoding == Invariant /\ Recorded /\ Walk /\ ReportsWhatSounded

LEMMA InitDecoding == Init => Decoding
<1>. SUFFICES ASSUME Init PROVE Decoding
  OBVIOUS
<1>1. Recorded
  <2>1. ASSUME NEW r \in Recordings, written = r.samples,
               stream = Encode(r.samples) \o r.rest
        PROVE  Recorded
    <3>1. r.samples \in Seq(DeviceSample) /\ r.rest \in Seq(Byte)
      BY RecordingsAssumption
    <3>2. /\ \A i \in DOMAIN written : WellFormed(written[i])
          /\ r.rest = <<>> \/ Damaged(r.rest)
      BY <2>1, RecordingsAssumption, Zenon
    <3>3. DOMAIN written = 1..Len(written)
      BY <2>1, <3>1
    <3>4. stream = Encode(written) \o r.rest
      BY <2>1
    <3>. QED  BY <3>1, <3>2, <3>3, <3>4, Zenon DEF Recorded
  <2>2. ASSUME written = <<>>, size < HeaderSize PROVE Recorded
    <3>1. 1..Len(written) = {}
      BY <2>2
    <3>. QED  BY <2>2, <3>1, Zenon DEF Recorded
  <2>. QED  BY <2>1, <2>2, Zenon DEF Init
<1>2. Walk
  BY Zenon DEF Init, Walk
<1>3. ReportsWhatSounded
  BY Zenon DEF Init, ReportsWhatSounded
<1>. QED  BY <1>1, <1>2, <1>3, InitInvariant DEF Decoding

LEMMA SoundingIs ==
    ASSUME written \in Seq(DeviceSample)
    PROVE  Sounding(written) = SoundingTo(Len(written))
<1>1. DOMAIN written = 1..Len(written)
  OBVIOUS
<1>. QED  BY <1>1, Zenon DEF Sounding, SoundingTo, SoundingOf

(* The two ways a record is no list of samples; a rejection is right.      *)
LEMMA RejectionIsRight ==
    ASSUME result' \in Errors, events' = <<>>,
           UNCHANGED <<model, freedive, written, stream, size>>,
           ~(size >= HeaderSize /\ model # "other" /\ stream = Encode(written))
    PROVE  ReportsWhatSounded'
<1>1. HeaderSize' = HeaderSize
  BY DEF HeaderSize
<1>2. ~(size' >= HeaderSize' /\ model' # "other" /\ stream' = Encode(written'))
  BY <1>1, Zenon
<1>. QED  BY <1>2, Zenon DEF ReportsWhatSounded

LEMMA NextDecoding ==
    ASSUME Decoding, [Next]_vars
    PROVE  Decoding'
<1>1. /\ Invariant /\ Recorded /\ Walk /\ ReportsWhatSounded
      /\ Invariant'
  BY NextInvariant DEF Decoding
<1>2. /\ written \in Seq(DeviceSample) /\ Len(written) \in Nat
      /\ HeaderSize \in Nat \ 0..43 /\ size \in Nat /\ offset \in Nat
  BY <1>1, HeaderType DEF Invariant, TypeOK
<1>3. [Next]_vars => UNCHANGED <<model, freedive, written, stream, size>>
  BY Zenon DEF Next, vars, record, RejectHeader, AcceptHeader, RejectType, RejectSample,
               Sample, Finish, Fails
<1>4. Recorded'
  <2>1. HeaderSize' = HeaderSize
    BY <1>3 DEF HeaderSize
  <2>. QED  BY <1>1, <1>3, <2>1, Zenon DEF Recorded
<1>5. CASE RejectHeader
  <2>1. result' \in Errors /\ events' = <<>> /\ result' \notin {"header", "running"}
    BY <1>5 DEF RejectHeader, Fails, Errors
  <2>2. model = "other" \/ size < HeaderSize
    <3>1. size <= TrimixFlag => size < HeaderSize
      BY <1>2 DEF TrimixFlag
    <3>. QED  BY <1>5, <3>1, Zenon DEF RejectHeader
  <2>3. ~(size >= HeaderSize /\ model # "other" /\ stream = Encode(written))
    BY <1>2, <2>2
  <2>4. Walk'
    BY <2>1, Zenon DEF Walk
  <2>. QED  BY <1>1, <1>3, <1>4, <2>1, <2>3, <2>4, RejectionIsRight DEF Decoding
<1>6. CASE AcceptHeader
  <2>1. /\ result = "header" /\ result' = "running" /\ offset' = HeaderSize
        /\ model # "other"
        /\ UNCHANGED <<time, alarms, events>>
    BY <1>6 DEF AcceptHeader
  <2>2. time = 0 /\ alarms = 0 /\ events = <<>>
    BY <1>1, <2>1 DEF Walk
  <2>3. Between(0)'
    <3>1. HeaderSize' = HeaderSize /\ interval' = interval
      BY <1>3 DEF HeaderSize, interval
    <3>2. EncodedTo(written)[0] = <<>> /\ Completed(written)[0] = 0 /\ InEffect(written, 0) = 0
      BY <1>2, EncodedStep, CompletedStep, InEffectStep
    <3>3. Len(<<>>) = 0 /\ HeaderSize + 0 = HeaderSize /\ interval * 0 = 0
      BY <1>2, HeaderType
    <3>4. SoundingTo(0)' = {} /\ ToSet(events') = {}
      <4>1. 1..0 = {} /\ events' = <<>> /\ DOMAIN events' = {}
        BY <2>1, <2>2
      <4>2. SoundingTo(0)' = {}
        BY <4>1 DEF SoundingTo
      <4>. QED  BY <4>1, <4>2 DEF ToSet
    <3>5. /\ offset' = HeaderSize + Len(EncodedTo(written)[0])
          /\ time' = interval * Completed(written)[0]
          /\ alarms' = InEffect(written, 0)
      BY <2>1, <2>2, <3>2, <3>3, Zenon
    <3>. QED  BY <1>3, <3>1, <3>4, <3>5, Zenon DEF Between
  <2>4. InOrder'
    BY <2>1, <2>2 DEF InOrder, Ordered
  <2>5. Walk'
    <3>1. 0 \in 0..Len(written)'
      BY <1>2, <1>3
    <3>. QED  BY <1>3, <2>1, <2>3, <2>4, <3>1 DEF Walk
  <2>6. ReportsWhatSounded'
    BY <2>1, Zenon DEF ReportsWhatSounded
  <2>. QED  BY <1>1, <1>4, <2>5, <2>6 DEF Decoding
<1>7. CASE RejectType \/ RejectSample
  <2>1. /\ result = "running" /\ offset < size
        /\ id > Len(galileo_samples) \/ Incomplete
        /\ result' \in Errors /\ events' = <<>> /\ result' \notin {"header", "running"}
    BY <1>7 DEF RejectType, RejectSample, Fails, Errors
  <2>2. PICK k \in 0..Len(written) : Between(k)
    BY <1>1, <2>1 DEF Walk
  <2>3. stream # Encode(written)
    BY <1>1, <2>1, <2>2, AtEnd
  <2>4. Walk'
    BY <2>1, Zenon DEF Walk
  <2>. QED  BY <1>1, <1>3, <1>4, <2>1, <2>3, <2>4, RejectionIsRight DEF Decoding
<1>8. CASE Sample
  <2>1. result' = "running"
    BY <1>8 DEF Sample
  <2>2. ReportsWhatSounded'
    BY <2>1, Zenon DEF ReportsWhatSounded
  <2>. QED  BY <1>1, <1>8, <2>2, SampleWalk DEF Decoding
<1>9. CASE Finish
  <2>1. /\ result = "running" /\ offset >= size /\ result' = "ok"
        /\ UNCHANGED <<offset, time, alarms, events>>
    BY <1>9 DEF Finish
  <2>2. PICK k \in 0..Len(written) : Between(k)
    BY <1>1, <2>1 DEF Walk
  <2>3. k = Len(written) /\ stream = Encode(written)
    BY <1>1, <2>1, <2>2, AtEnd
  <2>4. ToSet(events) = Sounding(written)
    BY <1>2, <2>2, <2>3, SoundingIs DEF Between
  <2>5. \A i \in 2..Len(events) : events[i - 1].timestamp < events[i].timestamp
    BY <1>1, <2>1 DEF Walk, InOrder, Ordered
  <2>6. model # "other"
    BY <1>1, <2>1 DEF Walk
  <2>7. size >= HeaderSize
    BY <1>2, <2>1, <1>1 DEF Invariant, Framed
  <2>8. ReportsWhatSounded'
    <3>1. HeaderSize' = HeaderSize /\ interval' = interval
      BY <1>3 DEF HeaderSize, interval
    <3>2. Sounding(written)' = Sounding(written)
      BY <1>3, <3>1 DEF Sounding
    <3>. QED  BY <1>3, <2>1, <2>3, <2>4, <2>5, <2>6, <2>7, <3>1, <3>2, Zenon
         DEF ReportsWhatSounded
  <2>9. Walk'
    BY <2>1, Zenon DEF Walk
  <2>. QED  BY <1>1, <1>4, <2>8, <2>9 DEF Decoding
<1>10. CASE UNCHANGED vars
  <2>1. /\ UNCHANGED <<offset, time, alarms, events, result>>
        /\ HeaderSize' = HeaderSize /\ interval' = interval
    BY <1>3, <1>10 DEF vars, HeaderSize, interval
  <2>2. \A k : Between(k)' = Between(k)
    BY <1>3, <2>1 DEF Between, SoundingTo, SoundingOf
  <2>3. Walk'
    BY <1>1, <1>3, <2>1, <2>2 DEF Walk, InOrder
  <2>4. Sounding(written)' = Sounding(written)
    BY <1>3, <2>1 DEF Sounding
  <2>5. ReportsWhatSounded'
    BY <1>1, <1>3, <2>1, <2>4, Zenon DEF ReportsWhatSounded
  <2>. QED  BY <1>1, <1>4, <2>3, <2>5 DEF Decoding
<1>. QED  BY <1>5, <1>6, <1>7, <1>8, <1>9, <1>10 DEF Next

(* Whatever samples the computer wrote, and whatever damage follows them:  *)
(* a record of nothing but samples is decoded to the waypoints at which    *)
(* they have a bit of the buzzer set, each once, in order and at its time; *)
(* of any other the decoder takes nothing.                                 *)
THEOREM Sounded == Spec => []ReportsWhatSounded
<1>1. Spec => []Decoding
  BY InitDecoding, NextDecoding, PTL DEF Spec
<1>2. Decoding => ReportsWhatSounded
  BY DEF Decoding
<1>. QED  BY <1>1, <1>2, PTL

-----------------------------------------------------------------------------
(* What the recordings leave out: nothing. *)

(* Bytes that begin with a sample: that sample, and what follows it.       *)
LEMMA FirstSample ==
    ASSUME NEW bytes \in Seq(Byte), bytes # <<>>, ~Damaged(bytes)
    PROVE  \E s \in DeviceSample, rest \in Seq(Byte) :
              /\ WellFormed(s)
              /\ bytes = s.bytes \o rest
              /\ Len(rest) < Len(bytes)
<1>1. PICK length \in Nat \ {0} : length = Len(bytes)
  OBVIOUS
<1>2. /\ \A i \in 1..length : bytes[i] \in Byte
      /\ 1 \in 1..length /\ (length > 1 => 2 \in 1..length)
  BY <1>1
<1>3. PICK b \in 0..255 : b = bytes[1]
  BY <1>2 DEF Byte
<1>4. PICK c \in 0..255 : length > 1 => c = bytes[2]
  <2>1. length > 1 => bytes[2] \in 0..255
    BY <1>2 DEF Byte
  <2>. QED  BY <2>1
<1>5. PICK x : x = Following(bytes)
  BY Zenon
<1>6. /\ ~(b > 251)
      /\ ~(b = 251 /\ length > 1 /\ c = 0)
      /\ ~(length <= x)
  BY <1>1, <1>3, <1>4, <1>5, Zenon DEF Damaged
<1>7. b \in 0..251 /\ b <= 251
  BY <1>6
<1>8. FollowsAs(b, length, bytes[2], x)
  <2>1. bytes[1] \in 0..251
    BY <1>3, <1>7, Zenon
  <2>. QED  BY <1>1, <1>3, <1>5, <2>1, FollowingIs, Zenon
<1>9. /\ b < 240 => x = 0
      /\ b \in {240, 242, 247, 249} => x = 1
      /\ b \in {241, 243, 244, 245, 246, 248} => x = 2
      /\ b = 250 => x = 8
      /\ b = 251 => length > 1 /\ x = c /\ c # 0
  <2>1. /\ b = 251 /\ length = 1 => x = 1
        /\ b = 251 /\ length # 1 => x = bytes[2]
    BY <1>8 DEF FollowsAs
  <2>2. b = 251 /\ length = 1 => x = 1
    BY <2>1, Zenon
  <2>3. b = 251 => length > 1
    BY <1>6, <2>2
  <2>4. b = 251 => x = c
    BY <1>4, <2>1, <2>3
  <2>. QED  BY <1>6, <1>8, <2>3, <2>4 DEF FollowsAs
<1>10. PICK y \in Nat : y = x
  <2>1. \/ b < 240 \/ b \in {240, 242, 247, 249}
        \/ b \in {241, 243, 244, 245, 246, 248} \/ b = 250 \/ b = 251
    BY <1>7
  <2>2. x \in Nat
    BY <1>9, <2>1
  <2>. QED  BY <2>2
<1>11. y < length
  <2>1. ~(length <= y)
    BY <1>6, <1>10, Zenon
  <2>. QED  BY <2>1
<1>. DEFINE one == [i \in 1..(1 + y) |-> bytes[i]]
            rest == [i \in 1..(length - (1 + y)) |-> bytes[(1 + y) + i]]
            s == [bytes |-> one, waypoints |-> WaypointsOf(b), bits |-> BitsOf(b)]
<1>12. /\ one \in Seq(Byte) /\ Len(one) = 1 + y
       /\ rest \in Seq(Byte) /\ Len(rest) = length - (1 + y)
  <2>1. \A i \in 1..(1 + y) : i \in 1..length
    BY <1>11
  <2>2. \A i \in 1..(length - (1 + y)) : (1 + y) + i \in 1..length
    BY <1>11
  <2>. QED  BY <1>2, <1>11, <2>1, <2>2
<1>13. bytes = one \o rest
  <2>1. /\ one \o rest \in Seq(Byte) /\ Len(one \o rest) = length
        /\ \A i \in 1..(1 + y) : (one \o rest)[i] = bytes[i]
        /\ \A i \in 1..(length - (1 + y)) : (one \o rest)[(1 + y) + i] = bytes[(1 + y) + i]
    <3>1. /\ \A i \in 1..(1 + y) : one[i] = bytes[i]
          /\ \A i \in 1..(length - (1 + y)) : rest[i] = bytes[(1 + y) + i]
      OBVIOUS
    <3>. HIDE DEF one, rest
    <3>2. /\ one \o rest \in Seq(Byte)
          /\ Len(one \o rest) = (1 + y) + (length - (1 + y))
          /\ \A i \in 1..(1 + y) : (one \o rest)[i] = one[i]
          /\ \A i \in 1..(length - (1 + y)) : (one \o rest)[(1 + y) + i] = rest[i]
      <4>1. one \in Seq(Byte) /\ rest \in Seq(Byte)
        BY <1>12
      <4>2. /\ one \o rest \in Seq(Byte)
            /\ Len(one \o rest) = Len(one) + Len(rest)
            /\ \A i \in 1..Len(one) : (one \o rest)[i] = one[i]
            /\ \A i \in 1..Len(rest) : (one \o rest)[Len(one) + i] = rest[i]
        BY <4>1
      <4>3. Len(one) = 1 + y /\ Len(rest) = length - (1 + y)
        BY <1>12
      <4>. QED  BY <4>2, <4>3, Zenon
    <3>3. (1 + y) + (length - (1 + y)) = length
      OBVIOUS
    <3>. QED  BY <3>1, <3>2, <3>3, Zenon
  <2>. DEFINE both == one \o rest
  <2>. HIDE DEF one, rest, both
  <2>2. ASSUME NEW i \in 1..length PROVE both[i] = bytes[i]
    <3>1. CASE i <= 1 + y
      BY <2>1, <3>1 DEF both
    <3>2. CASE i > 1 + y
      <4>1. PICK j \in 1..(length - (1 + y)) : i = (1 + y) + j
        <5>1. i - (1 + y) \in 1..(length - (1 + y)) /\ i = (1 + y) + (i - (1 + y))
          BY <1>11, <3>2
        <5>. QED  BY <5>1
      <4>. QED  BY <2>1, <4>1, Zenon DEF both
    <3>. QED  BY <3>1, <3>2
  <2>3. both \in Seq(Byte) /\ Len(both) = length
    BY <2>1 DEF both
  <2>4. both = bytes
    BY <1>1, <2>2, <2>3
  <2>. QED  BY <2>4 DEF both
<1>14. /\ one[1] = b /\ one # <<>>
       /\ y # 0 => one[2] = bytes[2]
  BY <1>3, <1>11, <1>12
<1>. HIDE DEF one, rest
<1>15. Following(one) = y
  <2>1. one[1] \in 0..251
    BY <1>7, <1>14
  <2>2. PICK z : z = Following(one)
    BY Zenon
  <2>3. FollowsAs(b, 1 + y, one[2], z)
    BY <1>12, <1>14, <2>1, <2>2, FollowingIs, Zenon
  <2>4. b = 251 => one[2] = y
    BY <1>4, <1>9, <1>10, <1>14
  <2>5. z = y
    <3>1. CASE b = 251
      <4>1. 1 + y # 1 => z = one[2]
        BY <2>3, <3>1 DEF FollowsAs
      <4>2. y # 0
        BY <1>9, <1>10, <3>1
      <4>3. 1 + y # 1
        BY <4>2
      <4>. QED  BY <2>4, <3>1, <4>1, <4>3, Zenon
    <3>2. CASE b # 251
      <4>1. \/ b < 240 \/ b \in {240, 242, 247, 249}
            \/ b \in {241, 243, 244, 245, 246, 248} \/ b = 250
        BY <1>7, <3>2
      <4>. QED  BY <1>9, <1>10, <2>3, <4>1 DEF FollowsAs
    <3>. QED  BY <3>1, <3>2
  <2>. QED  BY <2>2, <2>5
<1>16. WaypointsOf(b) \in Nat /\ BitsOf(b) \in {NoBits} \cup 0..7
  <2>1. WaypointsOf(b) \in Nat
    BY WaypointsOfType
  <2>2. b % 8 \in 0..7
    OBVIOUS
  <2>. QED  BY <2>1, <2>2 DEF BitsOf
<1>17. s \in DeviceSample
  BY <1>12, <1>16, Zenon DEF DeviceSample
<1>18. WellFormed(s)
  BY <1>7, <1>12, <1>14, <1>15, Zenon DEF WellFormed
<1>19. Len(rest) < Len(bytes)
  BY <1>1, <1>12
<1>. QED  BY <1>12, <1>13, <1>17, <1>18, <1>19, Zenon

LEMMA JoinedTwice ==
    \A s, t, u \in Seq(Byte) : (s \o t) \o u = s \o (t \o u)
OBVIOUS

(* Any bytes are the samples of some recording and what remains behind     *)
(* them: RecordingsAssumption excludes no record that is whole behind its  *)
(* header, so the decoder is right about every one                         *)
(* (uwatec_smart_alarms.c:216-284 takes whatever the cache holds).         *)
THEOREM EveryRecord ==
    ASSUME NEW bytes \in Seq(Byte)
    PROVE  \E r \in [samples : Seq(DeviceSample), rest : Seq(Byte)] :
              /\ \A i \in DOMAIN r.samples : WellFormed(r.samples[i])
              /\ r.rest = <<>> \/ Damaged(r.rest)
              /\ bytes = Encode(r.samples) \o r.rest
<1>. DEFINE Good(samples, rest) ==
                /\ \A i \in 1..Len(samples) : WellFormed(samples[i])
                /\ bytes = Encode(samples) \o rest
            T == {n \in Nat : \E samples \in Seq(DeviceSample), rest \in Seq(Byte) :
                                 Good(samples, rest) /\ Len(rest) = n}
<1>1. Len(bytes) \in T
  <2>. DEFINE none == <<>>
  <2>1. none \in Seq(DeviceSample) /\ Len(none) = 0 /\ 1..0 = {}
    OBVIOUS
  <2>2. Encode(none) = <<>>
    <3>1. EncodedTo(none)[0] = <<>>
      BY <2>1, EncodedStep
    <3>. QED  BY <2>1, <3>1, EncodeIs
  <2>3. bytes = Encode(none) \o bytes
    BY <2>2
  <2>4. Good(none, bytes)
    BY <2>1, <2>3
  <2>5. Len(bytes) \in Nat
    OBVIOUS
  <2>. HIDE DEF Good, none
  <2>. QED  BY <2>1, <2>4, <2>5, Zenon
<1>2. T \in SUBSET Nat /\ T # {}
  BY <1>1, Zenon
<1>3. PICK n \in T : \A m \in T : n <= m
  <2>. HIDE DEF T
  <2>. QED  BY <1>2, LeastNat
<1>. HIDE DEF Good
<1>4. PICK samples \in Seq(DeviceSample), rest \in Seq(Byte) :
         Good(samples, rest) /\ Len(rest) = n
  BY <1>3, Zenon
<1>5. ASSUME rest # <<>>, ~Damaged(rest) PROVE FALSE
  <2>1. PICK s \in DeviceSample, tail \in Seq(Byte) :
           WellFormed(s) /\ rest = s.bytes \o tail /\ Len(tail) < Len(rest)
    BY <1>5, FirstSample, Zenon
  <2>. DEFINE more == Append(samples, s)
  <2>2. more \in Seq(DeviceSample) /\ s.bytes \in Seq(Byte)
    BY DEF DeviceSample
  <2>3. Encode(more) = Encode(samples) \o s.bytes /\ Encode(samples) \in Seq(Byte)
    BY EncodeAppend, EncodeIs
  <2>4. bytes = Encode(samples) \o (s.bytes \o tail)
    BY <1>4, <2>1, Zenon DEF Good
  <2>5. bytes = (Encode(samples) \o s.bytes) \o tail
    <3>1. (Encode(samples) \o s.bytes) \o tail = Encode(samples) \o (s.bytes \o tail)
      BY <2>2, <2>3, JoinedTwice, Zenon
    <3>. QED  BY <2>4, <3>1, Zenon
  <2>6. \A i \in 1..Len(more) : WellFormed(more[i])
    <3>1. \A i \in 1..Len(samples) : WellFormed(samples[i])
      BY <1>4, Zenon DEF Good
    <3>2. \A i \in 1..Len(more) : (i \in 1..Len(samples) /\ more[i] = samples[i]) \/ more[i] = s
      OBVIOUS
    <3>. QED  BY <2>1, <3>1, <3>2, Zenon
  <2>. HIDE DEF more
  <2>7. Good(more, tail)
    BY <2>3, <2>5, <2>6, Zenon DEF Good
  <2>8. Len(tail) \in Nat /\ n \in Nat
    BY <1>4
  <2>9. Len(tail) \in T
    BY <2>2, <2>7, <2>8, Zenon
  <2>10. n <= Len(tail)
    BY <1>3, <2>9, Zenon
  <2>. QED  BY <1>4, <2>1, <2>8, <2>10
<1>. DEFINE r == [samples |-> samples, rest |-> rest]
<1>6. r \in [samples : Seq(DeviceSample), rest : Seq(Byte)]
  OBVIOUS
<1>7. DOMAIN samples = 1..Len(samples)
  OBVIOUS
<1>8. /\ \A i \in DOMAIN r.samples : WellFormed(r.samples[i])
      /\ r.rest = <<>> \/ Damaged(r.rest)
      /\ bytes = Encode(r.samples) \o r.rest
  BY <1>4, <1>5, <1>7, Zenon DEF Good
<1>. HIDE DEF r
<1>. QED  BY <1>6, <1>8, Zenon

-----------------------------------------------------------------------------
(* The walk does not stand still. *)

(* A sample takes the walk further, and not beyond the end of the record,  *)
(* so there are at most as many steps as bytes                             *)
(* (uwatec_smart_alarms.c:246-284: a length of zero is refused).            *)
THEOREM Advances ==
    Spec => [][result = "running" /\ result' = "running" =>
                  offset < offset' /\ offset' <= size']_vars
<1>. DEFINE Step == result = "running" /\ result' = "running" =>
                       offset < offset' /\ offset' <= size'
<1>1. ASSUME Invariant, [Next]_vars PROVE [Step]_vars
  <2>1. ASSUME Next, result = "running", result' = "running"
        PROVE  offset < offset' /\ offset' <= size'
    <3>1. Sample
      BY <2>1, Zenon DEF Next, RejectHeader, AcceptHeader, RejectType, RejectSample, Finish, Fails
    <3>2. /\ offset \in Nat /\ size \in Nat /\ offset < size
          /\ id <= Len(galileo_samples) /\ ~Incomplete
          /\ offset' = end + skipped /\ size' = size
      BY <1>1, <3>1 DEF Sample, Invariant, TypeOK, record
    <3>3. end <= size
      BY <3>2 DEF Incomplete
    <3>4. end \in Nat /\ offset < end /\ skipped \in Nat /\ end + skipped <= size
      BY <1>1, <2>1, <3>2, <3>3, SampleType
    <3>. QED  BY <3>2, <3>4
  <2>. QED  BY <1>1, <2>1, Zenon
<1>. QED  BY <1>1, DecoderInvariant, PTL DEF Spec

=============================================================================
