---------------------------- MODULE ReplayProofs ----------------------------
(***************************************************************************)
(* Proofs about Session that need inductions over the bytes of the dump    *)
(* file: the dump holds every record that was sent, a replay of it saves   *)
(* what the options select among these records, and the runs implement     *)
(* Logbook.                                                                *)
(***************************************************************************)
EXTENDS SessionProofs, Induction

-----------------------------------------------------------------------------
(* The records that begin in a file. *)

LEMMA BegunIs ==
    ASSUME NEW cells \in Seq(Cell)
    PROVE  /\ Begun(cells) \in [0..Len(cells) -> Seq(Record)]
           /\ Begun(cells)[0] = <<>>
           /\ \A n \in 1..Len(cells) :
                Begun(cells)[n] = WithStart(Begun(cells)[n - 1], cells[n])
<1>. DEFINE RS == Seq(Record)
            N == Len(cells)
            none == <<>>
            g == [n \in 1..N |-> [s \in RS |-> WithStart(s, cells[n])]]
            Is(f) == f = [n \in 0..N |->
                            IF n = 0 THEN none ELSE WithStart(f[n - 1], cells[n])]
            begun == CHOOSE f : Is(f)
<1>1. none \in RS /\ N \in Nat
  OBVIOUS
<1>2. \A n \in 1..N : \A s \in RS : WithStart(s, cells[n]) \in RS
  <2> SUFFICES ASSUME NEW n \in 1..N, NEW s \in RS PROVE WithStart(s, cells[n]) \in RS
    OBVIOUS
  <2>1. cells[n].rec \in Record
    BY DEF Cell
  <2>. QED  BY <2>1 DEF WithStart
<1>3. Begun(cells) = begun
  BY DEF Begun
<1>. HIDE DEF RS, N
<1>4. g \in [1..N -> [RS -> RS]] /\ \A n \in 1..N : \A s \in RS : g[n][s] = WithStart(s, cells[n])
  BY <1>2
<1>. HIDE DEF g, none
<1>5. PICK f \in [0..N -> RS] : f[0] = none /\ \A i \in 1..N : f[i] = g[i][f[i - 1]]
  BY <1>1, <1>4, FoldExists, SMTT(20)
<1>6. Is(f)
  <2>1. \A i \in 0..N : i # 0 => i \in 1..N /\ i - 1 \in 0..N
    BY <1>1
  <2>2. \A i \in 0..N : i # 0 => g[i][f[i - 1]] = WithStart(f[i - 1], cells[i])
    BY <1>4, <2>1
  <2>. QED  BY <1>5, <2>1, <2>2
<1>. HIDE DEF Is
<1>7. Is(begun)
  BY <1>6
<1>. HIDE DEF begun
<1>8. begun = [n \in 0..N |-> IF n = 0 THEN none ELSE WithStart(begun[n - 1], cells[n])]
  BY <1>7 DEF Is
<1>9. begun[0] = none /\ \A n \in 1..N : begun[n] = WithStart(begun[n - 1], cells[n])
  <2>1. 0 \in 0..N /\ \A n \in 1..N : n # 0 /\ n \in 0..N
    BY <1>1
  <2>. QED  BY <1>8, <2>1
<1>10. begun \in [0..N -> RS]
  <2>. DEFINE T == {n \in 0..N : begun[n] \in RS}
  <2>1. 0 \in T
    BY <1>1, <1>9
  <2>2. \A n \in 0..(N - 1) : n \in T => n + 1 \in T
    <3> SUFFICES ASSUME NEW n \in 0..(N - 1), begun[n] \in RS
                 PROVE  n + 1 \in 0..N /\ begun[n + 1] \in RS
      OBVIOUS
    <3>1. n + 1 \in 1..N /\ n + 1 \in 0..N /\ (n + 1) - 1 = n
      BY <1>1
    <3>2. begun[n + 1] = WithStart(begun[n], cells[n + 1])
      BY <1>9, <3>1
    <3>. QED  BY <1>2, <3>1, <3>2
  <2>. HIDE DEF T
  <2>3. 0..N \subseteq T
    <3>1. 0 \in Int /\ N \in Int
      BY <1>1
    <3>. QED  BY <2>1, <2>2, <3>1, RangeSet
  <2>4. \A n \in 0..N : begun[n] \in RS
    BY <2>3 DEF T
  <2>. QED  BY <1>8, <2>4
<1>. QED  BY <1>3, <1>9, <1>10 DEF RS, N, none

LEMMA RecordsType ==
    ASSUME NEW cells \in Seq(Cell)
    PROVE  /\ Records(cells) \in Seq(Record)
           /\ \A n \in 0..Len(cells) : Begun(cells)[n] \in Seq(Record)
<1>1. Len(cells) \in 0..Len(cells)
  OBVIOUS
<1>. QED  BY <1>1, BegunIs DEF Records

(* They depend on no byte behind. *)
LEMMA BegunAgree ==
    ASSUME NEW s \in Seq(Cell), NEW t \in Seq(Cell), Len(s) <= Len(t),
           \A i \in 1..Len(s) : s[i] = t[i]
    PROVE  \A n \in 0..Len(s) : Begun(s)[n] = Begun(t)[n]
<1>. DEFINE T == {n \in 0..Len(s) : Begun(s)[n] = Begun(t)[n]}
<1>1. Len(s) \in Nat /\ Len(t) \in Nat
  OBVIOUS
<1>2. 0 \in T
  BY <1>1, BegunIs
<1>3. \A n \in 0..(Len(s) - 1) : n \in T => n + 1 \in T
  <2> SUFFICES ASSUME NEW n \in 0..(Len(s) - 1), Begun(s)[n] = Begun(t)[n]
               PROVE  n + 1 \in 0..Len(s) /\ Begun(s)[n + 1] = Begun(t)[n + 1]
    OBVIOUS
  <2>1. /\ n + 1 \in 0..Len(s) /\ n + 1 \in 1..Len(s) /\ n + 1 \in 1..Len(t)
        /\ (n + 1) - 1 = n
    BY <1>1
  <2>2. Begun(s)[n + 1] = WithStart(Begun(s)[n], s[n + 1])
    BY <2>1, BegunIs
  <2>3. Begun(t)[n + 1] = WithStart(Begun(t)[n], t[n + 1])
    BY <2>1, BegunIs
  <2>. QED  BY <2>1, <2>2, <2>3
<1>. HIDE DEF T
<1>4. 0..Len(s) \subseteq T
  <2>1. 0 \in Int /\ Len(s) \in Int
    BY <1>1
  <2>. QED  BY <1>2, <1>3, <2>1, RangeSet
<1>. QED  BY <1>4 DEF T

(* No record begins where no byte is the first of one. *)
LEMMA BegunInside ==
    ASSUME NEW cells \in Seq(Cell), NEW a \in 0..Len(cells), NEW b \in a..Len(cells),
           \A i \in (a + 1)..b : cells[i].at # 1
    PROVE  Begun(cells)[b] = Begun(cells)[a]
<1>. DEFINE T == {n \in a..b : Begun(cells)[n] = Begun(cells)[a]}
<1>1. Len(cells) \in Nat /\ a \in Int /\ b \in Int /\ a <= b
  OBVIOUS
<1>2. a \in T
  BY <1>1
<1>3. \A n \in a..(b - 1) : n \in T => n + 1 \in T
  <2> SUFFICES ASSUME NEW n \in a..(b - 1), Begun(cells)[n] = Begun(cells)[a]
               PROVE  n + 1 \in a..b /\ Begun(cells)[n + 1] = Begun(cells)[a]
    OBVIOUS
  <2>1. n + 1 \in a..b /\ n + 1 \in (a + 1)..b /\ n + 1 \in 1..Len(cells) /\ (n + 1) - 1 = n
    BY <1>1
  <2>2. Begun(cells)[n + 1] = WithStart(Begun(cells)[n], cells[n + 1])
    BY <2>1, BegunIs
  <2>. QED  BY <2>1, <2>2 DEF WithStart
<1>. HIDE DEF T
<1>4. a..b \subseteq T
  BY <1>1, <1>2, <1>3, RangeSet
<1>5. b \in a..b
  BY <1>1
<1>. QED  BY <1>4, <1>5 DEF T

(* One record begins in the bytes of one record. *)
LEMMA BegunRecord ==
    ASSUME NEW cells \in Seq(Cell), NEW o \in Nat, NEW k \in Nat \ {0}, o + k <= Len(cells),
           cells[o + 1].at = 1, \A j \in 2..k : cells[o + j].at # 1
    PROVE  Begun(cells)[o + k] = Append(Begun(cells)[o], cells[o + 1].rec)
<1>1. /\ Len(cells) \in Nat /\ o + 1 \in 1..Len(cells) /\ (o + 1) - 1 = o
      /\ o + 1 \in 0..Len(cells) /\ o + k \in (o + 1)..Len(cells)
  OBVIOUS
<1>2. Begun(cells)[o + 1] = Append(Begun(cells)[o], cells[o + 1].rec)
  BY <1>1, BegunIs DEF WithStart
<1>3. \A i \in ((o + 1) + 1)..(o + k) : cells[i].at # 1
  <2> SUFFICES ASSUME NEW i \in ((o + 1) + 1)..(o + k) PROVE cells[i].at # 1
    OBVIOUS
  <2>1. i - o \in 2..k /\ o + (i - o) = i
    OBVIOUS
  <2>. QED  BY <2>1
<1>4. Begun(cells)[o + k] = Begun(cells)[o + 1]
  BY <1>1, <1>3, BegunInside
<1>. QED  BY <1>2, <1>4

(* The records that begin in a part of a file come first among its records. *)
LEMMA BegunGrows ==
    ASSUME NEW cells \in Seq(Cell), NEW n \in 0..Len(cells)
    PROVE  /\ Len(Begun(cells)[n]) \in Nat
           /\ Len(Begun(cells)[n]) <= Len(Records(cells))
           /\ \A i \in 1..Len(Begun(cells)[n]) : Begun(cells)[n][i] = Records(cells)[i]
<1>. DEFINE s == Begun(cells)[n]
            Extends(t) == Len(s) <= Len(t) /\ \A i \in 1..Len(s) : s[i] = t[i]
            T == {m \in n..Len(cells) : Extends(Begun(cells)[m])}
<1>1. s \in Seq(Record) /\ Len(s) \in Nat
  BY BegunIs
<1>2. n \in T
  BY <1>1
<1>3. \A m \in n..(Len(cells) - 1) : m \in T => m + 1 \in T
  <2> SUFFICES ASSUME NEW m \in n..(Len(cells) - 1), Extends(Begun(cells)[m])
               PROVE  m + 1 \in n..Len(cells) /\ Extends(Begun(cells)[m + 1])
    OBVIOUS
  <2>. DEFINE t == Begun(cells)[m]
  <2>1. m + 1 \in 1..Len(cells) /\ m + 1 \in n..Len(cells) /\ (m + 1) - 1 = m /\ m \in 0..Len(cells)
    OBVIOUS
  <2>2. Begun(cells)[m + 1] = WithStart(t, cells[m + 1])
    BY <2>1, BegunIs
  <2>3. t \in Seq(Record)
    BY <2>1, BegunIs
  <2>4. Extends(t)
    OBVIOUS
  <2>. HIDE DEF s, t
  <2>5. Extends(WithStart(t, cells[m + 1]))
    BY <1>1, <2>3, <2>4 DEF WithStart
  <2>. QED  BY <2>1, <2>2, <2>5
<1>. HIDE DEF T
<1>4. n..Len(cells) \subseteq T
  <2>1. n \in Int /\ Len(cells) \in Int
    OBVIOUS
  <2>. QED  BY <1>2, <1>3, <2>1, RangeSet
<1>5. Len(cells) \in n..Len(cells)
  OBVIOUS
<1>6. Extends(Records(cells))
  BY <1>4, <1>5 DEF T, Records
<1>. QED  BY <1>1, <1>6

-----------------------------------------------------------------------------
(* Files that hold whole records. *)

LEMMA CellFields ==
    ASSUME NEW c \in Cell
    PROVE  /\ c.rec \in Record /\ c.at \in Nat \ {0} /\ c.at <= c.rec.size
           /\ c = [rec |-> c.rec, at |-> c.at]
           /\ c.rec.size \in Nat /\ c.rec.size > HeaderSize /\ c.rec.size > 1
<1>1. c.rec \in Record /\ c.at \in Nat \ {0} /\ c.at <= c.rec.size
      /\ c = [rec |-> c.rec, at |-> c.at]
  BY DEF Cell
<1>2. c.rec.size \in Sizes
  BY <1>1 DEF Record
<1>. QED  BY <1>1, <1>2, SizesAssumption, FramingAssumption

LEMMA RecordSize ==
    ASSUME NEW r \in Record
    PROVE  r.size \in Nat /\ r.size > HeaderSize /\ r.size > 1
<1>1. r.size \in Sizes
  BY DEF Record
<1>2. r.size \in Nat /\ r.size > HeaderSize
  BY <1>1, SizesAssumption
<1>. QED  BY <1>2, FramingAssumption

(* The cell before c in the same record. *)
LEMMA Before ==
    ASSUME NEW c \in Cell, NEW d \in Cell, d = [c EXCEPT !.at = @ - 1]
    PROVE  d.rec = c.rec /\ c.at = d.at + 1
BY DEF Cell

(* Where a record begins in such a file, all of it follows, and behind it  *)
(* is the end of the file or the next record.                              *)
LEMMA IntactRecord ==
    ASSUME NEW cells \in Seq(Cell), Intact(cells), NEW o \in 0..(Len(cells) - 1),
           cells[o + 1].at = 1
    PROVE  LET r == cells[o + 1].rec IN
           /\ r \in Record
           /\ o + r.size <= Len(cells)
           /\ \A j \in 1..r.size : cells[o + j] = [rec |-> r, at |-> j]
           /\ o + r.size = Len(cells) \/ cells[o + r.size + 1].at = 1
<1>. DEFINE r == cells[o + 1].rec
            T == {j \in 1..r.size : o + j <= Len(cells)
                                    /\ cells[o + j] = [rec |-> r, at |-> j]}
<1>1. Len(cells) \in Nat /\ o \in Nat /\ o + 1 \in 1..Len(cells)
  OBVIOUS
<1>2. cells[o + 1] \in Cell /\ r \in Record /\ r.size \in Nat /\ r.size > 1
      /\ cells[o + 1] = [rec |-> r, at |-> 1]
  BY <1>1, CellFields
<1>. HIDE DEF r
<1>3. 1 \in T
  BY <1>1, <1>2
<1>4. \A j \in 1..(r.size - 1) : j \in T => j + 1 \in T
  <2> SUFFICES ASSUME NEW j \in 1..(r.size - 1), o + j <= Len(cells),
                      cells[o + j] = [rec |-> r, at |-> j]
               PROVE  /\ j + 1 \in 1..r.size
                      /\ o + (j + 1) <= Len(cells)
                      /\ cells[o + (j + 1)] = [rec |-> r, at |-> j + 1]
    OBVIOUS
  <2>. DEFINE i == o + j
  <2>1. i \in 1..Len(cells) /\ j + 1 \in 1..r.size /\ j # r.size /\ i + 1 = o + (j + 1)
    BY <1>1, <1>2
  <2>2. cells[i].at = j /\ cells[i].rec = r
    OBVIOUS
  <2>. HIDE DEF i
  <2>3. i < Len(cells)
    BY <2>1, <2>2 DEF Intact
  <2>4. cells[i + 1].at # 1
    BY <2>1, <2>2, <2>3 DEF Intact
  <2>5. i + 1 \in 1..Len(cells) /\ (i + 1) - 1 = i
    BY <2>1, <2>3, <1>1
  <2>6. cells[i] = [cells[i + 1] EXCEPT !.at = @ - 1]
    BY <2>4, <2>5 DEF Intact
  <2>7. cells[i] \in Cell /\ cells[i + 1] \in Cell
    BY <2>1, <2>5
  <2>8. cells[i + 1].rec = r /\ cells[i + 1].at = j + 1
    BY <2>2, <2>6, <2>7, Before
  <2>9. cells[i + 1] = [rec |-> r, at |-> j + 1]
    BY <2>7, <2>8, CellFields
  <2>. QED  BY <2>1, <2>5, <2>9
<1>. HIDE DEF T
<1>5. 1..r.size \subseteq T
  <2>1. 1 \in Int /\ r.size \in Int
    BY <1>2
  <2>. QED  BY <1>3, <1>4, <2>1, RangeSet
<1>6. \A j \in 1..r.size : o + j <= Len(cells) /\ cells[o + j] = [rec |-> r, at |-> j]
  BY <1>5 DEF T
<1>7. r.size \in 1..r.size
  BY <1>2
<1>8. ASSUME o + r.size # Len(cells) PROVE cells[o + r.size + 1].at = 1
  <2>. DEFINE i == o + r.size
  <2>0. i <= Len(cells) /\ cells[i] = [rec |-> r, at |-> r.size]
    BY <1>6, <1>7
  <2>1. i \in 1..Len(cells) /\ i + 1 \in 1..Len(cells) /\ (i + 1) - 1 = i
    BY <1>1, <1>2, <1>8, <2>0
  <2>2. cells[i].rec = r /\ cells[i].at = r.size
    BY <2>0
  <2>. HIDE DEF i
  <2>3. cells[i] \in Cell /\ cells[i + 1] \in Cell
    BY <2>1
  <2>4. ASSUME cells[i] = [cells[i + 1] EXCEPT !.at = @ - 1] PROVE FALSE
    <3>1. cells[i + 1].rec = r /\ cells[i + 1].at = r.size + 1
      BY <2>2, <2>3, <2>4, Before
    <3>2. cells[i + 1].at <= cells[i + 1].rec.size
      BY <2>3, CellFields
    <3>. QED  BY <1>2, <3>1, <3>2
  <2>5. cells[i + 1].at = 1
    BY <2>1, <2>4 DEF Intact
  <2>. QED  BY <2>5 DEF i
<1>. QED  BY <1>2, <1>6, <1>7, <1>8 DEF r

(* A file of whole records that is given a whole record. *)
Holds(cells, records) == Records(cells) = records /\ Intact(cells)

LEMMA HoldsNone == Holds(<<>>, <<>>)
<1>1. <<>> \in Seq(Cell) /\ Len(<<>>) = 0
  OBVIOUS
<1>2. Records(<<>>) = <<>>
  BY <1>1, BegunIs DEF Records
<1>3. Intact(<<>>)
  BY DEF Intact
<1>. QED  BY <1>2, <1>3 DEF Holds

LEMMA HoldsMore ==
    ASSUME NEW s \in Seq(Cell), NEW r \in Record, NEW records, Holds(s, records)
    PROVE  Holds(s \o Bytes(r), Append(records, r))
<1>. DEFINE b == Bytes(r)
            t == s \o Bytes(r)
            n == Len(s)
            z == r.size
<1>1. /\ n \in Nat /\ z \in Nat /\ z > 1
      /\ b \in Seq(Cell) /\ Len(b) = z
      /\ \A j \in 1..z : b[j] = [rec |-> r, at |-> j]
  BY BytesType, RecordSize DEF Bytes
<1>2. /\ t \in Seq(Cell) /\ Len(t) = n + z
      /\ \A i \in 1..n : t[i] = s[i]
      /\ \A j \in 1..z : t[n + j] = [rec |-> r, at |-> j]
  <2>. HIDE DEF b, z
  <2>1. s \o b \in Seq(Cell) /\ Len(s \o b) = n + z
    BY <1>1
  <2>2. \A i \in 1..n : (s \o b)[i] = s[i]
    BY <1>1
  <2>3. \A j \in 1..z : (s \o b)[n + j] = b[j]
    BY <1>1
  <2>. QED  BY <1>1, <2>1, <2>2, <2>3 DEF b
<1>. HIDE DEF b, t, n, z
<1>5. \A i \in (n + 1)..(n + z) : t[i].rec = r /\ t[i].at = i - n
  <2> SUFFICES ASSUME NEW i \in (n + 1)..(n + z) PROVE t[i].rec = r /\ t[i].at = i - n
    OBVIOUS
  <2>1. i - n \in 1..z /\ n + (i - n) = i
    BY <1>1
  <2>2. t[n + (i - n)] = [rec |-> r, at |-> i - n]
    BY <1>2, <2>1
  <2>. QED  BY <2>1, <2>2
<1>3. Records(t) = Append(records, r)
  <2>1. Begun(t)[n] = Records(s)
    <3>1. Len(s) <= Len(t) /\ \A i \in 1..Len(s) : s[i] = t[i]
      BY <1>1, <1>2 DEF n
    <3>2. Len(s) \in 0..Len(s)
      OBVIOUS
    <3>. QED  BY <1>2, <3>1, <3>2, BegunAgree DEF n, Records
  <2>2. t[n + 1].at = 1 /\ t[n + 1].rec = r
    BY <1>1, <1>2
  <2>3. \A j \in 2..z : t[n + j].at # 1
    <3> SUFFICES ASSUME NEW j \in 2..z PROVE t[n + j].at # 1
      OBVIOUS
    <3>1. n + j \in (n + 1)..(n + z) /\ (n + j) - n = j /\ j # 1
      BY <1>1
    <3>2. t[n + j].at = (n + j) - n
      BY <1>5, <3>1
    <3>. QED  BY <3>1, <3>2
  <2>4. n + z <= Len(t) /\ z \in Nat \ {0}
    BY <1>1, <1>2
  <2>5. Begun(t)[n + z] = Append(Begun(t)[n], t[n + 1].rec)
    BY <1>1, <1>2, <2>2, <2>3, <2>4, BegunRecord
  <2>. QED  BY <1>2, <2>1, <2>2, <2>5 DEF Holds, Records
<1>4. Intact(t)
  <2> SUFFICES ASSUME NEW i \in 1..Len(t)
               PROVE  /\ t[i].at = 1 \/ (i > 1 /\ t[i - 1] = [t[i] EXCEPT !.at = @ - 1])
                      /\ t[i].at = t[i].rec.size \/ i < Len(t)
                      /\ i < Len(t) /\ t[i + 1].at = 1 => t[i].at = t[i].rec.size
    BY DEF Intact
  <2>1. CASE i <= n
    <3>1. i \in 1..n /\ i \in 1..Len(s) /\ t[i] = s[i] /\ i < Len(t)
      BY <1>1, <1>2, <2>1 DEF n
    <3>2. s[i].at = 1 \/ (i > 1 /\ s[i - 1] = [s[i] EXCEPT !.at = @ - 1])
      BY <3>1 DEF Holds, Intact
    <3>3. i > 1 => t[i - 1] = s[i - 1]
      BY <1>1, <1>2, <3>1
    <3>4. ASSUME t[i + 1].at = 1 PROVE t[i].at = t[i].rec.size
      <4>1. CASE i = n
        <5>1. ~(i < Len(s))
          BY <1>1, <4>1 DEF n
        <5>2. s[i].at = s[i].rec.size
          BY <3>1, <5>1 DEF Holds, Intact
        <5>. QED  BY <3>1, <5>2
      <4>2. CASE i # n
        <5>1. i + 1 \in 1..n /\ i < Len(s)
          BY <1>1, <3>1, <4>2 DEF n
        <5>. QED  BY <1>2, <3>1, <3>4, <5>1 DEF Holds, Intact
      <4>. QED  BY <4>1, <4>2
    <3>. QED  BY <3>1, <3>2, <3>3, <3>4
  <2>2. CASE i > n
    <3>. DEFINE j == i - n
    <3>0. j \in 1..z /\ i = n + j
      BY <1>1, <1>2, <2>2
    <3>1. j \in 1..z /\ i = n + j /\ t[i] = [rec |-> r, at |-> j]
      <4>1. t[n + j] = [rec |-> r, at |-> j]
        BY <1>2, <3>0
      <4>. QED  BY <3>0, <4>1
    <3>. HIDE DEF j
    <3>2. CASE j # 1
      <4>1. j - 1 \in 1..z /\ n + (j - 1) = i - 1 /\ i > 1
        BY <1>1, <3>1, <3>2
      <4>2. t[i - 1] = [rec |-> r, at |-> j - 1]
        BY <1>2, <4>1
      <4>3. t[i - 1] = [t[i] EXCEPT !.at = @ - 1]
        BY <3>1, <4>2
      <4>4. i < Len(t) => t[i + 1].at # 1
        <5>1. i < Len(t) => i + 1 \in (n + 1)..(n + z) /\ (i + 1) - n # 1
          BY <1>1, <1>2, <3>1
        <5>. QED  BY <1>5, <5>1
      <4>5. i < Len(t) \/ t[i].at = t[i].rec.size
        BY <1>1, <1>2, <3>1 DEF z
      <4>. QED  BY <4>1, <4>3, <4>4, <4>5
    <3>3. CASE j = 1
      <4>1. i < Len(t) /\ i + 1 \in (n + 1)..(n + z) /\ (i + 1) - n = 2
        BY <1>1, <1>2, <3>1, <3>3
      <4>2. t[i + 1].at = 2
        BY <1>5, <4>1
      <4>. QED  BY <3>1, <3>3, <4>1, <4>2
    <3>. QED  BY <3>2, <3>3
  <2>. QED  BY <1>1, <1>2, <2>1, <2>2
<1>. QED  BY <1>3, <1>4 DEF Holds, t

(* What the splitter reads of such a file. *)
LEMMA ViewsType ==
    ASSUME NEW cells \in Seq(Cell)
    PROVE  /\ HeaderViews(cells) \in Seq(Nat \cup {NoMagic})
           /\ Len(HeaderViews(cells)) = Len(cells)
<1>1. \A i \in 1..Len(cells) : cells[i].rec.size \in Nat
  BY CellFields
<1>. QED  BY <1>1 DEF HeaderViews

LEMMA IntactHeader ==
    ASSUME NEW cells \in Seq(Cell), Intact(cells), NEW o \in 0..(Len(cells) - 1),
           cells[o + 1].at = 1
    PROVE  LET r == cells[o + 1].rec IN
           /\ HeaderViews(cells)[o + 1] = r.size
           /\ Found(cells, o + 1, r, r.size)
           /\ S!RecordAt(HeaderViews(cells), o)
<1>. DEFINE r == cells[o + 1].rec
            b == HeaderViews(cells)
<1>1. /\ r \in Record /\ o + r.size <= Len(cells)
      /\ \A j \in 1..r.size : cells[o + j] = [rec |-> r, at |-> j]
  BY IntactRecord
<1>2. r.size \in Nat /\ HeaderSize < r.size /\ HeaderSize \in Nat
  BY <1>1, RecordSize, FramingAssumption
<1>3. Len(b) = Len(cells) /\ Len(cells) \in Nat /\ o \in Nat /\ o + 1 \in 1..Len(cells)
  BY ViewsType
<1>. HIDE DEF r
<1>4. \A n \in Nat : n <= r.size => Found(cells, o + 1, r, n)
  <2> SUFFICES ASSUME NEW n \in Nat, n <= r.size, NEW j \in 1..n
               PROVE  /\ (o + 1) + j - 1 <= Len(cells)
                      /\ cells[(o + 1) + j - 1] = [rec |-> r, at |-> j]
    BY DEF Found
  <2>1. j \in 1..r.size /\ (o + 1) + j - 1 = o + j
    BY <1>2, <1>3
  <2>. QED  BY <1>1, <1>2, <1>3, <2>1
<1>5. Found(cells, o + 1, r, HeaderSize) /\ Found(cells, o + 1, r, r.size)
  BY <1>2, <1>4
<1>6. b[o + 1] = r.size
  BY <1>3, <1>5 DEF HeaderViews, r
<1>. HIDE DEF b
<1>7. S!RecordAt(b, o)
  BY <1>1, <1>2, <1>3, <1>6, FramingAssumption DEF S!RecordAt
<1>. QED  BY <1>5, <1>6, <1>7 DEF r, b

(* Whole records are the format that the splitter accepts. *)
LEMMA IntactIsDump ==
    ASSUME NEW cells \in Seq(Cell), Intact(cells), cells # <<>>
    PROVE  IsDump(cells)
<1>. DEFINE b == HeaderViews(cells)
            cuts == {o \in 0..Len(cells) : o = Len(cells) \/ cells[o + 1].at = 1}
<1>1. /\ Len(b) = Len(cells) /\ Len(cells) \in Nat /\ Len(cells) # 0 /\ b # <<>>
  <2>1. Len(b) = Len(cells) /\ b \in Seq(Nat \cup {NoMagic})
    BY ViewsType
  <2>2. Len(cells) \in Nat /\ Len(cells) # 0
    BY EmptySeq
  <2>. QED  BY <2>1, <2>2, EmptySeq
<1>2. 0 \in cuts
  <2>1. 1 \in 1..Len(cells)
    BY <1>1
  <2>2. cells[1].at = 1
    <3>1. cells[1].at = 1 \/ 1 > 1
      BY <2>1, Zenon DEF Intact
    <3>. QED  BY <3>1
  <2>. QED  BY <1>1, <2>2
<1>3. ASSUME NEW o \in cuts \ {Len(b)}
      PROVE  S!RecordAt(b, o) /\ o + b[o + 1] \in cuts
  <2>1. o \in 0..(Len(cells) - 1) /\ cells[o + 1].at = 1
    BY <1>1
  <2>. DEFINE r == cells[o + 1].rec
  <2>2. /\ r \in Record /\ o + r.size <= Len(cells)
        /\ o + r.size = Len(cells) \/ cells[(o + r.size) + 1].at = 1
    BY <2>1, IntactRecord
  <2>3. b[o + 1] = r.size /\ S!RecordAt(b, o)
    BY <2>1, IntactHeader
  <2>4. r.size \in Nat
    BY <2>2, RecordSize
  <2>. HIDE DEF r, b
  <2>5. o + r.size \in 0..Len(cells)
    BY <1>1, <2>1, <2>2, <2>4
  <2>6. o + r.size \in cuts
    BY <2>2, <2>5
  <2>. QED  BY <2>3, <2>6
<1>4. cuts \subseteq 0..Len(b)
  BY <1>1
<1>. HIDE DEF cuts
<1>5. S!Cuts(b, cuts)
  BY <1>2, <1>3, <1>4 DEF S!Cuts
<1>. QED  BY <1>1, <1>4, <1>5 DEF IsDump, S!IsDump

-----------------------------------------------------------------------------
(* The dump of a download: what was sent is whole records, those that      *)
(* dive_cb has been given.                                                 *)

SentWhole ==
    opts.live =>
        /\ pc \in {"foreach", "filter", "fclose", "save"} => Holds(sent, transferred)
        /\ pc = "write" => Holds(sent, Front(transferred))

LEMMA FrontLast ==
    ASSUME NEW s \in Seq(Record), s # <<>>
    PROVE  s = Append(Front(s), Last(s))
<1>1. Len(s) \in Nat /\ Len(s) # 0
  BY EmptySeq
<1>. QED  BY <1>1 DEF Front, Last

LEMMA FrontAppend ==
    ASSUME NEW s \in Seq(Record), NEW r \in Record
    PROVE  Front(Append(s, r)) = s
BY DEF Front

LEMMA SentWholeNext ==
    ASSUME TypeOK, HasCurrent, HandlesByLabel, SentWhole, [Next]_vars
    PROVE  SentWhole'
<1>. USE DEF TypeOK, handles, process, disk, divedata, history
<1>1. CASE Begin
  <2>1. sent' = <<>> /\ transferred' = <<>> /\ pc' \in {"foreach", "closedevice"}
    BY <1>1 DEF Begin, NoDives, Goto, Fails
  <2>. QED  BY <2>1, HoldsNone DEF SentWhole, Holds
<1>2. CASE Transfer
  <2>1. /\ opts.live /\ pc = "foreach" /\ pc' = "write" /\ UNCHANGED sent
        /\ transferred' = Append(transferred, log[Len(transferred) + 1])
    BY <1>2 DEF Transfer, Goto, HandlesByLabel, Connected
  <2>2. transferred \in Seq(Record) /\ log[Len(transferred) + 1] \in Record
    BY <1>2, LogType DEF Transfer, DivedataType
  <2>3. Front(transferred') = transferred
    BY <2>1, <2>2, FrontAppend
  <2>. QED  BY <2>1, <2>3 DEF SentWhole, Holds
<1>3. CASE Write
  <2>1. /\ opts.live /\ pc = "write" /\ pc' = "filter" /\ UNCHANGED transferred
        /\ sent' = sent \o Bytes(Current)
    BY <1>3 DEF Write, Goto, HandlesByLabel, Connected
  <2>2. transferred # <<>> /\ transferred \in Seq(Record) /\ sent \in Seq(Cell)
        /\ Current \in Record
    BY <2>1, CurrentType DEF HasCurrent, DivedataType, FilesType
  <2>3. Holds(sent, Front(transferred))
    BY <2>1 DEF SentWhole
  <2>4. transferred = Append(Front(transferred), Current)
    BY <2>2, FrontLast DEF Current
  <2>5. Holds(sent \o Bytes(Current), Append(Front(transferred), Current))
    BY <2>2, <2>3, HoldsMore
  <2>. QED  BY <2>1, <2>4, <2>5 DEF SentWhole, Holds
<1>4. CASE EndOfLog \/ TransferFails \/ Filter \/ Downloaded
  <2>1. /\ pc \in {"foreach", "filter", "fclose"} /\ UNCHANGED <<opts, sent, transferred>>
        /\ pc' \in {"foreach", "fclose", "save", "closedevice"}
    BY <1>4 DEF EndOfLog, TransferFails, Filter, Downloaded, Goto, Fails, doparse, FreeDives
  <2>. QED  BY <2>1 DEF SentWhole, Holds
<1>5. CASE Interrupt \/ UNCHANGED vars
  <2>1. UNCHANGED <<pc, opts, sent, transferred>>
    BY <1>5 DEF Interrupt, vars
  <2>. QED  BY <2>1 DEF SentWhole, Holds
<1>6. CASE Read \/ ReplayRecord \/ ReplayEnds \/ Replay
  <2>1. ~opts.live
    BY <1>6 DEF Read, ReplayRecord, ReplayEnds, Replay, HandlesByLabel
  <2>2. UNCHANGED opts \/ opts' = NoOptions
    <3>1. CASE Read
      BY <3>1 DEF Read, Exit
    <3>2. CASE ReplayRecord
      BY <3>2 DEF ReplayRecord
    <3>3. CASE ReplayEnds
      BY <3>3 DEF ReplayEnds
    <3>4. CASE Replay
      BY <3>4 DEF Replay, Goto, Exit
    <3>. QED  BY <1>6, <3>1, <3>2, <3>3, <3>4
  <2>3. ~NoOptions.live
    BY DEF NoOptions
  <2>. QED  BY <2>1, <2>2, <2>3 DEF SentWhole
<1>7. ASSUME NEW o \in Options, Run(o) PROVE SentWhole'
  BY <1>7 DEF Run, SentWhole
<1>8. CASE Search \/ OpenStream \/ OpenDevice \/ Register
  BY <1>8 DEF Search, OpenStream, OpenDevice, Register, Goto, Exit, Fails, SentWhole
<1>9. CASE CloseDevice \/ CloseStream \/ Save \/ Return \/ Kill
  BY <1>9 DEF CloseDevice, CloseStream, Save, Return, Kill, Goto, Exit, SentWhole
<1>. QED  BY <1>1, <1>2, <1>3, <1>4, <1>5, <1>6, <1>7, <1>8, <1>9
          DEF Next, Program, Download, Replaying

-----------------------------------------------------------------------------
(* A replay: while the splitter walks over whole records it is at the      *)
(* start of one, and what was collected is what the records before it      *)
(* give; none of them calls for a stop.                                    *)

AtStart(cells, o) == o = Len(cells) \/ cells[o + 1].at = 1

Walked == Len(Begun(contents)[offset])

Walks ==
    /\ offset \in 0..Len(contents)
    /\ AtStart(contents, offset)
    /\ Gathered(Records(contents), Walked)

Selects ==
    LET selection == Parsed(Selected(Records(contents))) IN
    /\ IsPrefix(dives, selection)
    /\ ~cancel => dives = selection

Walking ==
    ~opts.live /\ pc \in {"split", "save"} =>
        /\ contents = dump
        /\ ~saving
        /\ Intact(contents) =>
              /\ pc = "split" /\ result = "running" => Walks
              /\ pc = "save" \/ result = "ok" => Selects

(* What was collected before a stop heads the selection. *)
LEMMA HeadOfSelection ==
    ASSUME TypeOK, NEW rs \in Seq(Record), NEW n \in 0..Len(rs),
           \A i \in 1..n : ~Rejected(rs, i)
    PROVE  IsPrefix(ParsedHead(rs, n), Parsed(Selected(rs)))
<1>. DEFINE over == {i \in 1..Len(rs) : \/ opts.limit > 0 /\ i > opts.limit
                                        \/ Old(rs[i])}
            m == IF over = {} THEN Len(rs) ELSE Min(over) - 1
            head == ParsedHead(rs, n)
            all == Parsed(Selected(rs))
<1>1. Len(rs) \in Nat /\ n \in Nat /\ n <= Len(rs)
  OBVIOUS
<1>2. m \in n..Len(rs)
  <2>1. CASE over = {}
    BY <1>1, <2>1
  <2>2. CASE over # {}
    <3>1. \A j \in over : j \in Nat /\ j > n /\ j <= Len(rs)
      BY <1>1 DEF Rejected
    <3>. HIDE DEF over
    <3>2. over \in SUBSET Nat
      BY <3>1
    <3>3. PICK j \in over : \A k \in over : j <= k
      BY <2>2, <3>2, LeastNat
    <3>4. Min(over) \in over
      BY <3>3 DEF Min
    <3>. QED  BY <1>1, <2>2, <3>1, <3>4
  <2>. QED  BY <2>1, <2>2
<1>3. Selected(rs) = SubSeq(rs, 1, m)
  BY DEF Selected
<1>. HIDE DEF m
<1>4. /\ SubSeq(rs, 1, m) \in Seq(Record) /\ Len(SubSeq(rs, 1, m)) = m
      /\ \A i \in 1..m : SubSeq(rs, 1, m)[i] = rs[i]
  BY <1>1, <1>2
<1>5. /\ all \in Seq(Dive) /\ Len(all) = m
      /\ \A i \in 1..m : all[i] = Parse(rs[i])
  <2>1. \A i \in 1..m : i \in 1..Len(rs) /\ Parse(rs[i]) \in Dive
    BY <1>1, <1>2, ParseType
  <2>2. all = [i \in 1..m |-> Parse(rs[i])]
    BY <1>1, <1>2, <1>3, <1>4 DEF Parsed
  <2>. QED  BY <1>1, <1>2, <2>1, <2>2
<1>6. /\ head \in Seq(Dive) /\ Len(head) = n
      /\ \A i \in 1..n : head[i] = Parse(rs[i])
  BY <1>1, ParseType DEF ParsedHead
<1>. HIDE DEF all, head
<1>7. \A i \in 1..n : head[i] = all[i]
  BY <1>1, <1>2, <1>5, <1>6
<1>8. SubSeq(head, 1, n) = SubSeq(all, 1, n)
  BY <1>1, <1>2, <1>5, <1>6, <1>7
<1>. QED  BY <1>1, <1>2, <1>5, <1>6, <1>8 DEF IsPrefix, head, all

(* The record the splitter is at. *)
LEMMA NextRecord ==
    ASSUME TypeOK, Intact(contents), offset \in 0..(Len(contents) - 1),
           AtStart(contents, offset)
    PROVE  LET r == contents[offset + 1].rec
               rs == Records(contents)
           IN
           /\ r \in Record /\ Replayed = {r} /\ S!Header = r.size
           /\ rs \in Seq(Record) /\ Walked \in 0..(Len(rs) - 1) /\ rs[Walked + 1] = r
           /\ offset + r.size \in 0..Len(contents)
           /\ AtStart(contents, offset + r.size)
           /\ Len(Begun(contents)[offset + r.size]) = Walked + 1
<1>. DEFINE r == contents[offset + 1].rec
            rs == Records(contents)
            s == Begun(contents)[offset]
            t == Begun(contents)[offset + r.size]
<1>1. contents \in Seq(Cell) /\ Len(contents) \in Nat /\ offset \in Nat
  BY DEF TypeOK, SplitterType
<1>2. contents[offset + 1].at = 1
  BY <1>1 DEF AtStart
<1>3. /\ r \in Record /\ offset + r.size <= Len(contents)
      /\ \A j \in 1..r.size : contents[offset + j] = [rec |-> r, at |-> j]
      /\ AtStart(contents, offset + r.size)
  BY <1>1, <1>2, IntactRecord DEF AtStart
<1>4. r.size \in Nat /\ r.size > 1
  BY <1>3, RecordSize
<1>5. HeaderViews(contents)[offset + 1] = r.size /\ Found(contents, offset + 1, r, r.size)
  BY <1>1, <1>2, IntactHeader
<1>6. Replayed = {r} /\ S!Header = r.size
  BY <1>5 DEF Replayed, S!Header, Buffer
<1>7. t = Append(s, r)
  <2>1. \A j \in 2..r.size : contents[offset + j].at # 1
    <3> SUFFICES ASSUME NEW j \in 2..r.size PROVE contents[offset + j].at # 1
      OBVIOUS
    <3>1. j \in 1..r.size /\ j # 1
      BY <1>4
    <3>2. contents[offset + j] = [rec |-> r, at |-> j]
      BY <1>3, <3>1
    <3>. QED  BY <3>1, <3>2
  <2>2. r.size \in Nat \ {0} /\ offset + r.size <= Len(contents)
    BY <1>3, <1>4
  <2>. QED  BY <1>1, <1>2, <2>1, <2>2, BegunRecord
<1>8. offset \in 0..Len(contents) /\ offset + r.size \in 0..Len(contents)
  BY <1>1, <1>3, <1>4
<1>9. s \in Seq(Record) /\ t \in Seq(Record) /\ rs \in Seq(Record)
  BY <1>1, <1>8, RecordsType
<1>10. Len(t) <= Len(rs) /\ \A i \in 1..Len(t) : t[i] = rs[i]
  BY <1>1, <1>8, BegunGrows
<1>. HIDE DEF r, rs, s, t
<1>11. Len(t) = Len(s) + 1 /\ t[Len(s) + 1] = r /\ Len(s) \in Nat /\ Len(rs) \in Nat
  BY <1>3, <1>7, <1>9
<1>12. Len(s) \in 0..(Len(rs) - 1) /\ rs[Len(s) + 1] = r
  BY <1>10, <1>11
<1>. QED  BY <1>3, <1>6, <1>8, <1>9, <1>11, <1>12 DEF Walked, r, rs, s, t

LEMMA StopsRejected ==
    ASSUME TypeOK, NEW rs \in Seq(Record), NEW n \in 0..(Len(rs) - 1), collected = n
    PROVE  Stops(rs[n + 1]) <=> Rejected(rs, n + 1)
<1>1. opts.limit \in Nat
  BY OptionsAssumption DEF TypeOK, ProgramType, NoOptions, Option
<1>2. LimitReached <=> opts.limit > 0 /\ n + 1 > opts.limit
  BY <1>1 DEF LimitReached
<1>. QED  BY <1>2 DEF Stops, Rejected

(* The records stay what they are while a replay goes on. *)
LEMMA SameReplay ==
    ASSUME UNCHANGED <<contents, opts, drift>>
    PROVE  LET rs == Records(contents) IN
           /\ Intact(contents)' = Intact(contents)
           /\ \A n : ParsedHead(rs, n)' = ParsedHead(rs, n)
           /\ \A i : Rejected(rs, i)' = Rejected(rs, i)
           /\ Parsed(Selected(rs))' = Parsed(Selected(rs))
<1>. DEFINE rs == Records(contents)
<1>1. rs' = rs /\ Intact(contents)' = Intact(contents)
  OBVIOUS
<1>2. \A n : ParsedHead(rs, n)' = ParsedHead(rs, n)
  BY <1>1 DEF ParsedHead, Parse, Date
<1>3. \A i : Rejected(rs, i)' = Rejected(rs, i)
  BY <1>1 DEF Rejected, Old, Date
<1>4. Parsed(Selected(rs))' = Parsed(Selected(rs))
  BY <1>1 DEF Parsed, Parse, Selected, Old, Date
<1>. QED  BY <1>1, <1>2, <1>3, <1>4

LEMMA ReadWalks ==
    ASSUME TypeOK, Walking, Read
    PROVE  Walking'
<1>. USE DEF handles, divedata, disk
<1>1. CASE pc' = "idle"
  BY <1>1 DEF Walking
<1>2. CASE pc' # "idle"
  <2>1. /\ contents' = dump /\ dump' = dump /\ saving' = FALSE /\ pc' = "split"
        /\ offset' = 0 /\ result' = "running" /\ dives' = <<>> /\ collected' = 0
    BY <1>2 DEF Read, Exit, NoDives
  <2>2. dump \in Seq(Cell) /\ Len(dump) \in Nat
    BY DEF TypeOK, FilesType
  <2>3. Begun(dump)[0] = <<>> /\ Len(<<>>) = 0
    BY <2>2, BegunIs
  <2>4. Walked' = 0
    BY <2>1, <2>3 DEF Walked
  <2>5. Gathered(Records(contents), Walked)'
    <3>1. ParsedHead(Records(contents), 0)' = <<>>
      BY DEF ParsedHead
    <3>. QED  BY <2>1, <2>4, <3>1 DEF Gathered
  <2>6. ASSUME Intact(dump) PROVE AtStart(dump, 0)
    <3>1. CASE Len(dump) = 0
      BY <3>1 DEF AtStart
    <3>2. CASE Len(dump) # 0
      <4>1. 1 \in 1..Len(dump)
        BY <2>2, <3>2
      <4>2. dump[1].at = 1 \/ 1 > 1
        BY <2>6, <4>1, Zenon DEF Intact
      <4>. QED  BY <4>2 DEF AtStart
    <3>. QED  BY <3>1, <3>2
  <2>7. Intact(contents)' => Walks'
    <3>1. 0 \in 0..Len(dump)
      BY <2>2
    <3>. QED  BY <2>1, <2>5, <2>6, <3>1 DEF Walks
  <2>. QED  BY <2>1, <2>7 DEF Walking
<1>. QED  BY <1>1, <1>2

LEMMA RecordWalks ==
    ASSUME TypeOK, HandlesByLabel, Walking, ReplayRecord
    PROVE  Walking'
<1>. USE DEF handles, divedata, disk, signals, history
<1>. DEFINE rs == Records(contents)
            r == contents[offset + 1].rec
            n == Walked
<1>1. /\ pc = "split" /\ ~opts.live
      /\ UNCHANGED <<contents, dump, saving, pc, opts, drift, cancel>>
  BY DEF ReplayRecord, HandlesByLabel
<1>2. contents = dump /\ ~saving
  BY <1>1 DEF Walking
<1>3. ASSUME Intact(contents)
      PROVE  /\ result' = "running" => Walks'
             /\ result' = "ok" => Selects'
  <2>1. PICK more \in BOOLEAN : /\ S!Visit(more)
                                /\ cancel => ~more /\ UNCHANGED divedata
                                /\ ~cancel => \E q \in Replayed :
                                     /\ more = ~Stops(q)
                                     /\ IF more THEN doparse(q)
                                        ELSE UNCHANGED <<dives, collected>>
    BY DEF ReplayRecord
  <2>2. result = "running" /\ offset < Len(Buffer)
    BY <2>1 DEF S!Visit
  <2>3. Walks
    BY <1>1, <1>3, <2>2 DEF Walking
  <2>4. offset \in 0..(Len(contents) - 1)
    BY <2>2, <2>3, BufferType DEF Walks
  <2>5. /\ r \in Record /\ Replayed = {r} /\ S!Header = r.size
        /\ rs \in Seq(Record) /\ n \in 0..(Len(rs) - 1) /\ rs[n + 1] = r
        /\ offset + r.size \in 0..Len(contents)
        /\ AtStart(contents, offset + r.size)
        /\ Len(Begun(contents)[offset + r.size]) = n + 1
    BY <1>3, <2>3, <2>4, NextRecord DEF Walks
  <2>6. /\ collected = n /\ dives = ParsedHead(rs, n)
        /\ \A i \in 1..n : ~Rejected(rs, i)
    BY <2>3 DEF Walks, Gathered
  <2>7. Stops(r) <=> Rejected(rs, n + 1)
    BY <2>5, <2>6, StopsRejected
  <2>8. /\ Len(rs) \in Nat /\ n \in Nat /\ n \in 0..Len(rs) /\ n + 1 \in 1..Len(rs)
    BY <2>5
  <2>. HIDE DEF rs, r, n
  <2>9. CASE more
    <3>1. offset' = offset + r.size /\ result' = "running" /\ doparse(r) /\ ~Stops(r)
      BY <2>1, <2>2, <2>5, <2>9 DEF S!Visit
    <3>2. Walked' = n + 1
      BY <1>1, <2>5, <3>1 DEF Walked
    <3>3. dives' = Append(ParsedHead(rs, n), Parse(r)) /\ collected' = n + 1
      BY <2>6, <3>1 DEF doparse
    <3>4. dives' = ParsedHead(rs, n + 1)
      BY <2>5, <2>8, <3>3 DEF ParsedHead
    <3>5. \A i \in 1..(n + 1) : ~Rejected(rs, i)
      BY <2>6, <2>7, <2>8, <3>1
    <3>6. PICK k : k = n + 1
      OBVIOUS
    <3>7. /\ ParsedHead(Records(contents), k)' = ParsedHead(rs, k)
          /\ \A i : Rejected(Records(contents), i)' = Rejected(rs, i)
      BY <1>1, SameReplay DEF rs
    <3>8. Gathered(Records(contents), Walked)'
      BY <3>2, <3>3, <3>4, <3>5, <3>6, <3>7 DEF Gathered
    <3>. QED  BY <1>1, <2>5, <3>1, <3>8 DEF Walks
  <2>10. CASE ~more
    <3>1. result' = "ok" /\ UNCHANGED dives
      BY <2>1, <2>10 DEF S!Visit
    <3>2. Parsed(Selected(Records(contents)))' = Parsed(Selected(rs))
      BY <1>1, SameReplay DEF rs
    <3>3. IsPrefix(dives, Parsed(Selected(rs)))
      BY <2>5, <2>6, <2>8, HeadOfSelection
    <3>4. ASSUME ~cancel PROVE dives = Parsed(Selected(rs))
      <4>1. Stops(r)
        BY <2>1, <2>5, <2>10, <3>4
      <4>. QED  BY <2>5, <2>6, <2>7, <2>8, <4>1, StopSelects
    <3>. QED  BY <1>1, <3>1, <3>2, <3>3, <3>4 DEF Selects
  <2>. QED  BY <2>9, <2>10
<1>4. Intact(contents)' = Intact(contents)
  BY <1>1
<1>. QED  BY <1>1, <1>2, <1>3, <1>4 DEF Walking

LEMMA EndWalks ==
    ASSUME TypeOK, HandlesByLabel, Walking, ReplayEnds
    PROVE  Walking'
<1>. USE DEF handles, divedata, disk, signals, history
<1>. DEFINE rs == Records(contents)
<1>1. /\ pc = "split" /\ ~opts.live
      /\ UNCHANGED <<contents, dump, saving, pc, opts, drift, cancel, dives>>
      /\ S!Finish \/ S!Reject
  BY DEF ReplayEnds, HandlesByLabel
<1>2. contents = dump /\ ~saving
  BY <1>1 DEF Walking
<1>3. CASE S!Reject
  <2>1. result' \notin {"running", "ok"}
    BY <1>3 DEF S!Reject, S!RejectEmpty, S!RejectMagic, S!RejectLength, S!Fail
  <2>. QED  BY <1>1, <1>2, <2>1 DEF Walking
<1>4. CASE S!Finish
  <2>1. result = "running" /\ result' = "ok" /\ offset >= Len(Buffer)
    BY <1>4 DEF S!Finish
  <2>2. ASSUME Intact(contents) PROVE Selects'
    <3>1. Walks
      BY <1>1, <2>1, <2>2 DEF Walking
    <3>2. offset = Len(contents) /\ contents \in Seq(Cell) /\ Len(contents) \in Nat
      BY <2>1, <3>1, BufferType DEF Walks, TypeOK, SplitterType
    <3>3. Walked = Len(rs)
      BY <3>2 DEF Walked, Records
    <3>4. /\ rs \in Seq(Record) /\ Len(rs) \in 0..Len(rs)
      BY <3>2, RecordsType
    <3>5. dives = ParsedHead(rs, Len(rs)) /\ \A i \in 1..Len(rs) : ~Rejected(rs, i)
      BY <3>1, <3>3 DEF Walks, Gathered
    <3>. HIDE DEF rs
    <3>6. dives = Parsed(Selected(rs)) /\ IsPrefix(dives, Parsed(Selected(rs)))
      BY <3>4, <3>5, StopSelects, HeadOfSelection
    <3>7. Parsed(Selected(Records(contents)))' = Parsed(Selected(rs))
      BY <1>1, SameReplay DEF rs
    <3>. QED  BY <1>1, <3>6, <3>7 DEF Selects
  <2>3. Intact(contents)' = Intact(contents)
    BY <1>1
  <2>. QED  BY <1>1, <1>2, <2>1, <2>2, <2>3 DEF Walking
<1>. QED  BY <1>1, <1>3, <1>4

LEMMA WalkingNext ==
    ASSUME TypeOK, HandlesByLabel, Walking, [Next]_vars
    PROVE  Walking'
<1>. USE DEF handles, process, disk, divedata, history, signals, splitter
<1>1. CASE Read
  BY <1>1, ReadWalks
<1>2. CASE ReplayRecord
  BY <1>2, RecordWalks
<1>3. CASE ReplayEnds
  BY <1>3, EndWalks
<1>4. CASE Replay
  <2>1. CASE pc' = "idle"
    BY <2>1 DEF Walking
  <2>2. CASE pc' # "idle"
    <3>1. /\ S!ReturnValue >= 0 /\ pc = "split" /\ pc' = "save" /\ result # "running"
          /\ UNCHANGED <<contents, dump, saving, opts, drift, cancel, dives>>
      <4>1. /\ pc = "split" /\ result # "running" /\ ~(S!ReturnValue < 0)
            /\ UNCHANGED divedata /\ Goto("save") /\ UNCHANGED <<drift, disk, history>>
        BY <1>4, <2>2 DEF Replay, Exit
      <4>2. S!ReturnValue \in Int
        BY DEF S!ReturnValue, TypeOK, SplitterType
      <4>. QED  BY <4>1, <4>2 DEF Goto
    <3>2. result = "ok"
      BY <3>1 DEF S!ReturnValue, TypeOK, SplitterType, S!Results
    <3>3. ~opts.live
      BY <3>1 DEF HandlesByLabel
    <3>4. ASSUME Intact(contents) PROVE Selects'
      <4>1. Selects
        BY <3>1, <3>2, <3>3, <3>4 DEF Walking
      <4>. QED  BY <3>1, <4>1, SameReplay DEF Selects
    <3>5. Intact(contents)' = Intact(contents)
      BY <3>1
    <3>. QED  BY <3>1, <3>3, <3>4, <3>5 DEF Walking
  <2>. QED  BY <2>1, <2>2
<1>5. CASE Interrupt \/ UNCHANGED vars
  <2>1. /\ UNCHANGED <<contents, dump, saving, pc, opts, drift, dives, offset, result, collected>>
        /\ cancel' = cancel \/ cancel'
    BY <1>5 DEF Interrupt, vars
  <2>2. Intact(contents)' = Intact(contents) /\ Walked' = Walked
    BY <2>1 DEF Walked
  <2>3. Walks => Walks'
    <3>1. ASSUME Gathered(Records(contents), Walked)
          PROVE  Gathered(Records(contents), Walked)'
      BY <2>1, <2>2, <3>1, SameReplay DEF Gathered
    <3>. QED  BY <2>1, <3>1 DEF Walks
  <2>4. Selects => Selects'
    BY <2>1, SameReplay DEF Selects
  <2>. QED  BY <2>1, <2>2, <2>3, <2>4 DEF Walking
<1>6. CASE Downloaded
  <2>1. opts'.live
    BY <1>6 DEF Downloaded, Goto, HandlesByLabel, Connected
  <2>. QED  BY <2>1 DEF Walking
<1>7. CASE ~(Read \/ ReplayRecord \/ ReplayEnds \/ Replay \/ Interrupt \/ UNCHANGED vars
             \/ Downloaded)
  <2>1. pc' \notin {"split", "save"}
    <3>1. (\E o \in Options : Run(o)) \/ Search \/ OpenStream \/ OpenDevice \/ Register
              => pc' \notin {"split", "save"}
      BY DEF Run, Search, OpenStream, OpenDevice, Register, Goto, Exit, Fails
    <3>2. Begin \/ Transfer \/ EndOfLog \/ TransferFails \/ Write \/ Filter
              => pc' \notin {"split", "save"}
      BY DEF Begin, Transfer, EndOfLog, TransferFails, Write, Filter, Goto, Fails
    <3>3. CloseDevice \/ CloseStream \/ Save \/ Return \/ Kill => pc' \notin {"split", "save"}
      BY DEF CloseDevice, CloseStream, Save, Return, Kill, Goto, Exit
    <3>. QED  BY <1>7, <3>1, <3>2, <3>3 DEF Next, Program, Download, Replaying
  <2>. QED  BY <2>1 DEF Walking
<1>. QED  BY <1>1, <1>2, <1>3, <1>4, <1>5, <1>6, <1>7

-----------------------------------------------------------------------------
(* How far a run has got: a run past its save knows what became of it.     *)

Progress ==
    /\ pc \in {"closedevice", "closestream"} /\ rc = "ok" => saved # "no"
    /\ pc = "replayed" => saved # "no"
    /\ pc \notin {"idle", "closedevice", "closestream", "replayed"} => saved = "no"

LEMMA ProgressNext ==
    ASSUME Progress, [Next]_vars
    PROVE  Progress'
<1>. USE DEF history, Goto, Exit, Fails, Progress
<1>1. ASSUME NEW o \in Options, Run(o) PROVE Progress'
  BY <1>1 DEF Run
<1>2. CASE Search \/ OpenStream \/ OpenDevice \/ Register
  BY <1>2 DEF Search, OpenStream, OpenDevice, Register
<1>3. CASE Begin
  BY <1>3 DEF Begin
<1>4. CASE Transfer \/ EndOfLog \/ TransferFails
  BY <1>4 DEF Transfer, EndOfLog, TransferFails
<1>5. CASE Write
  BY <1>5 DEF Write
<1>6. CASE Filter \/ Downloaded
  BY <1>6 DEF Filter, Downloaded
<1>7. CASE CloseDevice \/ CloseStream
  BY <1>7 DEF CloseDevice, CloseStream
<1>8. CASE Save
  BY <1>8 DEF Save
<1>9. CASE Read
  BY <1>9 DEF Read
<1>10. CASE ReplayRecord
  <2>1. UNCHANGED <<pc, rc, saved>>
    BY <1>10 DEF ReplayRecord
  <2>. QED  BY <2>1
<1>11. CASE ReplayEnds
  <2>1. UNCHANGED <<pc, rc, saved>>
    BY <1>11 DEF ReplayEnds
  <2>. QED  BY <2>1
<1>12. CASE Replay \/ Return
  BY <1>12 DEF Replay, Return
<1>13. CASE Kill \/ Interrupt
  BY <1>13 DEF Kill, Interrupt
<1>14. CASE UNCHANGED vars
  BY <1>14 DEF vars
<1>. QED  BY <1>1, <1>2, <1>3, <1>4, <1>5, <1>6, <1>7, <1>8, <1>9, <1>10, <1>11, <1>12,
             <1>13, <1>14
          DEF Next, Program, Download, Replaying

-----------------------------------------------------------------------------
(* The invariant and what it implies. *)

ReplayInvariant == Invariant /\ SentWhole /\ Walking /\ Progress

(* The inductive invariant of the runs with what their files hold: what a  *)
(* download has sent is whole records (dc2uddf.c:527-541), and a replay    *)
(* that walks over them has collected what the options select so far.      *)
THEOREM RecordsInvariant == Spec => []ReplayInvariant
<1>1. Init => ReplayInvariant
  <2>1. Init => SentWhole /\ Walking /\ Progress
    BY DEF Init, SentWhole, Walking, Progress
  <2>. QED  BY <2>1, InitInvariant DEF ReplayInvariant
<1>2. ReplayInvariant /\ [Next]_vars => ReplayInvariant'
  <2> SUFFICES ASSUME ReplayInvariant, [Next]_vars PROVE ReplayInvariant'
    OBVIOUS
  <2>1. Invariant'
    BY TypeNext, HasCurrentNext, HandlesNext, DumpNext, GatheringNext
       DEF ReplayInvariant, Invariant
  <2>2. SentWhole' /\ Walking' /\ Progress'
    BY SentWholeNext, WalkingNext, ProgressNext DEF ReplayInvariant, Invariant
  <2>. QED  BY <2>1, <2>2 DEF ReplayInvariant
<1>. QED  BY <1>1, <1>2, PTL DEF Spec

(* Until the dump is given up it holds every record given to dive_cb, the  *)
(* rejected ones too, whole and in order (dc2uddf.c:529-541).              *)
THEOREM DumpWhole == Spec => []DumpHoldsAll
<1>1. ReplayInvariant => DumpHoldsAll
  <2> SUFFICES ASSUME ReplayInvariant, dumpFile, ~lost, pc # "write"
               PROVE  Records(dump) = transferred /\ Intact(dump)
    BY DEF DumpHoldsAll
  <2>1. saving /\ dump = sent
    BY DEF ReplayInvariant, Invariant, HandlesByLabel, DumpIsPrefix
  <2>2. pc \in {"foreach", "filter", "fclose"} /\ opts.live
    BY DEF ReplayInvariant, Invariant, HandlesByLabel, Connected
  <2>. QED  BY <2>1, <2>2 DEF ReplayInvariant, SentWhole, Holds
<1>. QED  BY <1>1, RecordsInvariant, PTL

(* Replaying the dump of a download (doreplay) saves the dives that the    *)
(* download is about to save, if the clock needed no correction.           *)
THEOREM Reproduces == Spec => []ReplayReproduces
<1>1. ReplayInvariant => ReplayReproduces
  <2> SUFFICES ASSUME ReplayInvariant, pc = "save", saving, dump = sent
               PROVE  /\ dump # <<>> => IsDump(dump)
                      /\ Parsed(Selected(Records(dump))) = dives
    BY DEF ReplayReproduces
  <2>1. opts.live
    BY DEF ReplayInvariant, Walking
  <2>2. Records(dump) = transferred /\ Intact(dump)
    BY <2>1 DEF ReplayInvariant, SentWhole, Holds
  <2>3. dives = Parsed(Selected(transferred))
    BY <2>1 DEF ReplayInvariant, Invariant, Gathering
  <2>4. dump \in Seq(Cell)
    BY DEF ReplayInvariant, Invariant, TypeOK, FilesType
  <2>. QED  BY <2>2, <2>3, <2>4, IntactIsDump
<1>. QED  BY <1>1, RecordsInvariant, PTL

(* A replay of whole records is about to save what the options select of   *)
(* them, or what comes first in it if interrupted (replay_record_cb).      *)
THEOREM ReplaySelection == Spec => []ReplaySelects
<1>1. ReplayInvariant => ReplaySelects
  BY DEF ReplayInvariant, Walking, Selects, ReplaySelects
<1>. QED  BY <1>1, RecordsInvariant, PTL

-----------------------------------------------------------------------------
(* The runs implement Logbook. *)

LEMMA LogbookInit == Init => LB!Init
BY DEF Init, LB!Init, Absent, LB!Absent

(* What a run was asked for does not change under way. *)
Asked == Parsed(Selected(IF opts.live THEN log ELSE Records(dump)))

LEMMA SameJob ==
    ASSUME UNCHANGED <<log, drift, opts>>, opts.live \/ UNCHANGED dump
    PROVE  /\ Asked' = Asked
           /\ (opts.live \/ Intact(dump))' = (opts.live \/ Intact(dump))
<1>. DEFINE source == IF opts.live THEN log ELSE Records(dump)
<1>1. source' = source
  <2>1. CASE opts.live
    BY <2>1
  <2>2. CASE ~opts.live
    BY <2>2
  <2>. QED  BY <2>1, <2>2
<1>. HIDE DEF source
<1>2. Parsed(Selected(source))' = Parsed(Selected(source))
  BY <1>1 DEF Parsed, Parse, Selected, Old, Date
<1>3. (opts.live \/ Intact(dump))' = (opts.live \/ Intact(dump))
  OBVIOUS
<1>. QED  BY <1>2, <1>3 DEF Asked, source

(* Steps that end a run, and steps that Logbook does not see. *)
LEMMA LogbookExit ==
    ASSUME Progress, pc # "idle", UNCHANGED output,
           NEW status \in {"success", "failure", "killed"}, Exit(status),
           status = "success" => saved # "no"
    PROVE  LB!End
BY DEF Exit, LB!End

LEMMA LogbookSame ==
    ASSUME UNCHANGED <<log, drift, opts, cancel, output, saved, exit>>,
           opts.live \/ UNCHANGED dump, pc # "idle", pc' # "idle"
    PROVE  UNCHANGED LB!vars
<1>1. Asked' = Asked /\ (opts.live \/ Intact(dump))' = (opts.live \/ Intact(dump))
  BY SameJob
<1>. QED  BY <1>1 DEF LB!vars, Asked

(* Saving publishes the dives that were asked for, or spoils the file. *)
LEMMA LogbookSave ==
    ASSUME ReplayInvariant, Save
    PROVE  LB!Publish \/ LB!Spoil
<1>. USE DEF ReplayInvariant, Invariant
<1>1. /\ pc = "save" /\ pc' \in {"closedevice", "replayed"} /\ saved = "no" /\ saved' # "no"
      /\ UNCHANGED <<log, drift, opts, cancel, dump, exit>>
  BY DEF Save, Goto, process, signals, Progress
<1>2. Asked' = Asked /\ (opts.live \/ Intact(dump))' = (opts.live \/ Intact(dump))
  BY <1>1, SameJob
<1>. DEFINE run == IF pc = "idle" THEN "none" ELSE IF saved = "no" THEN "open" ELSE "done"
            job == [dives |-> Asked, sound |-> opts.live \/ Intact(dump),
                    cut |-> ~opts.live /\ cancel]
<1>3. run = "open" /\ run' = "done" /\ UNCHANGED <<job, exit>>
  BY <1>1, <1>2
<1>4. CASE output' = Written(dives)
  <2>1. output'.state = "written" /\ output'.dives = dives
    BY <1>4 DEF Written
  <2>2. dives \in Seq(Dive)
    BY DEF TypeOK, DivedataType
  <2>3. ASSUME opts.live \/ Intact(dump)
        PROVE  IsPrefix(dives, Asked) /\ (~(~opts.live /\ cancel) => dives = Asked)
    <3>1. CASE opts.live
      <4>1. dives = Asked
        BY <1>1, <3>1 DEF Gathering, Asked
      <4>. QED  BY <2>2, <4>1 DEF IsPrefix
    <3>2. CASE ~opts.live
      <4>1. contents = dump /\ Selects
        BY <1>1, <2>3, <3>2 DEF Walking
      <4>. QED  BY <3>2, <4>1 DEF Selects, Asked
    <3>. QED  BY <3>1, <3>2
  <2>4. LB!Fulfils(dives)
    <3> SUFFICES ASSUME job.sound
                 PROVE  /\ Len(dives) <= Len(job.dives)
                        /\ dives = SubSeq(job.dives, 1, Len(dives))
                        /\ ~job.cut => dives = job.dives
      BY DEF LB!Fulfils, Asked
    <3>1. IsPrefix(dives, Asked) /\ (~(~opts.live /\ cancel) => dives = Asked)
      BY <2>3
    <3>2. dives = SubSeq(dives, 1, Len(dives))
      BY <2>2
    <3>. QED  BY <3>1, <3>2 DEF IsPrefix
  <2>. QED  BY <1>3, <2>1, <2>4 DEF LB!Publish, Asked
<1>5. CASE output' \in {output, Torn}
  BY <1>3, <1>5 DEF LB!Spoil, Torn, LB!Torn, Asked
<1>. QED  BY <1>4, <1>5 DEF Save

(* The death of the process may spoil only a file that is being saved. *)
LEMMA LogbookKill ==
    ASSUME ReplayInvariant, Kill
    PROVE  LB!Spoil \/ LB!End
<1>1. pc # "idle" /\ pc' = "idle" /\ exit' = "killed"
  BY DEF Kill, Exit
<1>2. CASE pc = "save"
  <2>1. saved = "no" /\ output' \in {output, Torn}
    BY <1>2 DEF Kill, ReplayInvariant, Progress
  <2>. QED  BY <1>1, <1>2, <2>1 DEF LB!Spoil, Torn, LB!Torn
<1>3. CASE pc # "save"
  <2>1. output' = output
    BY <1>3 DEF Kill
  <2>. QED  BY <1>1, <2>1 DEF LB!End
<1>. QED  BY <1>2, <1>3

LEMMA CutJob ==
    ASSUME NEW a, NEW b \in BOOLEAN, NEW c \in BOOLEAN, NEW d
    PROVE  [[dives |-> a, sound |-> b, cut |-> c] EXCEPT !.cut = d]
              = [dives |-> a, sound |-> b, cut |-> d]
OBVIOUS

(* SIGINT cuts the job of a replay short. *)
LEMMA LogbookInterrupt ==
    ASSUME Interrupt
    PROVE  LB!Cut \/ UNCHANGED LB!vars
<1>. USE DEF disk, divedata, handles, history, splitter
<1>1. /\ pc # "idle" /\ UNCHANGED <<pc, saved, output, exit, log, drift, opts, dump>>
      /\ cancel' = TRUE
  BY DEF Interrupt
<1>2. Asked' = Asked /\ (opts.live \/ Intact(dump))' = (opts.live \/ Intact(dump))
  BY <1>1, SameJob
<1>3. CASE opts.live
  BY <1>1, <1>2, <1>3 DEF LB!vars, Asked
<1>4. CASE ~opts.live
  <2>. DEFINE sound == opts.live \/ Intact(dump)
              job == [dives |-> Asked, sound |-> sound, cut |-> ~opts.live /\ cancel]
              asked == Asked
  <2>1. (~opts.live /\ cancel)' = TRUE
    BY <1>1, <1>4
  <2>2. job' = [dives |-> asked, sound |-> sound, cut |-> TRUE]
    BY <1>2, <2>1, Zenon
  <2>3. job' = [job EXCEPT !.cut = TRUE]
    <3>1. sound \in BOOLEAN /\ (~opts.live /\ cancel) \in BOOLEAN
      OBVIOUS
    <3>. HIDE DEF sound, asked
    <3>2. [[dives |-> asked, sound |-> sound, cut |-> ~opts.live /\ cancel] EXCEPT !.cut = TRUE]
             = [dives |-> asked, sound |-> sound, cut |-> TRUE]
      BY <3>1, CutJob, Zenon
    <3>. QED  BY <2>2, <3>2, Zenon DEF asked
  <2>. QED  BY <1>1, <2>3, Zenon DEF LB!Cut, Asked
<1>. QED  BY <1>3, <1>4

LEMMA LogbookNext ==
    ASSUME ReplayInvariant, [Next]_vars
    PROVE  [LB!Next]_(LB!vars)
<1>. USE DEF handles, process, disk, divedata, history, signals, splitter
<1>0. Progress /\ HandlesByLabel
  BY DEF ReplayInvariant, Invariant
<1>. DEFINE Same == /\ UNCHANGED <<log, drift, opts, cancel, output, saved, exit>>
                    /\ opts.live \/ UNCHANGED dump
                    /\ pc # "idle" /\ pc' # "idle"
            Ends == \E status \in {"success", "failure", "killed"} :
                       Exit(status) /\ (status = "success" => saved # "no")
            Quiet == UNCHANGED <<log, drift, output, saved, dump>>
<1>1. ASSUME NEW o \in Options, Run(o) PROVE LB!Begin
  BY <1>1 DEF Run, LB!Begin
<1>2. CASE Save
  BY <1>2, LogbookSave DEF LB!Next
<1>3. CASE Kill
  BY <1>3, LogbookKill DEF LB!Next
<1>4. CASE Interrupt
  BY <1>4, LogbookInterrupt DEF LB!Next
<1>5. CASE Search \/ OpenStream \/ Return \/ CloseStream
  <2>1. UNCHANGED output /\ pc # "idle" /\ (Same \/ Ends)
    <3>1. CASE Search
      BY <3>1 DEF Search, Goto
    <3>2. CASE OpenStream
      BY <3>2 DEF OpenStream, Goto
    <3>3. CASE Return
      BY <1>0, <3>3 DEF Return, Progress
    <3>4. CASE CloseStream
      BY <1>0, <3>4 DEF CloseStream, Progress
    <3>. QED  BY <1>5, <3>1, <3>2, <3>3, <3>4
  <2>2. CASE Same
    BY <2>2, LogbookSame
  <2>3. CASE Ends
    BY <1>0, <2>1, <2>3, LogbookExit DEF LB!Next
  <2>. QED  BY <2>1, <2>2, <2>3
<1>6. CASE OpenDevice \/ Register \/ Begin \/ Transfer \/ EndOfLog \/ TransferFails
  <2>1. Same
    BY <1>0, <1>6 DEF OpenDevice, Register, Begin, Transfer, EndOfLog, TransferFails, Goto,
       Fails, HandlesByLabel, Connected
  <2>. QED  BY <2>1, LogbookSame
<1>7. CASE Write \/ Filter \/ Downloaded \/ CloseDevice
  <2>1. Same
    BY <1>0, <1>7 DEF Write, Filter, Downloaded, CloseDevice, Goto, HandlesByLabel, Connected
  <2>. QED  BY <2>1, LogbookSame
<1>8. CASE Read \/ Replay
  <2>1. UNCHANGED output /\ pc # "idle" /\ (Same \/ Ends)
    <3>1. CASE Read
      BY <3>1 DEF Read
    <3>2. CASE Replay
      BY <3>2 DEF Replay, Goto
    <3>. QED  BY <1>8, <3>1, <3>2
  <2>2. CASE Same
    BY <2>2, LogbookSame
  <2>3. CASE Ends
    BY <1>0, <2>1, <2>3, LogbookExit DEF LB!Next
  <2>. QED  BY <2>1, <2>2, <2>3
<1>9. CASE ReplayRecord \/ ReplayEnds
  <2>1. Same
    <3>1. CASE ReplayRecord
      BY <3>1 DEF ReplayRecord
    <3>2. CASE ReplayEnds
      BY <3>2 DEF ReplayEnds
    <3>. QED  BY <1>9, <3>1, <3>2
  <2>. QED  BY <2>1, LogbookSame
<1>10. CASE UNCHANGED vars
  <2>1. UNCHANGED <<pc, log, drift, opts, cancel, output, saved, exit, dump>>
    BY <1>10 DEF vars
  <2>2. Asked' = Asked /\ (opts.live \/ Intact(dump))' = (opts.live \/ Intact(dump))
    BY <2>1, SameJob
  <2>. QED  BY <2>1, <2>2 DEF LB!vars, Asked
<1>. QED  BY <1>1, <1>2, <1>3, <1>4, <1>5, <1>6, <1>7, <1>8, <1>9, <1>10
          DEF LB!Next, Next, Program, Download, Replaying

(* The runs implement Logbook: the UDDF file changes at most once in a run,*)
(* when it publishes what was asked for; only a save that fails or dies    *)
(* spoils it, and only a run past its save reports success.                *)
THEOREM Implements == Spec => KeepsLogbook
<1>1. ReplayInvariant /\ [Next]_vars => [LB!Next]_(LB!vars)
  BY LogbookNext
<1>. QED  BY <1>1, LogbookInit, RecordsInvariant, PTL DEF Spec, KeepsLogbook, LB!Spec

=============================================================================
