--------------------------- MODULE VbusCap_proofs ---------------------------
(***************************************************************************)
(* Theorems about VbusCap: a recording that ends anywhere, as with the        *)
(* daemon that writes it, replays as the frames whose records are whole.      *)
(***************************************************************************)
EXTENDS VbusCap, Integers, SequenceTheorems, TLAPS

Loops == INSTANCE Glob_proofs

\* What stands where in two sequences joined.
LEMMA Joined ==
  ASSUME NEW S, NEW a \in Seq(S), NEW b \in Seq(S)
  PROVE  /\ a \o b \in Seq(S) /\ Len(a \o b) = Len(a) + Len(b)
         /\ \A i \in 1..Len(a) : (a \o b)[i] = a[i]
         /\ \A i \in 1..Len(b) : (a \o b)[Len(a) + i] = b[i]
<1>1. Len(a) \in Nat /\ Len(b) \in Nat
  BY LenProperties
<1>2. /\ a \o b \in Seq(S) /\ Len(a \o b) = Len(a) + Len(b)
      /\ \A i \in 1..(Len(a) + Len(b)) :
             (a \o b)[i] = IF i <= Len(a) THEN a[i] ELSE b[i - Len(a)]
  BY ConcatProperties
<1>3. ASSUME NEW i \in 1..Len(a)
      PROVE  (a \o b)[i] = a[i]
  <2>1. i \in 1..(Len(a) + Len(b)) /\ i <= Len(a)
    BY <1>1
  <2> QED
    BY <1>2, <2>1
<1>4. ASSUME NEW i \in 1..Len(b)
      PROVE  (a \o b)[Len(a) + i] = b[i]
  <2>1. Len(a) + i \in 1..(Len(a) + Len(b)) /\ ~(Len(a) + i <= Len(a)) /\ (Len(a) + i) - Len(a) = i
    BY <1>1
  <2> QED
    BY <1>2, <2>1
<1> QED
  BY <1>2, <1>3, <1>4

\* The first part of a sequence.
LEMMA FirstPart ==
  ASSUME NEW S, NEW s \in Seq(S), NEW m \in 0..Len(s)
  PROVE  /\ SubSeq(s, 1, m) \in Seq(S) /\ Len(SubSeq(s, 1, m)) = m
         /\ \A i \in 1..m : SubSeq(s, 1, m)[i] = s[i]
         /\ SubSeq(s, 1, m) = [i \in 1..m |-> s[i]]
<1> DEFINE part == SubSeq(s, 1, m)
<1>1. Len(s) \in Nat /\ m \in Int /\ 1 \in Int /\ m \in Nat
  BY LenProperties
<1>2. \A i \in 1..m : s[i] \in S
  BY <1>1, ElementOfSeq
<1>3. /\ part \in Seq(S) /\ Len(part) = IF 1 <= m THEN m - 1 + 1 ELSE 0
      /\ \A i \in 1..(m - 1 + 1) : part[i] = s[1 + i - 1]
  BY <1>1, <1>2, SubSeqProperties
<1>4. (IF 1 <= m THEN m - 1 + 1 ELSE 0) = m /\ m - 1 + 1 = m /\ \A i \in 1..m : 1 + i - 1 = i
  BY <1>1
<1> HIDE DEF part
<1>5. Len(part) = m /\ \A i \in 1..m : part[i] = s[i]
  BY <1>3, <1>4
<1>6. DOMAIN part = 1..m /\ part = [i \in DOMAIN part |-> part[i]]
  BY <1>3, <1>5, LenProperties
<1>7. part = [i \in 1..m |-> s[i]]
  BY <1>5, <1>6
<1> QED
  BY <1>3, <1>5, <1>7 DEF part

-----------------------------------------------------------------------------
(* The layout of a record.                                                    *)

\* The fields of VCapRec and their sizes.
LEMMA Sizes ==
  /\ Len(Fields) = 6 /\ DOMAIN Fields = 1..6
  /\ Fields[1] = "Proto" /\ Fields[2] = "Flags" /\ Fields[3] = "Reserved"
  /\ Fields[4] = "Tag" /\ Fields[5] = "Ts_ns" /\ Fields[6] = "Len"
  /\ Size[Fields[1]] = 1 /\ Size[Fields[2]] = 1 /\ Size[Fields[3]] = 2
  /\ Size[Fields[4]] = 8 /\ Size[Fields[5]] = 8 /\ Size[Fields[6]] = 4
  /\ Size["Len"] = 4
<1>1. /\ Len(Fields) = 6 /\ DOMAIN Fields = 1..6
      /\ Fields[1] = "Proto" /\ Fields[2] = "Flags" /\ Fields[3] = "Reserved"
      /\ Fields[4] = "Tag" /\ Fields[5] = "Ts_ns" /\ Fields[6] = "Len"
  BY DEF Fields
<1>2. /\ Size["Proto"] = 1 /\ Size["Flags"] = 1 /\ Size["Reserved"] = 2
      /\ Size["Tag"] = 8 /\ Size["Ts_ns"] = 8 /\ Size["Len"] = 4
  BY DEF Size
<1> QED
  BY <1>1, <1>2

\* The roundings that its layout takes.
LEMMA UpToIs ==
  /\ UpTo(1, 1) = 1 /\ UpTo(2, 2) = 2 /\ UpTo(4, 8) = 8
  /\ UpTo(16, 8) = 16 /\ UpTo(24, 4) = 24 /\ UpTo(28, 8) = 32
  BY DEF UpTo

\* Where each field begins, and how long the header of a record is.
LEMMA Layout ==
  /\ Offset(TRUE)[1] = 0 /\ Offset(TRUE)[2] = 1 /\ Offset(TRUE)[3] = 2
  /\ Offset(TRUE)[4] = 8 /\ Offset(TRUE)[5] = 16 /\ Offset(TRUE)[6] = 24
  /\ HeaderSize(TRUE) = 32
<1> DEFINE To(k, g) ==
             IF k = 1 THEN 0 ELSE UpTo(g[k - 1] + Size[Fields[k - 1]], Size[Fields[k]])
           Is(g) == g = [k \in 1..Len(Fields) |-> To(k, g)]
<1>1. Offset(TRUE) = CHOOSE g : Is(g)
  BY DEF Offset
<1>2. 1..Len(Fields) = 1..6
  BY Sizes
<1>3. \E g : Is(g)
  <2> DEFINE g == <<0, 1, 2, 8, 16, 24>>
  <2>1. \A k \in 1..6 : g[k] = To(k, g)
    <3>1. g[1] = 0 /\ g[2] = 1 /\ g[3] = 2 /\ g[4] = 8 /\ g[5] = 16 /\ g[6] = 24
      OBVIOUS
    <3> HIDE DEF g
    <3>2. To(1, g) = 0 /\ To(2, g) = 1 /\ To(3, g) = 2 /\ To(4, g) = 8 /\ To(5, g) = 16 /\ To(6, g) = 24
      BY <3>1, Sizes, UpToIs
    <3>3. \A k \in 1..6 : k = 1 \/ k = 2 \/ k = 3 \/ k = 4 \/ k = 5 \/ k = 6
      OBVIOUS
    <3> HIDE DEF To
    <3> QED
      BY <3>1, <3>2, <3>3
  <2>2. g = [k \in 1..6 |-> g[k]]
    OBVIOUS
  <2> HIDE DEF g, To
  <2> QED
    BY <1>2, <2>1, <2>2
<1>4. Is(Offset(TRUE))
  <2> HIDE DEF Is
  <2> QED
    BY <1>1, <1>3
<1> DEFINE o == Offset(TRUE)
<1>5. \A k \in 1..6 : o[k] = To(k, o)
  <2> HIDE DEF To
  <2> QED
    BY <1>2, <1>4
<1> HIDE DEF o
<1>6. o[1] = 0
  BY <1>5
<1>7. o[2] = 1
  BY <1>5, <1>6, Sizes, UpToIs
<1>8. o[3] = 2
  BY <1>5, <1>7, Sizes, UpToIs
<1>9. o[4] = 8
  BY <1>5, <1>8, Sizes, UpToIs
<1>10. o[5] = 16
  BY <1>5, <1>9, Sizes, UpToIs
<1>11. o[6] = 24
  BY <1>5, <1>10, Sizes, UpToIs
<1>12. HeaderSize(TRUE) = UpTo(28, 8)
  <2>1. PICK z, l : z = Size["Len"] /\ l = Len(Fields)
    OBVIOUS
  <2>2. z = 4 /\ l = 6
    BY <2>1, Sizes
  <2>3. o[l] + z = 28
    BY <1>11, <2>2
  <2>4. HeaderSize(TRUE) = UpTo(o[l] + z, 8)
    BY <2>1 DEF HeaderSize, o
  <2> QED
    BY <2>3, <2>4
<1> QED
  BY <1>6, <1>7, <1>8, <1>9, <1>10, <1>11, <1>12, UpToIs DEF o

\* Which byte of a file a field begins with, and so where a record ends.
LEMMA FieldIs ==
  ASSUME NEW file, NEW from
  PROVE  /\ Field(file, from, "Proto") = file[from + 0 + 1][1]
         /\ Field(file, from, "Tag") = file[from + 8 + 1][1]
         /\ Field(file, from, "Ts_ns") = file[from + 16 + 1][1]
         /\ Field(file, from, "Len") = file[from + 24 + 1][1]
         /\ End(file, from) = from + 32 + file[from + 24 + 1][1]
<1>1. \A k \in 1..6 : k = 1 \/ k = 2 \/ k = 3 \/ k = 4 \/ k = 5 \/ k = 6
  OBVIOUS
<1>2. /\ (CHOOSE k \in DOMAIN Fields : Fields[k] = "Proto") = 1
      /\ (CHOOSE k \in DOMAIN Fields : Fields[k] = "Tag") = 4
      /\ (CHOOSE k \in DOMAIN Fields : Fields[k] = "Ts_ns") = 5
      /\ (CHOOSE k \in DOMAIN Fields : Fields[k] = "Len") = 6
  <2>1. \A k \in DOMAIN Fields : Fields[k] = "Proto" <=> k = 1
    BY <1>1, Sizes
  <2>2. \A k \in DOMAIN Fields : Fields[k] = "Tag" <=> k = 4
    BY <1>1, Sizes
  <2>3. \A k \in DOMAIN Fields : Fields[k] = "Ts_ns" <=> k = 5
    BY <1>1, Sizes
  <2>4. \A k \in DOMAIN Fields : Fields[k] = "Len" <=> k = 6
    BY <1>1, Sizes
  <2>5. 1 \in DOMAIN Fields /\ 4 \in DOMAIN Fields /\ 5 \in DOMAIN Fields /\ 6 \in DOMAIN Fields
    BY Sizes
  <2> QED
    BY <2>1, <2>2, <2>3, <2>4, <2>5
<1>3. Field(file, from, "Proto") = file[from + 0 + 1][1]
  BY <1>2, Layout DEF Field
<1>4. Field(file, from, "Tag") = file[from + 8 + 1][1]
  BY <1>2, Layout DEF Field
<1>5. Field(file, from, "Ts_ns") = file[from + 16 + 1][1]
  BY <1>2, Layout DEF Field
<1>6. Field(file, from, "Len") = file[from + 24 + 1][1]
  BY <1>2, Layout DEF Field
<1>7. End(file, from) = from + 32 + file[from + 24 + 1][1]
  BY <1>6, Layout DEF End
<1> QED
  BY <1>3, <1>4, <1>5, <1>6, <1>7

-----------------------------------------------------------------------------
(* Frames, and the records they become.                                       *)

FramesOf(Byte) == [Proto : Nat, Tag : Nat, Ts_ns : Nat, Payload : Seq(Byte)]

\* What is looked for in a record: its size, its numbers, its payload.
Holds(r, f) ==
    /\ Len(r) = 32 + Len(f.Payload)
    /\ r[1][1] = f.Proto /\ r[9][1] = f.Tag /\ r[17][1] = f.Ts_ns
    /\ r[25][1] = Len(f.Payload)
    /\ \A i \in 1..Len(f.Payload) : r[32 + i] = f.Payload[i]

\* Record puts each of them where it is looked for.
LEMMA RecordHolds ==
  ASSUME NEW Byte, NEW f \in FramesOf(Byte)
  PROVE  /\ \E X : Record(f) \in Seq(X)
         /\ Holds(Record(f), f)
<1> DEFINE off == Offset(TRUE)
           value == [Proto |-> f.Proto, Flags |-> 0, Reserved |-> 0, Tag |-> f.Tag,
                     Ts_ns |-> f.Ts_ns, Len |-> Len(f.Payload)]
           at(i) == {k \in DOMAIN Fields : off[k] < i /\ i <= off[k] + Size[Fields[k]]}
           byte(i) == IF at(i) = {} THEN Pad
                      ELSE LET k == CHOOSE k \in at(i) : TRUE
                           IN  <<value[Fields[k]], i - off[k]>>
           head == [i \in 1..32 |-> byte(i)]
<1>1. Record(f) = head \o f.Payload
  BY Layout DEF Record
<1>2. /\ at(1) = {1} /\ at(9) = {4} /\ at(17) = {5} /\ at(25) = {6}
  <2>1. \A k \in 1..6 : k = 1 \/ k = 2 \/ k = 3 \/ k = 4 \/ k = 5 \/ k = 6
    OBVIOUS
  <2>2. PICK o : o = off
    OBVIOUS
  <2>3. /\ o[1] = 0 /\ o[2] = 1 /\ o[3] = 2 /\ o[4] = 8 /\ o[5] = 16 /\ o[6] = 24
    BY <2>2, Layout
  <2> DEFINE In(i) == {k \in 1..6 : o[k] < i /\ i <= o[k] + Size[Fields[k]]}
  <2>4. PICK z : z = [k \in 1..6 |-> Size[Fields[k]]]
    OBVIOUS
  <2>5. z[1] = 1 /\ z[2] = 1 /\ z[3] = 2 /\ z[4] = 8 /\ z[5] = 8 /\ z[6] = 4
    BY <2>4, Sizes
  <2> DEFINE On(i) == {k \in 1..6 : o[k] < i /\ i <= o[k] + z[k]}
  <2>6. \A i : On(i) = at(i)
    BY <2>2, <2>4, Sizes
  <2>7. On(1) = {1}
    BY <2>1, <2>3, <2>5
  <2>8. On(9) = {4}
    BY <2>1, <2>3, <2>5
  <2>9. On(17) = {5}
    BY <2>1, <2>3, <2>5
  <2>10. On(25) = {6}
    BY <2>1, <2>3, <2>5
  <2> HIDE DEF On, at
  <2> QED
    BY <2>6, <2>7, <2>8, <2>9, <2>10
<1>3. \A k : (CHOOSE j \in {k} : TRUE) = k
  OBVIOUS
<1>4. \A i, k : at(i) = {k} => byte(i)[1] = value[Fields[k]]
  <2> TAKE i, k
  <2> HAVE at(i) = {k}
  <2> HIDE DEF at, value
  <2>1. byte(i) = <<value[Fields[k]], i - off[k]>>
    BY <1>3
  <2> QED
    BY <2>1
<1>5. /\ byte(1)[1] = f.Proto /\ byte(9)[1] = f.Tag
      /\ byte(17)[1] = f.Ts_ns /\ byte(25)[1] = Len(f.Payload)
  <2>1. /\ value["Proto"] = f.Proto /\ value["Tag"] = f.Tag
        /\ value["Ts_ns"] = f.Ts_ns /\ value["Len"] = Len(f.Payload)
    OBVIOUS
  <2> HIDE DEF byte, at, value
  <2>2. byte(1)[1] = value[Fields[1]] /\ byte(9)[1] = value[Fields[4]]
    BY <1>2, <1>4
  <2>3. byte(17)[1] = value[Fields[5]] /\ byte(25)[1] = value[Fields[6]]
    BY <1>2, <1>4
  <2> QED
    BY <2>1, <2>2, <2>3, Sizes
<1> HIDE DEF byte, at, value
<1> DEFINE X == {head[i] : i \in 1..32} \cup Byte
<1>6. head \in Seq(X) /\ Len(head) = 32
  <2>1. 32 \in Nat /\ head \in [1..32 -> X]
    OBVIOUS
  <2> QED
    BY <2>1, LenProperties
<1>7. f.Payload \in Seq(X) /\ Len(f.Payload) \in Nat
  BY DEF FramesOf
<1>8. \A i \in 1..32 : head[i] = byte(i)
  OBVIOUS
<1> HIDE DEF head, X
<1>9. /\ head \o f.Payload \in Seq(X) /\ Len(head \o f.Payload) = 32 + Len(f.Payload)
      /\ \A i \in 1..32 : (head \o f.Payload)[i] = head[i]
      /\ \A i \in 1..Len(f.Payload) : (head \o f.Payload)[32 + i] = f.Payload[i]
  <2>1. PICK a, b : a = head /\ b = f.Payload
    OBVIOUS
  <2>2. a \in Seq(X) /\ b \in Seq(X) /\ Len(a) = 32
    BY <1>6, <1>7, <2>1
  <2>3. /\ a \o b \in Seq(X) /\ Len(a \o b) = Len(a) + Len(b)
        /\ \A i \in 1..Len(a) : (a \o b)[i] = a[i]
        /\ \A i \in 1..Len(b) : (a \o b)[Len(a) + i] = b[i]
    <3>1. a \in Seq(X) /\ b \in Seq(X)
      BY <2>2
    <3> QED
      BY <3>1, Joined
  <2> QED
    BY <2>1, <2>2, <2>3, Zenon
<1>10. /\ Record(f)[1] = byte(1) /\ Record(f)[9] = byte(9)
       /\ Record(f)[17] = byte(17) /\ Record(f)[25] = byte(25)
  <2>1. 1 \in 1..32 /\ 9 \in 1..32 /\ 17 \in 1..32 /\ 25 \in 1..32
    OBVIOUS
  <2> QED
    BY <1>1, <1>8, <1>9, <2>1, Zenon
<1> QED
  BY <1>1, <1>5, <1>9, <1>10 DEF Holds

-----------------------------------------------------------------------------
(* What sequences make when they are joined one after the other.              *)

\* The equation of FlattenSeq, and that of the joins of ever more sequences.
Joins(g, seqs, n) == g = [i \in 1..n |-> IF i = 1 THEN seqs[i] ELSE g[i - 1] \o seqs[i]]
Joining(f, seqs, X) ==
    /\ \A k \in 0..Len(seqs) : f[k] \in Seq(X)
    /\ f[0] = <<>>
    /\ \A k \in 1..Len(seqs) : f[k] = f[k - 1] \o seqs[k]

\* There are such joins.
LEMMA JoiningIs ==
  ASSUME NEW X, NEW seqs \in Seq(Seq(X))
  PROVE  \E f : Joining(f, seqs, X)
<1> DEFINE n == Len(seqs)
           h == [k \in 1..n |-> [s \in Seq(X) |-> s \o seqs[k]]]
           B == [k \in 0..n |-> Seq(X)]
           base == <<>>
<1>1. n \in Nat /\ \A k \in 1..n : seqs[k] \in Seq(X)
  BY LenProperties, ElementOfSeq
<1>2. base \in B[0]
  BY <1>1
<1>3. \A k \in 1..n : \A x \in B[k - 1] : h[k][x] \in B[k]
  <2> TAKE k \in 1..n
  <2>1. k - 1 \in 0..n /\ k \in 0..n
    BY <1>1
  <2> TAKE x \in B[k - 1]
  <2>2. x \in Seq(X) /\ h[k][x] = x \o seqs[k]
    BY <2>1
  <2> QED
    BY <1>1, <2>1, <2>2, ConcatProperties
<1>4. PICK f : Loops!Runs(f, n, base, h) /\ \A k \in 0..n : f[k] \in B[k]
  <2> HIDE DEF B, h, n, base
  <2> QED
    BY <1>1, <1>2, <1>3, Loops!Looping
<1>5. \A k \in 0..n : f[k] \in Seq(X)
  BY <1>4
<1>6. f[0] = <<>>
  BY <1>1, <1>4 DEF Loops!Runs
<1>7. ASSUME NEW k \in 1..n
      PROVE  f[k] = f[k - 1] \o seqs[k]
  <2>1. k \in 0..n /\ k # 0 /\ k - 1 \in 0..n
    BY <1>1
  <2>2. f[k] = h[k][f[k - 1]]
    BY <1>4, <2>1 DEF Loops!Runs
  <2> QED
    BY <1>5, <2>1, <2>2
<1> QED
  BY <1>5, <1>6, <1>7 DEF Joining

\* The first of them is the first sequence.
LEMMA JoiningFirst ==
  ASSUME NEW X, NEW seqs \in Seq(Seq(X)), NEW f, Joining(f, seqs, X), Len(seqs) >= 1
  PROVE  f[1] = seqs[1]
<1>1. 1 \in 1..Len(seqs) /\ 1 - 1 = 0
  BY LenProperties
<1>2. f[1] = f[1 - 1] \o seqs[1] /\ f[0] = <<>>
  BY <1>1 DEF Joining
<1>3. seqs[1] \in Seq(X)
  BY <1>1, ElementOfSeq
<1>4. f[1] = <<>> \o seqs[1]
  BY <1>1, <1>2
<1> QED
  BY <1>3, <1>4, ConcatEmptySeq

\* FlattenSeq joins as many of them as it is given.
LEMMA FlattenIs ==
  ASSUME NEW X, NEW seqs \in Seq(Seq(X)), NEW f, Joining(f, seqs, X),
         NEW m \in 0..Len(seqs)
  PROVE  FlattenSeq(SubSeq(seqs, 1, m)) = f[m]
<1> DEFINE part == SubSeq(seqs, 1, m)
<1>1. Len(seqs) \in Nat /\ m \in Nat /\ \A k \in 1..Len(seqs) : seqs[k] \in Seq(X)
  BY LenProperties, ElementOfSeq
<1>2. Len(part) = m /\ \A k \in 1..m : part[k] = seqs[k]
  <2>1. PICK S, t : S = Seq(X) /\ t = seqs
    OBVIOUS
  <2>2. t \in Seq(S) /\ m \in 0..Len(t)
    BY <2>1
  <2>3. Len(SubSeq(t, 1, m)) = m /\ \A k \in 1..m : SubSeq(t, 1, m)[k] = t[k]
    BY <2>2, FirstPart
  <2> QED
    BY <2>1, <2>3
<1>3. CASE m = 0
  <2>1. part = <<>>
    BY <1>3, SubSeqEmpty
  <2>2. FlattenSeq(part) = part
    BY <1>2, <1>3 DEF FlattenSeq
  <2> QED
    BY <1>3, <2>1, <2>2 DEF Joining
<1>4. CASE m # 0
  <2> DEFINE F == CHOOSE g : Joins(g, part, m)
  <2>1. FlattenSeq(part) = F[m]
    <3> HIDE DEF part
    <3> QED
      BY <1>2, <1>4 DEF FlattenSeq, Joins
  <2>2. \E g : Joins(g, part, m)
    <3> DEFINE g == [i \in 1..m |-> f[i]]
    <3>1. ASSUME NEW i \in 1..m
          PROVE  g[i] = IF i = 1 THEN part[i] ELSE g[i - 1] \o part[i]
      <4> HIDE DEF part
      <4>1. /\ i \in 1..Len(seqs) /\ Len(seqs) >= 1
            /\ f[i] = f[i - 1] \o seqs[i] /\ part[i] = seqs[i]
        <5>1. i \in 1..Len(seqs) /\ Len(seqs) >= 1
          BY <1>1
        <5> QED
          BY <1>2, <5>1 DEF Joining
      <4>2. CASE i = 1
        BY <4>1, <4>2, JoiningFirst
      <4>3. CASE i # 1
        <5>1. i - 1 \in 1..m
          BY <1>1, <4>3
        <5> QED
          BY <4>1, <4>3, <5>1
      <4> QED
        BY <4>2, <4>3
    <3>2. Joins(g, part, m)
      <4> HIDE DEF part
      <4> QED
        BY <3>1 DEF Joins
    <3> QED
      BY <3>2
  <2>3. Joins(F, part, m)
    <3> HIDE DEF part
    <3> QED
      BY <2>2
  <2> HIDE DEF F
  <2> DEFINE P == {0} \cup {k \in 1..m : F[k] = f[k]}
  <2>4. ASSUME NEW k \in 0..m, k + 1 \in 0..m, k \in P
        PROVE  k + 1 \in P
    <3>1. k + 1 \in 1..m /\ k + 1 \in 1..Len(seqs) /\ (k + 1) - 1 = k
      BY <1>1, <2>4
    <3>2. F[k + 1] = IF k + 1 = 1 THEN part[k + 1] ELSE F[k] \o part[k + 1]
      <4> HIDE DEF part
      <4> QED
        BY <2>3, <3>1 DEF Joins
    <3>3. f[k + 1] = f[k] \o seqs[k + 1] /\ part[k + 1] = seqs[k + 1]
      BY <1>2, <3>1 DEF Joining
    <3>4. F[k + 1] = f[k + 1]
      <4> HIDE DEF part
      <4>1. CASE k = 0
        <5>1. k + 1 = 1 /\ Len(seqs) >= 1
          BY <1>1, <3>1, <4>1
        <5>2. F[1] = part[1] /\ part[1] = seqs[1]
          BY <3>2, <3>3, <5>1
        <5>3. f[1] = seqs[1]
          BY <5>1, JoiningFirst
        <5> QED
          BY <5>1, <5>2, <5>3
      <4>2. CASE k # 0
        <5>1. F[k] = f[k] /\ k + 1 # 1
          BY <1>1, <2>4, <4>2
        <5> QED
          BY <3>2, <3>3, <5>1
      <4> QED
        BY <4>1, <4>2
    <3> QED
      BY <3>1, <3>4
  <2>5. \A k \in 0..m : k \in P
    <3> HIDE DEF P
    <3>1. 0 \in P
      BY DEF P
    <3> QED
      BY <1>1, <2>4, <3>1, Loops!Induct
  <2>6. F[m] = f[m]
    BY <1>1, <1>4, <2>5
  <2> QED
    BY <2>1, <2>6
<1> QED
  BY <1>3, <1>4

\* What is joined later leaves what was there.
LEMMA Grown ==
  ASSUME NEW X, NEW seqs \in Seq(Seq(X)), NEW f, Joining(f, seqs, X),
         NEW k \in 0..Len(seqs), NEW m \in k..Len(seqs)
  PROVE  /\ Len(f[k]) <= Len(f[m])
         /\ \A i \in 1..Len(f[k]) : f[m][i] = f[k][i]
<1> DEFINE n == Len(seqs)
           P == {j \in 0..n : k <= j => /\ Len(f[k]) <= Len(f[j])
                                        /\ \A i \in 1..Len(f[k]) : f[j][i] = f[k][i]}
<1>1. n \in Nat /\ \A j \in 1..n : seqs[j] \in Seq(X)
  BY LenProperties, ElementOfSeq
<1>2. \A j \in 0..n : Len(f[j]) \in Nat /\ f[j] \in Seq(X)
  BY LenProperties DEF Joining
<1>3. 0 \in P
  BY <1>1, <1>2
<1>4. ASSUME NEW j \in 0..n, j + 1 \in 0..n, j \in P
      PROVE  j + 1 \in P
  <2>1. j + 1 \in 1..n /\ (j + 1) - 1 = j
    BY <1>1, <1>4
  <2>2. f[j + 1] = f[j] \o seqs[j + 1]
    BY <2>1 DEF Joining
  <2>3. f[j] \in Seq(X) /\ seqs[j + 1] \in Seq(X)
    BY <1>1, <1>2, <2>1
  <2>4. Len(f[j + 1]) = Len(f[j]) + Len(seqs[j + 1]) /\ \A i \in 1..Len(f[j]) : f[j + 1][i] = f[j][i]
    <3>1. PICK a, b, c : a = f[j] /\ b = seqs[j + 1] /\ c = f[j + 1]
      OBVIOUS
    <3>2. a \in Seq(X) /\ b \in Seq(X) /\ c = a \o b
      BY <2>2, <2>3, <3>1, Zenon
    <3>3. Len(c) = Len(a) + Len(b) /\ \A i \in 1..Len(a) : c[i] = a[i]
      BY <3>2, Joined, Zenon
    <3> QED
      BY <3>1, <3>3, Zenon
  <2>5. Len(f[j]) \in Nat /\ Len(seqs[j + 1]) \in Nat /\ Len(f[k]) \in Nat
    BY <1>2, <2>3, LenProperties
  <2>6. CASE k <= j
    <3>1. Len(f[k]) <= Len(f[j]) /\ \A i \in 1..Len(f[k]) : f[j][i] = f[k][i]
      BY <1>4, <2>6
    <3>2. Len(f[k]) <= Len(f[j + 1])
      <4>1. PICK a, b, c, d : a = Len(f[k]) /\ b = Len(f[j]) /\ c = Len(f[j + 1]) /\ d = Len(seqs[j + 1])
        OBVIOUS
      <4>2. a \in Nat /\ b \in Nat /\ d \in Nat /\ a <= b /\ c = b + d
        BY <2>4, <2>5, <3>1, <4>1, Zenon
      <4>3. a <= c
        BY <4>2
      <4> QED
        BY <4>1, <4>3, Zenon
    <3>3. ASSUME NEW i \in 1..Len(f[k])
          PROVE  f[j + 1][i] = f[k][i]
      <4>1. i \in 1..Len(f[j])
        BY <2>5, <3>1
      <4> QED
        BY <2>4, <3>1, <4>1
    <3> QED
      BY <1>4, <3>2, <3>3
  <2>7. CASE k = j + 1
    BY <1>4, <2>5, <2>7, <1>2
  <2>8. CASE k > j + 1
    BY <1>4, <2>8
  <2> QED
    BY <2>6, <2>7, <2>8
<1>5. \A j \in 0..n : j \in P
  <2> HIDE DEF P
  <2> QED
    BY <1>1, <1>3, <1>4, Loops!Induct
<1> QED
  BY <1>5

-----------------------------------------------------------------------------
(* A recording.                                                               *)

RecordsOf(frames) == [k \in DOMAIN frames |-> Record(frames[k])]

\* Records and the header of the file are sequences of the same kind of bytes.
LEMMA RecordsAre ==
  ASSUME NEW Byte, NEW frames \in Seq(FramesOf(Byte))
  PROVE  \E X : /\ RecordsOf(frames) \in Seq(Seq(X)) /\ FileHeader \in Seq(X)
                /\ Len(RecordsOf(frames)) = Len(frames)
<1> DEFINE n == Len(frames)
           Bytes(r) == {r[i] : i \in 1..Len(r)}
           Start == {FileHeader[i] : i \in 1..16}
           Rest == UNION {Bytes(Record(frames[k])) : k \in 1..n}
           X == Rest \cup Start
<1>1. n \in Nat /\ DOMAIN frames = 1..n /\ \A k \in 1..n : frames[k] \in FramesOf(Byte)
  BY LenProperties, ElementOfSeq
<1>2. ASSUME NEW k \in 1..n
      PROVE  Record(frames[k]) \in Seq(X)
  <2>1. PICK Y, r : r = Record(frames[k]) /\ r \in Seq(Y)
    BY <1>1, RecordHolds
  <2>2. Len(r) \in Nat /\ r \in [1..Len(r) -> Y]
    BY <2>1, LenProperties
  <2>3. \A i \in 1..Len(r) : r[i] \in X
    <3>1. Bytes(r) \subseteq UNION {Bytes(Record(frames[j])) : j \in 1..n}
      <4> HIDE DEF Bytes, Start
      <4> QED
        BY <2>1
    <3>2. \A i \in 1..Len(r) : r[i] \in Bytes(r)
      OBVIOUS
    <3> HIDE DEF Bytes
    <3> QED
      BY <3>1, <3>2
  <2> HIDE DEF X
  <2>4. r \in [1..Len(r) -> X]
    BY <2>2, <2>3
  <2> QED
    BY <2>1, <2>2, <2>4
<1>3. FileHeader \in Seq(X)
  <2>1. DOMAIN FileHeader = 1..16 /\ FileHeader = [i \in 1..16 |-> FileHeader[i]]
    BY DEF FileHeader
  <2>2. \A i \in 1..16 : FileHeader[i] \in X
    <3>1. \A i \in 1..16 : FileHeader[i] \in Start
      OBVIOUS
    <3>2. Start \subseteq X
      <4> HIDE DEF Start, Rest
      <4> QED
        OBVIOUS
    <3> QED
      BY <3>1, <3>2, Zenon
  <2> HIDE DEF X
  <2>3. PICK h, l : h = FileHeader /\ l = 16
    OBVIOUS
  <2>4. h \in [1..l -> X] /\ l \in Nat
    BY <2>1, <2>2, <2>3
  <2>5. h \in Seq(X)
    BY <2>4
  <2> QED
    BY <2>3, <2>5
<1> HIDE DEF X
<1>4. RecordsOf(frames) \in [1..n -> Seq(X)]
  BY <1>1, <1>2 DEF RecordsOf
<1>5. RecordsOf(frames) \in Seq(Seq(X)) /\ Len(RecordsOf(frames)) = n
  <2>1. PICK r, S : r = RecordsOf(frames) /\ S = Seq(X)
    OBVIOUS
  <2>2. r \in [1..n -> S]
    BY <1>4, <2>1
  <2>3. r \in Seq(S) /\ Len(r) = n
    BY <1>1, <2>2, LenProperties
  <2> QED
    BY <2>1, <2>3
<1> QED
  BY <1>3, <1>5

\* Where records begin whose payloads are p long, and what a recording has there.
Divides(pos, p, n) ==
    /\ p \in [1..n -> Nat] /\ pos \in [0..n -> Nat]
    /\ pos[0] = 16 /\ \A k \in 1..n : pos[k] = pos[k - 1] + 32 + p[k]
Filled(whole, frames, pos, p, n) ==
    /\ Len(whole) = pos[n]
    /\ \A i \in 1..16 : whole[i] = FileHeader[i]
    /\ \A k \in 1..n : p[k] = Len(frames[k].Payload)
    /\ \A k \in 1..n : \A i \in 1..(32 + p[k]) : whole[pos[k - 1] + i] = Record(frames[k])[i]

\* Every recording is divided into its header and its records, as long as their payloads ask.
LEMMA RecordedIs ==
  ASSUME NEW Byte, NEW frames \in Seq(FramesOf(Byte)), NEW n \in Nat, Len(frames) = n
  PROVE  \E p, pos, X :
             /\ Divides(pos, p, n) /\ Filled(Recorded(frames), frames, pos, p, n)
             /\ \A m \in 0..n : Len(Recorded(SubSeq(frames, 1, m))) = pos[m]
             /\ Recorded(frames) \in Seq(X)
<1> DEFINE recs == RecordsOf(frames)
<1>1. PICK X : recs \in Seq(Seq(X)) /\ FileHeader \in Seq(X) /\ Len(recs) = n
  BY RecordsAre
<1>2. PICK f : Joining(f, recs, X) /\ \A k \in 0..n : f[k] \in Seq(X)
  <2>1. PICK g : Joining(g, recs, X)
    <3> HIDE DEF recs
    <3> QED
      BY <1>1, JoiningIs
  <2> QED
    BY <1>1, <2>1 DEF Joining
<1>3. n \in Nat /\ DOMAIN frames = 1..n /\ \A k \in 1..n : frames[k] \in FramesOf(Byte)
  BY LenProperties, ElementOfSeq
<1>4. \A k \in 1..n : recs[k] = Record(frames[k]) /\ recs[k] \in Seq(X)
  <2>1. \A k \in 1..n : recs[k] = Record(frames[k])
    BY <1>3 DEF RecordsOf
  <2>2. \A k \in 1..n : recs[k] \in Seq(X)
    BY <1>1, ElementOfSeq
  <2> QED
    BY <2>1, <2>2
<1>5. Len(FileHeader) = 16
  <2>1. 16 \in Nat /\ FileHeader \in [1..16 -> X]
    <3>1. DOMAIN FileHeader = 1..16 /\ 16 \in Nat
      BY DEF FileHeader
    <3>2. FileHeader \in [1..Len(FileHeader) -> X] /\ DOMAIN FileHeader = 1..Len(FileHeader)
      BY <1>1, LenProperties
    <3> QED
      BY <3>1, <3>2
  <2>2. DOMAIN FileHeader = 1..16 /\ DOMAIN FileHeader = 1..Len(FileHeader) /\ Len(FileHeader) \in Nat
    BY <1>1, <2>1, LenProperties
  <2>3. PICK l : l = Len(FileHeader)
    OBVIOUS
  <2>4. 1..l = 1..16 /\ l \in Nat
    BY <2>2, <2>3
  <2>5. l = 16
    <3>1. 16 \in 1..16
      OBVIOUS
    <3>2. 16 \in 1..l
      BY <2>4, <3>1, Zenon
    <3>3. l \in 1..l
      BY <2>4, <3>2
    <3>4. l \in 1..16
      BY <2>4, <3>3
    <3> QED
      BY <2>4, <3>2, <3>4
  <2> QED
    BY <2>3, <2>5
<1>6. ASSUME NEW t \in Seq(X)
       PROVE  /\ Len(FileHeader \o t) = 16 + Len(t) /\ FileHeader \o t \in Seq(X)
              /\ \A i \in 1..16 : (FileHeader \o t)[i] = FileHeader[i]
              /\ \A i \in 1..Len(t) : (FileHeader \o t)[16 + i] = t[i]
  <2>1. PICK a, l : a = FileHeader /\ l = Len(a)
    OBVIOUS
  <2>2. l = 16 /\ a \in Seq(X)
    BY <1>1, <1>5, <2>1
  <2>3. Len(a \o t) = Len(a) + Len(t) /\ a \o t \in Seq(X)
    BY <2>2, Joined
  <2>4. \A i \in 1..Len(a) : (a \o t)[i] = a[i]
    BY <2>2, Joined
  <2>5. \A i \in 1..Len(t) : (a \o t)[Len(a) + i] = t[i]
    BY <2>2, Joined
  <2> QED
    BY <2>1, <2>2, <2>3, <2>4, <2>5
<1>7. ASSUME NEW m \in 0..n
      PROVE  /\ Recorded(SubSeq(frames, 1, m)) = FileHeader \o f[m]
             /\ Len(Recorded(SubSeq(frames, 1, m))) = 16 + Len(f[m])
  <2> DEFINE part == SubSeq(frames, 1, m)
  <2>1. Len(part) = m /\ part \in Seq(FramesOf(Byte)) /\ \A k \in 1..m : part[k] = frames[k]
    BY <1>3, FirstPart
  <2> HIDE DEF part
  <2>2. DOMAIN part = 1..m
    BY <2>1, LenProperties
  <2>3. [k \in DOMAIN part |-> Record(part[k])] = [k \in 1..m |-> recs[k]]
    BY <1>3, <1>4, <2>1, <2>2
  <2>4. SubSeq(recs, 1, m) = [k \in 1..m |-> recs[k]]
    <3>1. PICK S, t : S = Seq(X) /\ t = recs
      OBVIOUS
    <3>2. t \in Seq(S) /\ m \in 0..Len(t)
      BY <1>1, <3>1
    <3>3. SubSeq(t, 1, m) = [k \in 1..m |-> t[k]]
      BY <3>2, FirstPart
    <3> QED
      BY <3>1, <3>3
  <2>5. FlattenSeq(SubSeq(recs, 1, m)) = f[m]
    BY <1>1, <1>2, FlattenIs
  <2>6. Recorded(part) = FileHeader \o f[m]
    <3> HIDE DEF recs
    <3> QED
      BY <2>3, <2>4, <2>5 DEF Recorded
  <2>7. Len(FileHeader \o f[m]) = 16 + Len(f[m])
    BY <1>2, <1>6
  <2> QED
    BY <2>6, <2>7 DEF part
<1>8. SubSeq(frames, 1, n) = frames
  BY <1>3, SubSeqFull
<1>9. Recorded(frames) = FileHeader \o f[n]
  <2>1. n \in 0..n
    BY <1>3
  <2> QED
    BY <1>7, <1>8, <2>1
<1> HIDE DEF recs
<1> DEFINE pos == [k \in 0..n |-> 16 + Len(f[k])]
<1>10. pos \in [0..n -> Nat]
  <2>1. \A k \in 0..n : Len(f[k]) \in Nat
    BY <1>2, LenProperties
  <2> QED
    BY <2>1
<1>11. pos[0] = 16
  <2>1. Len(f[0]) = 0
    BY <1>2 DEF Joining
  <2> QED
    BY <1>3, <2>1
<1>12. ASSUME NEW k \in 1..n
       PROVE  /\ Len(f[k]) = Len(f[k - 1]) + 32 + Len(frames[k].Payload)
              /\ \A i \in 1..(32 + Len(frames[k].Payload)) :
                     f[k][Len(f[k - 1]) + i] = Record(frames[k])[i]
              /\ Len(frames[k].Payload) \in Nat /\ Len(f[k - 1]) \in Nat
  <2>1. k - 1 \in 0..n
    BY <1>3
  <2>2. f[k] = f[k - 1] \o recs[k] /\ f[k - 1] \in Seq(X) /\ recs[k] \in Seq(X)
    BY <1>1, <1>2, <1>4, <2>1 DEF Joining
  <2>3. PICK a, b, c : a = f[k - 1] /\ b = recs[k] /\ c = f[k]
    OBVIOUS
  <2>4. a \in Seq(X) /\ b \in Seq(X) /\ c = a \o b
    BY <2>2, <2>3
  <2>5. Len(c) = Len(a) + Len(b) /\ \A i \in 1..Len(b) : c[Len(a) + i] = b[i]
    BY <2>4, Joined
  <2>6. Len(b) = 32 + Len(frames[k].Payload) /\ b = Record(frames[k])
    BY <1>3, <1>4, <2>3, RecordHolds DEF Holds
  <2>7. Len(frames[k].Payload) \in Nat /\ Len(a) \in Nat
    BY <1>3, <2>4, LenProperties DEF FramesOf
  <2>8. PICK p : p = Len(frames[k].Payload)
    OBVIOUS
  <2>9. PICK x, y, z : x = Len(a) /\ y = Len(b) /\ z = Len(c)
    OBVIOUS
  <2>10. y = 32 + p /\ z = x + y /\ x \in Nat /\ p \in Nat
    BY <2>5, <2>6, <2>7, <2>8, <2>9, Zenon
  <2>11. z = x + 32 + p
    BY <2>10
  <2>12. Len(f[k]) = Len(f[k - 1]) + 32 + Len(frames[k].Payload)
    BY <2>3, <2>8, <2>9, <2>11, Zenon
  <2>13. \A i \in 1..(32 + p) : c[Len(a) + i] = b[i]
    BY <2>5, <2>6, <2>8, Zenon
  <2>14. \A i \in 1..(32 + Len(frames[k].Payload)) :
             f[k][Len(f[k - 1]) + i] = Record(frames[k])[i]
    BY <2>3, <2>6, <2>8, <2>13, Zenon
  <2> QED
    BY <2>3, <2>7, <2>12, <2>14, Zenon
<1>13. \A k \in 1..n : pos[k] = pos[k - 1] + 32 + Len(frames[k].Payload)
  <2> TAKE k \in 1..n
  <2>1. k - 1 \in 0..n /\ k \in 0..n
    BY <1>3
  <2>2. pos[k] = 16 + Len(f[k]) /\ pos[k - 1] = 16 + Len(f[k - 1])
    BY <2>1
  <2> HIDE DEF pos
  <2>3. PICK p, a, b : p = Len(frames[k].Payload) /\ a = Len(f[k - 1]) /\ b = Len(f[k])
    OBVIOUS
  <2>4. b = a + 32 + p /\ a \in Nat /\ p \in Nat
    BY <1>12, <2>3
  <2>5. PICK x, y : x = pos[k] /\ y = pos[k - 1]
    OBVIOUS
  <2>6. x = 16 + b /\ y = 16 + a
    BY <2>2, <2>3, <2>5
  <2>7. x = y + 32 + p
    BY <2>4, <2>6
  <2> QED
    BY <2>3, <2>5, <2>7, Zenon
<1>14. \A m \in 0..n : Len(Recorded(SubSeq(frames, 1, m))) = pos[m]
  BY <1>7
<1>15. Len(Recorded(frames)) = pos[n]
  <2>1. n \in 0..n
    BY <1>3
  <2> HIDE DEF pos
  <2> QED
    BY <1>8, <1>14, <2>1
<1>16. Recorded(frames) \in Seq(X)
  <2>1. n \in 0..n
    BY <1>3
  <2> QED
    BY <1>1, <1>2, <1>9, <2>1, ConcatProperties
<1>17. \A i \in 1..16 : Recorded(frames)[i] = FileHeader[i]
  <2>1. f[n] \in Seq(X)
    BY <1>2, <1>3
  <2> QED
    BY <1>9, <1>6, <2>1
<1>18. ASSUME NEW k \in 1..n, NEW i \in 1..(32 + Len(frames[k].Payload))
       PROVE  Recorded(frames)[pos[k - 1] + i] = Record(frames[k])[i]
  <2>1. k - 1 \in 0..n /\ k \in 0..n /\ n \in k..n /\ n \in 0..n
    BY <1>3
  <2>2. PICK a, b, j : a = Len(f[k - 1]) /\ b = Len(f[k]) /\ j = a + i
    OBVIOUS
  <2>3. j \in 1..b /\ pos[k - 1] + i = 16 + j
    <3>1. PICK p : p = Len(frames[k].Payload)
      OBVIOUS
    <3>2. b = a + 32 + p /\ a \in Nat /\ p \in Nat /\ i \in 1..(32 + p)
      BY <1>12, <2>2, <3>1
    <3>3. j \in 1..b
      BY <2>2, <3>2
    <3>4. pos[k - 1] = 16 + a
      BY <2>1, <2>2
    <3> HIDE DEF pos
    <3> QED
      BY <2>2, <3>2, <3>3, <3>4
  <2>4. f[n][j] = f[k][j] /\ Len(f[k]) <= Len(f[n])
    <3>1. PICK r, l : r = recs /\ l = Len(r)
      OBVIOUS
    <3>2. l = n
      BY <1>1, <3>1
    <3>3. r \in Seq(Seq(X))
      BY <1>1, <3>1
    <3>4. Joining(f, r, X)
      BY <1>2, <3>1
    <3>5. k \in 0..Len(r)
      BY <2>1, <3>1, <3>2
    <3>6. n \in k..Len(r)
      BY <2>1, <3>1, <3>2
    <3>7. Len(f[k]) <= Len(f[n])
      BY <3>3, <3>4, <3>5, <3>6, Grown
    <3>8. \A o \in 1..Len(f[k]) : f[n][o] = f[k][o]
      BY <3>3, <3>4, <3>5, <3>6, Grown
    <3> QED
      BY <2>2, <2>3, <3>7, <3>8
  <2>5. f[k][j] = Record(frames[k])[i]
    BY <1>12, <2>2
  <2>6. j \in 1..Len(f[n])
    <3>1. PICK c : c = Len(f[n])
      OBVIOUS
    <3>2. b \in Nat /\ c \in Nat
      BY <1>2, <2>1, <2>2, <3>1, LenProperties
    <3>3. b <= c
      BY <2>2, <2>4, <3>1, Zenon
    <3>4. j \in 1..c
      BY <2>3, <3>2, <3>3
    <3> QED
      BY <3>1, <3>4, Zenon
  <2>7. (FileHeader \o f[n])[16 + j] = f[n][j]
    BY <1>2, <1>6, <2>1, <2>6
  <2> QED
    BY <1>9, <2>3, <2>4, <2>5, <2>7
<1> DEFINE p == [k \in 1..n |-> Len(frames[k].Payload)]
<1>19. p \in [1..n -> Nat] /\ \A k \in 1..n : p[k] = Len(frames[k].Payload)
  BY <1>12
<1> HIDE DEF pos, p
<1>20. Divides(pos, p, n)
  BY <1>10, <1>11, <1>13, <1>19 DEF Divides
<1>21. Filled(Recorded(frames), frames, pos, p, n)
  BY <1>15, <1>17, <1>18, <1>19 DEF Filled
<1> QED
  BY <1>14, <1>16, <1>20, <1>21

-----------------------------------------------------------------------------
(* What a reader makes of the part that is left.                              *)

\* The equation of Replayed's at, for a file and whether its header is whole.
Positions(f, file, opens) ==
    f = [k \in 0..Len(file) |->
            IF k = 0 THEN IF opens THEN 16 ELSE 0
            ELSE IF /\ f[k - 1] # 0
                    /\ f[k - 1] + HeaderSize(TRUE) <= Len(file) /\ End(file, f[k - 1]) <= Len(file)
                 THEN End(file, f[k - 1]) ELSE 0]
\* Open succeeds; what Next reads of a record.
Opens(file) == Len(file) >= 16 /\ SubSeq(file, 1, 16) = FileHeader
Read(file, from) ==
    [Proto |-> Field(file, from, "Proto"), Tag |-> Field(file, from, "Tag"),
     Ts_ns |-> Field(file, from, "Ts_ns"),
     Payload |-> SubSeq(file, from + HeaderSize(TRUE) + 1, End(file, from))]

\* The positions are what any e is that meets their equation step by step.
Follows(e, file, n) ==
    /\ e[0] = IF Opens(file) THEN 16 ELSE 0
    /\ \A k \in 1..n :
           e[k] = IF e[k - 1] # 0 /\ e[k - 1] + 32 <= n /\ End(file, e[k - 1]) <= n
                  THEN End(file, e[k - 1]) ELSE 0
\* What is read at them.
ReadOff(e, file, n) == [k \in {k \in 1..n : e[k] # 0} |-> Read(file, e[k - 1])]
LEMMA ReplayedIs ==
  ASSUME NEW file, NEW n \in Nat, Len(file) = n, NEW e, Follows(e, file, n)
  PROVE  Replayed(file) = ReadOff(e, file, n)
<1> DEFINE opens == Opens(file)
           f == CHOOSE g : Positions(g, file, opens)
<1>1. Replayed(file) = [k \in {k \in 1..n : f[k] # 0} |-> Read(file, f[k - 1])]
  BY DEF Replayed, Positions, Opens, Read
<1>2. \E g : Positions(g, file, opens)
  <2> DEFINE g == [k \in 0..n |-> e[k]]
  <2>1. \A k \in 0..n : k # 0 => k \in 1..n /\ k - 1 \in 0..n
    OBVIOUS
  <2>2. \A k \in 0..n : g[k] = e[k]
    OBVIOUS
  <2>3. g = [k \in 0..n |-> g[k]]
    OBVIOUS
  <2> HIDE DEF g
  <2>4. ASSUME NEW k \in 0..n
        PROVE  g[k] = IF k = 0 THEN IF opens THEN 16 ELSE 0
                      ELSE IF /\ g[k - 1] # 0 /\ g[k - 1] + HeaderSize(TRUE) <= n
                              /\ End(file, g[k - 1]) <= n
                           THEN End(file, g[k - 1]) ELSE 0
    <3>1. CASE k = 0
      BY <2>2, <3>1 DEF Follows
    <3>2. CASE k # 0
      <4>1. k \in 1..n /\ g[k - 1] = e[k - 1] /\ g[k] = e[k]
        BY <2>1, <2>2, <3>2
      <4> HIDE DEF opens
      <4> QED
        BY <3>2, <4>1, Layout DEF Follows
    <3> QED
      BY <3>1, <3>2
  <2>5. Positions(g, file, opens)
    BY <2>3, <2>4 DEF Positions
  <2> QED
    BY <2>5
<1>3. Positions(f, file, opens)
  <2> HIDE DEF opens
  <2> QED
    BY <1>2
<1> HIDE DEF f
<1> DEFINE P == {k \in 0..n : f[k] = e[k]}
<1>4. 0 \in P
  BY <1>3 DEF Positions, Follows
<1>5. ASSUME NEW k \in 0..n, k + 1 \in 0..n, k \in P
      PROVE  k + 1 \in P
  <2>1. k + 1 \in 1..n /\ (k + 1) - 1 = k /\ k + 1 # 0 /\ f[k] = e[k]
    BY <1>5
  <2>2. f[k + 1] = IF f[k] # 0 /\ f[k] + HeaderSize(TRUE) <= n /\ End(file, f[k]) <= n
                   THEN End(file, f[k]) ELSE 0
    <3> HIDE DEF opens
    <3> QED
      BY <1>3, <1>5, <2>1 DEF Positions
  <2>3. e[k + 1] = IF e[k] # 0 /\ e[k] + 32 <= n /\ End(file, e[k]) <= n
                   THEN End(file, e[k]) ELSE 0
    BY <2>1 DEF Follows
  <2>4. f[k + 1] = e[k + 1]
    BY <2>1, <2>2, <2>3, Layout
  <2> QED
    BY <1>5, <2>4
<1>6. \A k \in 0..n : f[k] = e[k]
  <2> HIDE DEF P
  <2>1. \A k \in 0..n : k \in P
    BY <1>4, <1>5, Loops!Induct
  <2> QED
    BY <2>1 DEF P
<1>7. {k \in 1..n : f[k] # 0} = {k \in 1..n : e[k] # 0}
  BY <1>6
<1>8. \A k \in 1..n : f[k - 1] = e[k - 1]
  BY <1>6
<1> DEFINE D == {k \in 1..n : e[k] # 0}
<1>9. [k \in D |-> Read(file, f[k - 1])] = [k \in D |-> Read(file, e[k - 1])]
  BY <1>8
<1> QED
  BY <1>1, <1>7, <1>9 DEF ReadOff

\* A record that begins after byte from of a file, as much of it as is there: its header
\* says where it ends, and the whole of it gives the frame back.
LEMMA ReadIs ==
  ASSUME NEW Byte, NEW f \in FramesOf(Byte), NEW file, Len(file) \in Nat, NEW from \in Nat,
         \A i \in 1..(32 + Len(f.Payload)) :
             from + i <= Len(file) => file[from + i] = Record(f)[i]
  PROVE  /\ from + 32 <= Len(file) => End(file, from) = from + 32 + Len(f.Payload)
         /\ from + 32 + Len(f.Payload) <= Len(file) => Read(file, from) = f
<1> DEFINE p == Len(f.Payload)
           n == Len(file)
<1>1. p \in Nat /\ n \in Nat
  BY LenProperties DEF FramesOf
<1>2. /\ Record(f)[1][1] = f.Proto /\ Record(f)[9][1] = f.Tag /\ Record(f)[17][1] = f.Ts_ns
      /\ Record(f)[25][1] = p
      /\ \A i \in 1..p : Record(f)[32 + i] = f.Payload[i]
  BY RecordHolds DEF Holds
<1> HIDE DEF p, n
<1>3. \A i \in 1..(32 + p) : from + i <= n => file[from + i] = Record(f)[i]
  BY DEF p, n
<1>4. ASSUME from + 32 <= n
      PROVE  End(file, from) = from + 32 + p
  <2>1. 25 \in 1..(32 + p) /\ from + 25 <= n /\ from + 24 + 1 = from + 25
    BY <1>1, <1>4
  <2>2. file[from + 25] = Record(f)[25]
    BY <1>3, <2>1
  <2> QED
    BY <1>2, <2>1, <2>2, FieldIs
<1>5. ASSUME from + 32 + p <= n
      PROVE  Read(file, from) = f
  <2>1. from + 32 <= n
    BY <1>1, <1>5
  <2>2. End(file, from) = from + 32 + p
    BY <1>4, <2>1
  <2>3. /\ 1 \in 1..(32 + p) /\ from + 1 <= n /\ from + 0 + 1 = from + 1
        /\ 9 \in 1..(32 + p) /\ from + 9 <= n /\ from + 8 + 1 = from + 9
        /\ 17 \in 1..(32 + p) /\ from + 17 <= n /\ from + 16 + 1 = from + 17
    BY <1>1, <2>1
  <2>4. /\ Field(file, from, "Proto") = file[from + 0 + 1][1]
        /\ Field(file, from, "Tag") = file[from + 8 + 1][1]
        /\ Field(file, from, "Ts_ns") = file[from + 16 + 1][1]
    BY FieldIs
  <2>5. Field(file, from, "Proto") = f.Proto
    <3>1. file[from + 1] = Record(f)[1]
      BY <1>3, <2>3
    <3> QED
      BY <1>2, <2>3, <2>4, <3>1
  <2>6. Field(file, from, "Tag") = f.Tag
    <3>1. file[from + 9] = Record(f)[9]
      BY <1>3, <2>3
    <3> QED
      BY <1>2, <2>3, <2>4, <3>1
  <2>7. Field(file, from, "Ts_ns") = f.Ts_ns
    <3>1. file[from + 17] = Record(f)[17]
      BY <1>3, <2>3
    <3> QED
      BY <1>2, <2>3, <2>4, <3>1
  <2>8. SubSeq(file, from + 32 + 1, from + 32 + p) = f.Payload
    <3> DEFINE s == SubSeq(file, from + 32 + 1, from + 32 + p)
    <3>1. f.Payload \in Seq(Byte)
      BY DEF FramesOf
    <3>2. \A i \in 1..p : file[from + 32 + i] = f.Payload[i] /\ f.Payload[i] \in Byte
      <4> TAKE i \in 1..p
      <4>1. 32 + i \in 1..(32 + p) /\ from + (32 + i) <= n /\ from + (32 + i) = from + 32 + i
        BY <1>1, <1>5
      <4>2. file[from + (32 + i)] = Record(f)[32 + i]
        BY <1>3, <4>1
      <4>3. f.Payload[i] \in Byte
        BY <3>1, ElementOfSeq DEF p
      <4> QED
        BY <1>2, <4>1, <4>2, <4>3
    <3>3. \A j \in (from + 32 + 1)..(from + 32 + p) : file[j] \in Byte
      <4> TAKE j \in (from + 32 + 1)..(from + 32 + p)
      <4>1. j - (from + 32) \in 1..p /\ from + 32 + (j - (from + 32)) = j
        BY <1>1
      <4> QED
        BY <3>2, <4>1
    <3>4. PICK a, b : a = from + 32 + 1 /\ b = from + 32 + p
      OBVIOUS
    <3>5. a \in Int /\ b \in Int /\ \A j \in a..b : file[j] \in Byte
      BY <1>1, <3>3, <3>4
    <3>6. /\ SubSeq(file, a, b) \in Seq(Byte)
          /\ Len(SubSeq(file, a, b)) = IF a <= b THEN b - a + 1 ELSE 0
          /\ \A i \in 1..(b - a + 1) : SubSeq(file, a, b)[i] = file[a + i - 1]
      BY <3>5, SubSeqProperties
    <3>7. Len(SubSeq(file, a, b)) = p
      <4>1. (IF a <= b THEN b - a + 1 ELSE 0) = p
        BY <1>1, <3>4
      <4> QED
        BY <3>6, <4>1
    <3>8. \A i \in 1..p : SubSeq(file, a, b)[i] = f.Payload[i]
      <4> TAKE i \in 1..p
      <4>1. i \in 1..(b - a + 1) /\ a + i - 1 = from + 32 + i
        BY <1>1, <3>4
      <4> QED
        BY <3>2, <3>6, <4>1
    <3>9. SubSeq(file, a, b) = f.Payload
      <4>1. PICK t : t = SubSeq(file, a, b)
        OBVIOUS
      <4>2. t \in Seq(Byte) /\ Len(t) = Len(f.Payload) /\ \A i \in 1..Len(t) : t[i] = f.Payload[i]
        BY <3>6, <3>7, <3>8, <4>1 DEF p
      <4> QED
        BY <3>1, <4>1, <4>2, SeqEqual
    <3> QED
      BY <3>4, <3>9
  <2>9. Read(file, from) = [Proto |-> f.Proto, Tag |-> f.Tag, Ts_ns |-> f.Ts_ns,
                            Payload |-> f.Payload]
    BY <2>2, <2>5, <2>6, <2>7, <2>8, Layout DEF Read
  <2> QED
    BY <2>9 DEF FramesOf
<1> QED
  BY <1>4, <1>5 DEF p, n

\* A set of naturals with a bound has a greatest element.
LEMMA Greatest ==
  ASSUME NEW n \in Nat, NEW T \in SUBSET (0..n), T # {}
  PROVE  \E k \in T : \A j \in T : j <= k
<1> DEFINE U == {n - k : k \in T}
<1>1. U \subseteq Nat /\ U # {}
  <2>1. \A k \in T : n - k \in Nat
    OBVIOUS
  <2>2. U \subseteq Nat
    BY <2>1
  <2>3. PICK k \in T : TRUE
    OBVIOUS
  <2>4. n - k \in U
    OBVIOUS
  <2> QED
    BY <2>2, <2>4
<1>2. PICK u \in U : \A v \in U : u <= v
  <2> HIDE DEF U
  <2> QED
    BY <1>1, Loops!Least
<1>3. PICK k \in T : u = n - k
  BY <1>2
<1>4. ASSUME NEW j \in T
      PROVE  j <= k
  <2>1. n - j \in U
    OBVIOUS
  <2>2. n - k <= n - j
    BY <1>2, <1>3, <2>1
  <2> QED
    BY <2>2
<1> QED
  BY <1>4

\* A later record begins later, by a byte at least for every record before it.
LEMMA Rising ==
  ASSUME NEW n \in Nat, NEW p, NEW pos, Divides(pos, p, n),
         NEW k \in 0..n, NEW m \in k..n
  PROVE  pos[k] <= pos[m] /\ pos[m] >= 16 + m
<1> DEFINE P == {j \in 0..n : pos[j] >= 16 + j /\ (k <= j => pos[k] <= pos[j])}
<1> pos \in [0..n -> Nat] /\ p \in [1..n -> Nat]
  BY DEF Divides
<1>1. 0 \in P
  BY DEF Divides
<1>2. ASSUME NEW j \in 0..n, j + 1 \in 0..n, j \in P
      PROVE  j + 1 \in P
  <2>1. j + 1 \in 1..n /\ (j + 1) - 1 = j
    BY <1>2
  <2>2. pos[j + 1] = pos[j] + 32 + p[j + 1] /\ p[j + 1] \in Nat
    BY <2>1 DEF Divides
  <2>3. pos[j] >= 16 + j /\ (k <= j => pos[k] <= pos[j]) /\ pos[j] \in Nat /\ pos[j + 1] \in Nat
        /\ pos[k] \in Nat
    BY <1>2
  <2>4. CASE k = j + 1
    BY <1>2, <2>2, <2>3, <2>4
  <2>5. CASE k # j + 1
    BY <1>2, <2>2, <2>3, <2>5
  <2> QED
    BY <2>4, <2>5
<1>3. \A j \in 0..n : j \in P
  <2> HIDE DEF P
  <2> QED
    BY <1>1, <1>2, Loops!Induct
<1> QED
  BY <1>3

\* So many records take so many bytes.
LEMMA Above ==
  ASSUME NEW n \in Nat, NEW p, NEW pos, Divides(pos, p, n),
         NEW m \in 0..n
  PROVE  pos[m] >= 16 + m
<1>1. m \in m..n
  OBVIOUS
<1> QED
  BY <1>1, Rising

\* The m-th record is the last that ends by the cut.
LastWhole(m, pos, n, cut) ==
    /\ m \in 0..n /\ cut \in Nat /\ cut <= pos[n]
    /\ pos[m] <= cut /\ (m # n => pos[m + 1] > cut)
\* A header that is whole says where its record ends.
Ends(file, pos, n, cut) == \A k \in 1..n : pos[k - 1] + 32 <= cut => End(file, pos[k - 1]) = pos[k]

\* So the reader goes from record to record, and fails after the m-th.
Goes(e, file, cut, m, pos) ==
    /\ Follows(e, file, cut) /\ {k \in 1..cut : e[k] # 0} = 1..m
    /\ \A k \in 1..m : e[k - 1] = pos[k - 1]
LEMMA Steps ==
  ASSUME NEW n \in Nat, NEW p, NEW pos, Divides(pos, p, n),
         NEW cut, NEW m, LastWhole(m, pos, n, cut), NEW file, Opens(file), Ends(file, pos, n, cut)
  PROVE  \E e : Goes(e, file, cut, m, pos)
<1> /\ pos \in [0..n -> Nat] /\ p \in [1..n -> Nat] /\ m \in 0..n /\ cut \in Nat /\ cut <= pos[n]
  BY DEF Divides, LastWhole
<1> DEFINE e == [k \in 0..cut |-> IF k <= m THEN pos[k] ELSE 0]
<1>1. \A k \in 0..cut : e[k] = IF k <= m THEN pos[k] ELSE 0
  OBVIOUS
<1> HIDE DEF e
<1>2. m <= cut
  <2>1. pos[m] >= 16 + m
    BY Above
  <2> QED
    BY <2>1 DEF LastWhole
<1>3. ASSUME NEW k \in 0..m
      PROVE  pos[k] <= cut /\ pos[k] # 0
  <2>1. k \in 0..n /\ m \in k..n /\ k \in k..n
    OBVIOUS
  <2>2. pos[k] <= pos[m] /\ pos[k] >= 16 + k
    BY <2>1, Rising
  <2>3. pos[k] \in Nat /\ pos[m] \in Nat
    BY <2>1
  <2> QED
    BY <2>2, <2>3 DEF LastWhole
<1>4. e[0] = 16
  BY <1>1 DEF Divides
<1>5. ASSUME NEW k \in 1..cut
      PROVE  e[k] = IF e[k - 1] # 0 /\ e[k - 1] + 32 <= cut /\ End(file, e[k - 1]) <= cut
                    THEN End(file, e[k - 1]) ELSE 0
  <2>1. k \in 0..cut /\ k - 1 \in 0..cut
    OBVIOUS
  <2>2. /\ e[k] = IF k <= m THEN pos[k] ELSE 0
        /\ e[k - 1] = IF k - 1 <= m THEN pos[k - 1] ELSE 0
    BY <1>1, <2>1
  <2>3. CASE k <= m
    <3>1. k \in 1..n /\ k \in 0..m /\ k - 1 <= m /\ k - 1 \in 0..m /\ k - 1 \in 0..n
      BY <2>3
    <3>2. pos[k] <= cut /\ pos[k - 1] # 0
      BY <1>3, <3>1
    <3>3. pos[k] = pos[k - 1] + 32 + p[k] /\ p[k] \in Nat /\ pos[k - 1] \in Nat
      BY <3>1 DEF Divides
    <3>4. pos[k - 1] + 32 <= cut
      BY <3>2, <3>3
    <3>5. End(file, pos[k - 1]) = pos[k]
      BY <3>1, <3>4 DEF Ends
    <3>6. e[k] = pos[k] /\ e[k - 1] = pos[k - 1]
      BY <2>2, <2>3, <3>1
    <3> QED
      BY <3>2, <3>4, <3>5, <3>6
  <2>4. CASE k = m + 1
    <3>1. e[k] = 0 /\ e[k - 1] = pos[m] /\ k - 1 = m /\ pos[m] \in Nat
      BY <2>2, <2>4
    <3>2. CASE m = n
      <4>1. ~(pos[m] + 32 <= cut)
        BY <3>1, <3>2
      <4> QED
        BY <3>1, <4>1
    <3>3. CASE m # n
      <4>1. k \in 1..n /\ pos[k] > cut /\ pos[k] \in Nat
        BY <2>4, <3>3 DEF LastWhole
      <4>2. pos[m] + 32 <= cut => End(file, pos[m]) = pos[k]
        BY <3>1, <4>1 DEF Ends
      <4>3. ~(pos[k] <= cut)
        BY <4>1
      <4> QED
        BY <3>1, <4>2, <4>3
    <3> QED
      BY <3>2, <3>3
  <2>5. CASE k > m + 1
    <3>1. e[k] = 0 /\ e[k - 1] = 0
      BY <2>2, <2>5
    <3> QED
      BY <3>1
  <2> QED
    BY <2>3, <2>4, <2>5
<1>6. Follows(e, file, cut)
  BY <1>4, <1>5 DEF Follows
<1>7. {k \in 1..cut : e[k] # 0} = 1..m
  <2>1. ASSUME NEW k \in 1..cut
        PROVE  e[k] # 0 <=> k \in 1..m
    <3>1. e[k] = IF k <= m THEN pos[k] ELSE 0
      BY <1>1
    <3>2. k <= m => pos[k] # 0
      BY <1>3
    <3> QED
      BY <3>1, <3>2
  <2>2. 1..m \subseteq 1..cut
    BY <1>2
  <2> QED
    BY <2>1, <2>2
<1>8. \A k \in 1..m : e[k - 1] = pos[k - 1]
  BY <1>1, <1>2
<1>9. Goes(e, file, cut, m, pos)
  BY <1>6, <1>7, <1>8 DEF Goes
<1> QED
  BY <1>9

\* A recording that frames make, and how it is divided.
Divided(whole, frames, Byte, X, n, p, pos) ==
    /\ frames \in Seq(FramesOf(Byte)) /\ n \in Nat /\ Len(frames) = n /\ whole \in Seq(X)
    /\ Divides(pos, p, n) /\ Filled(whole, frames, pos, p, n)

\* The file is cut at a place, and the first m records are those that are whole before it.
LEMMA CutReplays ==
  ASSUME NEW whole, NEW frames, NEW Byte, NEW X, NEW n, NEW p, NEW pos,
         Divided(whole, frames, Byte, X, n, p, pos),
         NEW cut, NEW m, LastWhole(m, pos, n, cut), cut >= 16
  PROVE  Replayed(SubSeq(whole, 1, cut)) = SubSeq(frames, 1, m)
<1> /\ frames \in Seq(FramesOf(Byte)) /\ n \in Nat /\ Len(frames) = n /\ whole \in Seq(X)
    /\ Divides(pos, p, n) /\ Filled(whole, frames, pos, p, n)
  BY DEF Divided
<1> /\ pos \in [0..n -> Nat] /\ p \in [1..n -> Nat] /\ m \in 0..n /\ cut \in Nat /\ cut <= pos[n]
  BY DEF Divides, LastWhole
<1>1. PICK file : file = SubSeq(whole, 1, cut)
  OBVIOUS
<1>2. Len(file) = cut /\ \A i \in 1..cut : file[i] = whole[i]
  <2>1. cut \in 0..Len(whole)
    BY DEF Filled
  <2> QED
    BY <1>1, <2>1, FirstPart
<1>3. Opens(file)
  <2>1. \A i \in 1..16 : file[i] = FileHeader[i]
    <3>1. \A i \in 1..16 : i \in 1..cut
      OBVIOUS
    <3> QED
      BY <1>2, <3>1 DEF Filled
  <2>2. PICK t : t = SubSeq(file, 1, 16)
    OBVIOUS
  <2>3. file \in Seq(X) /\ 16 \in 0..Len(file)
    <3>1. cut \in 0..Len(whole)
      BY DEF Filled
    <3>2. file \in Seq(X)
      BY <1>1, <3>1, FirstPart
    <3> QED
      BY <1>2, <3>2
  <2>4. t = [i \in 1..16 |-> file[i]]
    BY <2>2, <2>3, FirstPart
  <2>5. FileHeader = [i \in 1..16 |-> FileHeader[i]]
    BY DEF FileHeader
  <2>6. t = FileHeader
    BY <2>1, <2>4, <2>5
  <2> QED
    BY <1>2, <2>2, <2>6 DEF Opens
<1>4. ASSUME NEW k \in 1..n
      PROVE  /\ pos[k - 1] + 32 <= cut => End(file, pos[k - 1]) = pos[k]
             /\ pos[k] <= cut => Read(file, pos[k - 1]) = frames[k]
  <2>1. PICK from, f, l : from = pos[k - 1] /\ f = frames[k] /\ l = Len(f.Payload)
    OBVIOUS
  <2>2. from \in Nat /\ f \in FramesOf(Byte)
    <3>1. k - 1 \in 0..n
      OBVIOUS
    <3>2. frames[k] \in FramesOf(Byte)
      BY ElementOfSeq
    <3> QED
      BY <2>1, <3>1, <3>2
  <2>3. p[k] = l /\ l \in Nat /\ pos[k] = from + 32 + l
    <3>1. p[k] = Len(frames[k].Payload)
      BY DEF Filled
    <3>2. pos[k] = pos[k - 1] + 32 + p[k] /\ p[k] \in Nat
      BY DEF Divides
    <3> QED
      BY <2>1, <3>1, <3>2
  <2>4. \A i \in 1..(32 + l) : whole[from + i] = Record(f)[i]
    BY <2>1, <2>3 DEF Filled
  <2>5. \A i \in 1..(32 + l) : from + i <= cut => file[from + i] = Record(f)[i]
    <3> TAKE i \in 1..(32 + l)
    <3> HAVE from + i <= cut
    <3>1. from + i \in 1..cut
      BY <2>2, <2>3
    <3> QED
      BY <1>2, <2>4, <3>1
  <2>6. /\ from + 32 <= cut => End(file, from) = from + 32 + l
        /\ from + 32 + l <= cut => Read(file, from) = f
    <3>1. Len(file) \in Nat
      BY <1>2
    <3>2. \A i \in 1..(32 + Len(f.Payload)) : from + i <= Len(file) => file[from + i] = Record(f)[i]
      BY <1>2, <2>1, <2>5
    <3>3. /\ from + 32 <= Len(file) => End(file, from) = from + 32 + Len(f.Payload)
          /\ from + 32 + Len(f.Payload) <= Len(file) => Read(file, from) = f
      BY <2>2, <3>1, <3>2, ReadIs
    <3> QED
      BY <1>2, <2>1, <3>3
  <2> QED
    BY <2>1, <2>3, <2>6
<1>5. Ends(file, pos, n, cut)
  BY <1>4 DEF Ends
<1>6. PICK e : /\ Follows(e, file, cut) /\ {k \in 1..cut : e[k] # 0} = 1..m
               /\ \A k \in 1..m : e[k - 1] = pos[k - 1]
  <2>1. \E e : Goes(e, file, cut, m, pos)
    BY <1>3, <1>5, Steps
  <2> QED
    BY <2>1 DEF Goes
<1>7. Replayed(file) = ReadOff(e, file, cut)
  <2>1. Len(file) = cut
    BY <1>2
  <2>2. Follows(e, file, cut)
    BY <1>6
  <2> QED
    BY <2>1, <2>2, ReplayedIs
<1>8. ASSUME NEW k \in 1..m
      PROVE  Read(file, e[k - 1]) = frames[k]
  <2>1. k \in 1..n /\ k \in 0..n /\ m \in k..n
    OBVIOUS
  <2>2. pos[k] <= pos[m]
    BY <2>1, Rising
  <2>3. pos[k] <= cut
    <3>1. pos[k] \in Nat /\ pos[m] \in Nat
      BY <2>1
    <3> QED
      BY <2>2, <3>1 DEF LastWhole
  <2> QED
    BY <1>4, <1>6, <2>1, <2>3
<1>9. Replayed(file) = [k \in 1..m |-> frames[k]]
  BY <1>6, <1>7, <1>8 DEF ReadOff
<1>10. SubSeq(frames, 1, m) = [k \in 1..m |-> frames[k]]
  BY FirstPart
<1> QED
  BY <1>1, <1>9, <1>10

\* A recording that ends anywhere, within its header, a record's header or a payload, is
\* replayed as the frames whose records are whole in it: none is lost before the end, and
\* none comes of what is left of the last (recorder.cpp, Recorder and Replayer).
THEOREM CutFileReplaysWhole ==
  ASSUME NEW Byte, NEW frames \in Seq(FramesOf(Byte))
  PROVE  CutReplaysWhole(frames)
<1>1. PICK n \in Nat : Len(frames) = n
  BY LenProperties
<1>2. PICK p, pos, X :
             /\ Divides(pos, p, n) /\ Filled(Recorded(frames), frames, pos, p, n)
             /\ \A m \in 0..n : Len(Recorded(SubSeq(frames, 1, m))) = pos[m]
             /\ Recorded(frames) \in Seq(X)
  BY <1>1, RecordedIs
<1>3. PICK whole : whole = Recorded(frames)
  OBVIOUS
<1>4. whole \in Seq(X) /\ Filled(whole, frames, pos, p, n) /\ Len(whole) = pos[n]
  BY <1>2, <1>3 DEF Filled
<1> pos \in [0..n -> Nat] /\ p \in [1..n -> Nat]
  BY <1>2 DEF Divides
<1> SUFFICES ASSUME NEW cut \in 0..pos[n]
             PROVE  \E k \in Whole(frames, cut) :
                        /\ \A j \in Whole(frames, cut) : j <= k
                        /\ Replayed(SubSeq(whole, 1, cut)) = SubSeq(frames, 1, k)
  BY <1>3, <1>4 DEF CutReplaysWhole
<1>5. cut \in Nat /\ cut <= pos[n] /\ pos[n] \in Nat
  OBVIOUS
<1>6. Whole(frames, cut) = {k \in 0..n : k = 0 \/ pos[k] <= cut}
  BY <1>1, <1>2 DEF Whole
<1>7. PICK m \in Whole(frames, cut) : \A j \in Whole(frames, cut) : j <= m
  <2>1. Whole(frames, cut) \in SUBSET (0..n) /\ 0 \in Whole(frames, cut)
    BY <1>6
  <2> QED
    BY <2>1, Greatest
<1>8. PICK file : file = SubSeq(whole, 1, cut)
  OBVIOUS
<1>9. CASE cut >= 16
  <2>1. m \in 0..n /\ pos[m] <= cut
    BY <1>2, <1>6, <1>7, <1>9 DEF Divides
  <2>2. ASSUME m # n
        PROVE  pos[m + 1] > cut
    <3>1. m + 1 \in 0..n /\ ~(m + 1 <= m)
      BY <2>1, <2>2
    <3>2. m + 1 \notin Whole(frames, cut)
      BY <1>7, <3>1
    <3>3. ~(pos[m + 1] <= cut) /\ pos[m + 1] \in Nat
      BY <1>6, <3>1, <3>2
    <3> QED
      BY <3>3
  <2>3. LastWhole(m, pos, n, cut)
    BY <2>1, <2>2 DEF LastWhole
  <2>4. Divided(whole, frames, Byte, X, n, p, pos)
    BY <1>1, <1>2, <1>4 DEF Divided
  <2>5. Replayed(SubSeq(whole, 1, cut)) = SubSeq(frames, 1, m)
    BY <1>9, <2>3, <2>4, CutReplays
  <2> QED
    BY <1>7, <2>5
<1>10. CASE cut < 16
  <2>1. m = 0
    <3>1. m \in 0..n /\ (m = 0 \/ pos[m] <= cut)
      BY <1>6, <1>7
    <3>2. pos[m] >= 16 + m
      BY <1>2, <3>1, Above
    <3> QED
      BY <1>10, <3>1, <3>2
  <2>2. Len(file) = cut
    <3>1. cut \in 0..Len(whole)
      BY <1>4
    <3> QED
      BY <1>4, <1>8, <3>1, FirstPart
  <2>3. ~Opens(file)
    BY <1>5, <1>10, <2>2 DEF Opens
  <2>4. PICK e : e = [k \in 0..cut |-> 0]
    OBVIOUS
  <2>5. \A k \in 0..cut : e[k] = 0
    BY <2>4
  <2>6. \A k \in 1..cut : e[k] = 0 /\ e[k - 1] = 0
    BY <2>5
  <2>7. Follows(e, file, cut)
    BY <1>5, <2>3, <2>5, <2>6 DEF Follows
  <2>8. Replayed(file) = ReadOff(e, file, cut)
    BY <1>5, <2>2, <2>7, ReplayedIs
  <2>9. {k \in 1..cut : e[k] # 0} = {}
    BY <2>6
  <2>10. Replayed(file) = <<>>
    <3>1. PICK D : D = {k \in 1..cut : e[k] # 0}
      OBVIOUS
    <3>2. Replayed(file) = [k \in D |-> Read(file, e[k - 1])] /\ D = {}
      BY <2>8, <2>9, <3>1 DEF ReadOff
    <3>3. [k \in {} |-> Read(file, e[k - 1])] = <<>>
      OBVIOUS
    <3> QED
      BY <3>2, <3>3
  <2>11. SubSeq(frames, 1, m) = <<>>
    BY <2>1, SubSeqEmpty
  <2> QED
    BY <1>7, <1>8, <2>10, <2>11
<1>11. cut >= 16 \/ cut < 16
  BY <1>5
<1> QED
  BY <1>9, <1>10, <1>11
=============================================================================
