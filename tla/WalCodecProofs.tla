--------------------------- MODULE WalCodecProofs ---------------------------
(***************************************************************************)
(* Proofs about module WalCodec: what the decoder makes of a damaged or    *)
(* unfinished segment, for every set of payloads and every number of       *)
(* records.                                                                *)
(***************************************************************************)
EXTENDS WalCodec, TLAPS, SequenceTheorems, WellFoundedInduction

Cells == Nat \cup Seq(Nat)      \* a number, or a crc

\* Cells of record j of w.
SpanOf(w, j) == HeaderSize + Len(w[j].payload)

(***************************************************************************)
(* A segment is the encoded records, cut somewhere or not, with at most    *)
(* one cell changed: the one after the intact ones.                        *)
(***************************************************************************)
AsWritten ==
  \A j \in 1 .. Len(written) : \A i \in 1 .. SpanOf(written, j) :
    LET x == Extent(j - 1) + i
    IN  x <= Len(buf) => (buf[x] = Encode(written[j])[i] <=> x # intact + 1)

IInv ==
  /\ written \in Seq(Record) /\ buf \in Seq(Cells) /\ intact \in 0 .. Len(buf)
  /\ Len(buf) <= Extent(Len(written))
  /\ Len(buf) = Extent(Len(written)) \/ intact = Len(buf)
  /\ ~ damaged => Len(buf) = Extent(Len(written)) /\ intact = Len(buf)
  /\ AsWritten
-----------------------------------------------------------------------------
(* Induction, with the set of the numbers that have the property in place  *)
(* of the property.                                                        *)

LEMMA Least ==
  ASSUME NEW S \in SUBSET Nat, S # {}
  PROVE  \E x \in S : \A y \in S : x <= y
<1>1. PICK x \in S : \A y \in S : ~ (<<y, x>> \in OpToRel(<, Nat))
  BY NatLessThanWellFounded, WFMin
<1>2. \A y \in S : ~ (y < x)
  BY <1>1 DEF OpToRel
<1>3. \A y \in S : x <= y
  BY <1>2
<1> QED BY <1>3

LEMMA Induction ==
  ASSUME NEW S \in SUBSET Nat, 0 \in S, \A m \in Nat : m \in S => m + 1 \in S
  PROVE  \A m \in Nat : m \in S
<1> SUFFICES ASSUME Nat \ S # {} PROVE FALSE
  OBVIOUS
<1>1. PICK m \in Nat \ S : \A k \in Nat \ S : m <= k
  BY Least
<1>2. m - 1 \in Nat /\ ~ (m <= m - 1)
  BY <1>1
<1>3. m - 1 \in S
  BY <1>1, <1>2
<1>4. (m - 1) + 1 \in S
  BY <1>2, <1>3
<1> QED BY <1>4

-----------------------------------------------------------------------------
(* The crc, and an encoded record.                                         *)

LEMMA CrcOfIs ==
  ASSUME NEW S, NEW s \in Seq(S), Len(s) >= HeaderSize
  PROVE  /\ CrcOf(s) \in Seq(S)
         /\ Len(CrcOf(s)) = Len(s) - 1
         /\ \A i \in 1 .. Len(s) - 1 : CrcOf(s)[i] = IF i <= 3 THEN s[i] ELSE s[i + 1]
<1>1. Len(s) \in Nat /\ Len(s) >= 8 /\ \A i \in 1 .. Len(s) : s[i] \in S
  BY LenProperties, ElementOfSeq DEF HeaderSize
<1> DEFINE a == SubSeq(s, 1, 3)
           z == SubSeq(s, 5, Len(s))
<1>2. /\ a \in Seq(S) /\ Len(a) = 3
      /\ \A i \in 1 .. 3 : a[i] = s[i]
  <2>1. \A i \in 1 .. 3 : s[i] \in S
    BY <1>1
  <2>2. /\ a \in Seq(S)
        /\ Len(a) = IF 1 <= 3 THEN 3 - 1 + 1 ELSE 0
        /\ \A i \in 1 .. 3 - 1 + 1 : a[i] = s[1 + i - 1]
    BY <2>1, SubSeqProperties
  <2> HIDE DEF a
  <2>3. \A i \in 1 .. 3 : i \in 1 .. 3 - 1 + 1 /\ 1 + i - 1 = i
    OBVIOUS
  <2>4. \A i \in 1 .. 3 : a[i] = s[i]
    BY <2>2, <2>3
  <2> QED BY <2>2, <2>4
<1>3. /\ z \in Seq(S) /\ Len(z) = Len(s) - 4
      /\ \A i \in 1 .. Len(s) - 4 : z[i] = s[i + 4]
  <2>1. \A i \in 5 .. Len(s) : s[i] \in S
    BY <1>1
  <2>2. /\ z \in Seq(S)
        /\ Len(z) = IF 5 <= Len(s) THEN Len(s) - 5 + 1 ELSE 0
        /\ \A i \in 1 .. Len(s) - 5 + 1 : z[i] = s[5 + i - 1]
    BY <1>1, <2>1, SubSeqProperties
  <2> HIDE DEF z
  <2>3. \A i \in 1 .. Len(s) - 4 : i \in 1 .. Len(s) - 5 + 1 /\ 5 + i - 1 = i + 4
    BY <1>1
  <2>4. \A i \in 1 .. Len(s) - 4 : z[i] = s[i + 4]
    BY <2>2, <2>3
  <2>5. Len(z) = Len(s) - 4
    BY <1>1, <2>2
  <2> QED BY <2>2, <2>4, <2>5
<1>4. CrcOf(s) = a \o z
  BY DEF CrcOf
<1> HIDE DEF a, z
<1>5. /\ a \o z \in Seq(S)
      /\ Len(a \o z) = Len(a) + Len(z)
      /\ \A i \in 1 .. Len(a) + Len(z) : (a \o z)[i] = IF i <= Len(a) THEN a[i] ELSE z[i - Len(a)]
  BY <1>2, <1>3, ConcatProperties
<1>6. Len(a) + Len(z) = Len(s) - 1
  BY <1>1, <1>2, <1>3
<1>7. ASSUME NEW i \in 1 .. Len(s) - 1
      PROVE  (a \o z)[i] = IF i <= 3 THEN s[i] ELSE s[i + 1]
  <2>1. CASE i <= 3
    <3>1. i \in 1 .. 3
      BY <1>1, <2>1
    <3> QED BY <1>2, <1>5, <1>6, <2>1, <3>1
  <2>2. CASE ~ (i <= 3)
    <3>1. i - 3 \in 1 .. Len(s) - 4 /\ (i - 3) + 4 = i + 1
      BY <1>1, <2>2
    <3>2. z[i - 3] = s[i + 1]
      BY <1>3, <3>1
    <3> QED BY <1>2, <1>5, <1>6, <2>2, <3>2
  <2> QED BY <2>1, <2>2
<1> QED BY <1>4, <1>5, <1>6, <1>7

\* Cells that agree, but for the crc, have the same crc; and cells that have
\* the same crc agree, but for the crc.
LEMMA CrcOfDetermines ==
  ASSUME NEW s \in Seq(Cells), NEW t \in Seq(Cells),
         Len(s) >= HeaderSize, Len(t) >= HeaderSize
  PROVE  CrcOf(s) = CrcOf(t) <=>
           Len(s) = Len(t) /\ \A i \in 1 .. Len(s) : i # 4 => s[i] = t[i]
<1>1. Len(s) \in Nat /\ Len(t) \in Nat /\ Len(s) >= 8 /\ Len(t) >= 8
  BY LenProperties DEF HeaderSize
<1> DEFINE c == CrcOf(s)
           d == CrcOf(t)
<1>2. /\ c \in Seq(Cells) /\ Len(c) = Len(s) - 1
      /\ \A i \in 1 .. Len(s) - 1 : c[i] = IF i <= 3 THEN s[i] ELSE s[i + 1]
  BY CrcOfIs
<1>3. /\ d \in Seq(Cells) /\ Len(d) = Len(t) - 1
      /\ \A i \in 1 .. Len(t) - 1 : d[i] = IF i <= 3 THEN t[i] ELSE t[i + 1]
  BY CrcOfIs
<1> HIDE DEF c, d
<1>4. ASSUME c = d
      PROVE  Len(s) = Len(t) /\ \A i \in 1 .. Len(s) : i # 4 => s[i] = t[i]
  <2>1. Len(s) = Len(t)
    BY <1>1, <1>2, <1>3, <1>4
  <2>2. ASSUME NEW i \in 1 .. Len(s), i # 4 PROVE s[i] = t[i]
    <3>1. CASE i <= 3
      <4>1. i \in 1 .. Len(s) - 1
        BY <1>1, <3>1
      <4> QED BY <1>2, <1>3, <1>4, <2>1, <3>1, <4>1
    <3>2. CASE ~ (i <= 3)
      <4>1. i - 1 \in 1 .. Len(s) - 1 /\ ~ (i - 1 <= 3) /\ (i - 1) + 1 = i
        BY <1>1, <2>2, <3>2
      <4>2. c[i - 1] = s[i] /\ d[i - 1] = t[i]
        BY <1>2, <1>3, <2>1, <4>1
      <4> QED BY <1>4, <4>2
    <3> QED BY <3>1, <3>2
  <2> QED BY <2>1, <2>2
<1>5. ASSUME Len(s) = Len(t), \A i \in 1 .. Len(s) : i # 4 => s[i] = t[i]
      PROVE  c = d
  <2>1. ASSUME NEW i \in 1 .. Len(c) PROVE c[i] = d[i]
    <3>1. i \in 1 .. Len(s) - 1 /\ i \in 1 .. Len(s) /\ i + 1 \in 1 .. Len(s)
      BY <1>1, <1>2
    <3>2. CASE i <= 3
      <4>1. i # 4
        BY <3>2
      <4> QED BY <1>2, <1>3, <1>5, <3>1, <3>2, <4>1
    <3>3. CASE ~ (i <= 3)
      <4>1. i + 1 # 4
        BY <3>1, <3>3
      <4> QED BY <1>2, <1>3, <1>5, <3>1, <3>3, <4>1
    <3> QED BY <3>2, <3>3
  <2>2. Len(c) = Len(d)
    BY <1>2, <1>3, <1>5
  <2> QED BY <1>2, <1>3, <2>1, <2>2, SeqEqual
<1> QED BY <1>4, <1>5 DEF c, d

\* The fields of a record before its crc is filled in.
Blank(r) ==
  <<Magic, Version, r.tcp_flags, 0, r.body, IF r.degraded THEN 1 ELSE 0,
    Len(r.payload), r.orig>> \o r.payload

LEMMA RecordIs ==
  ASSUME NEW r \in Record
  PROVE  /\ r = [tcp_flags |-> r.tcp_flags, body |-> r.body, degraded |-> r.degraded,
                 truncated |-> r.truncated, orig |-> r.orig, payload |-> r.payload]
         /\ r.tcp_flags \in Nat /\ r.body \in Nat /\ r.degraded \in BOOLEAN
         /\ r.orig \in Nat /\ r.payload \in Seq(Nat) /\ Len(r.payload) \in Nat
         /\ r.truncated = (r.orig > Len(r.payload))
<1>1. /\ r \in [tcp_flags : TcpFlags, body : Bodies, degraded : BOOLEAN,
                truncated : BOOLEAN, orig : 0 .. MaxOrig, payload : Payloads]
      /\ r.truncated = (r.orig > Len(r.payload))
  BY DEF Record
<1>2. /\ r = [tcp_flags |-> r.tcp_flags, body |-> r.body, degraded |-> r.degraded,
              truncated |-> r.truncated, orig |-> r.orig, payload |-> r.payload]
      /\ r.tcp_flags \in TcpFlags /\ r.body \in Bodies /\ r.degraded \in BOOLEAN
      /\ r.orig \in 0 .. MaxOrig /\ r.payload \in Payloads
  BY <1>1
<1>3. r.tcp_flags \in Nat /\ r.body \in Nat /\ r.orig \in Nat /\ r.payload \in Seq(Nat)
  BY <1>2, WalCodecAssumption
<1>4. Len(r.payload) \in Nat
  BY <1>3, LenProperties
<1> QED BY <1>1, <1>2, <1>3, <1>4

LEMMA BlankIs ==
  ASSUME NEW r \in Record
  PROVE  /\ Blank(r) \in Seq(Nat)
         /\ Len(Blank(r)) = HeaderSize + Len(r.payload)
         /\ Blank(r)[1] = Magic /\ Blank(r)[2] = Version /\ Blank(r)[3] = r.tcp_flags
         /\ Blank(r)[5] = r.body /\ Blank(r)[6] = IF r.degraded THEN 1 ELSE 0
         /\ Blank(r)[7] = Len(r.payload) /\ Blank(r)[8] = r.orig
         /\ \A i \in 1 .. Len(r.payload) : Blank(r)[HeaderSize + i] = r.payload[i]
<1> DEFINE d == IF r.degraded THEN 1 ELSE 0
           n == Len(r.payload)
           h == <<Magic, Version, r.tcp_flags, 0, r.body, d, n, r.orig>>
<1>1. r.tcp_flags \in Nat /\ r.body \in Nat /\ r.orig \in Nat /\ r.payload \in Seq(Nat) /\ n \in Nat
  BY RecordIs
<1>2. d \in Nat /\ Magic \in Nat /\ Version \in Nat
  BY DEF Magic, Version
<1> HIDE DEF d, n
<1>3. h \in Seq(Nat) /\ Len(h) = 8
  BY <1>1, <1>2
<1>4. /\ h[1] = Magic /\ h[2] = Version /\ h[3] = r.tcp_flags /\ h[5] = r.body
      /\ h[6] = d /\ h[7] = n /\ h[8] = r.orig
  OBVIOUS
<1> HIDE DEF h
<1>5. /\ h \o r.payload \in Seq(Nat)
      /\ Len(h \o r.payload) = Len(h) + Len(r.payload)
      /\ \A i \in 1 .. Len(h) + Len(r.payload) :
           (h \o r.payload)[i] = IF i <= Len(h) THEN h[i] ELSE r.payload[i - Len(h)]
  BY <1>1, <1>3, ConcatProperties
<1>6. Blank(r) = h \o r.payload
  BY DEF Blank, h, d, n
<1>7. /\ Blank(r) \in Seq(Nat) /\ Len(Blank(r)) = 8 + n
      /\ \A i \in 1 .. 8 + n : Blank(r)[i] = IF i <= 8 THEN h[i] ELSE r.payload[i - 8]
  BY <1>3, <1>5, <1>6 DEF n
<1>8. \A i \in 1 .. 8 : Blank(r)[i] = h[i]
  BY <1>1, <1>7
<1>9. ASSUME NEW i \in 1 .. n PROVE Blank(r)[8 + i] = r.payload[i]
  <2>1. 8 + i \in 1 .. 8 + n /\ ~ (8 + i <= 8) /\ (8 + i) - 8 = i
    BY <1>1
  <2> QED BY <1>7, <2>1
<1>10. /\ Blank(r)[1] = h[1] /\ Blank(r)[2] = h[2] /\ Blank(r)[3] = h[3] /\ Blank(r)[5] = h[5]
       /\ Blank(r)[6] = h[6] /\ Blank(r)[7] = h[7] /\ Blank(r)[8] = h[8]
  BY <1>8
<1> QED BY <1>4, <1>7, <1>9, <1>10 DEF HeaderSize, n, d

\* encode: every cell a number but the crc, and the crc is that of the record.
LEMMA EncodeIs ==
  ASSUME NEW r \in Record
  PROVE  /\ Encode(r) \in Seq(Cells)
         /\ Len(Encode(r)) = HeaderSize + Len(r.payload)
         /\ Encode(r)[1] = Magic /\ Encode(r)[2] = Version /\ Encode(r)[3] = r.tcp_flags
         /\ Encode(r)[4] = CrcOf(Encode(r)) /\ Encode(r)[4] # <<>>
         /\ Encode(r)[5] = r.body /\ Encode(r)[6] = IF r.degraded THEN 1 ELSE 0
         /\ Encode(r)[7] = Len(r.payload) /\ Encode(r)[8] = r.orig
         /\ \A i \in 1 .. Len(r.payload) : Encode(r)[HeaderSize + i] = r.payload[i]
         /\ \A i \in 1 .. Len(Encode(r)) : i # 4 => Encode(r)[i] \in Nat
<1> DEFINE b == Blank(r)
           e == Encode(r)
           n == Len(r.payload)
<1>1. /\ b \in Seq(Nat) /\ Len(b) = 8 + n /\ n \in Nat
      /\ b[1] = Magic /\ b[2] = Version /\ b[3] = r.tcp_flags
      /\ b[5] = r.body /\ b[6] = IF r.degraded THEN 1 ELSE 0
      /\ b[7] = n /\ b[8] = r.orig
      /\ \A i \in 1 .. n : b[8 + i] = r.payload[i]
  BY BlankIs, RecordIs DEF HeaderSize
<1>2. e = [b EXCEPT ![4] = CrcOf(b)]
  BY DEF Encode, Blank
<1> HIDE DEF b, e, n
<1>3. b \in Seq(Cells) /\ 4 \in 1 .. Len(b)
  <2>1. Nat \subseteq Cells
    BY DEF Cells
  <2>2. b \in Seq(Cells)
    BY <1>1, <2>1, SeqMonotonic
  <2>3. 4 \in 1 .. Len(b)
    BY <1>1
  <2> QED BY <2>2, <2>3
<1>4. CrcOf(b) \in Seq(Nat) /\ Len(CrcOf(b)) = (8 + n) - 1
  BY <1>1, CrcOfIs DEF HeaderSize
<1>5. CrcOf(b) \in Cells
  BY <1>4 DEF Cells
<1>6. /\ e \in Seq(Cells) /\ Len(e) = Len(b)
      /\ \A j \in 1 .. Len(b) : e[j] = IF j = 4 THEN CrcOf(b) ELSE b[j]
  BY <1>2, <1>3, <1>5, ExceptSeq
<1>7. e[4] = CrcOf(b) /\ \A j \in 1 .. 8 + n : j # 4 => e[j] = b[j]
  BY <1>1, <1>3, <1>6
<1>8. CrcOf(e) = CrcOf(b)
  <2>1. Len(e) >= HeaderSize /\ Len(b) >= HeaderSize
    BY <1>1, <1>6 DEF HeaderSize
  <2>2. \A i \in 1 .. Len(e) : i # 4 => e[i] = b[i]
    BY <1>1, <1>6, <1>7
  <2> QED BY <1>3, <1>6, <2>1, <2>2, CrcOfDetermines
<1>9. CrcOf(b) # <<>>
  <2>1. Len(CrcOf(b)) # 0
    BY <1>1, <1>4
  <2>2. Len(<<>>) = 0
    BY EmptySeq
  <2> QED BY <2>1, <2>2
<1>10. \A i \in 1 .. n : e[8 + i] = r.payload[i]
  <2>1. \A i \in 1 .. n : 8 + i \in 1 .. 8 + n /\ 8 + i # 4
    BY <1>1
  <2> QED BY <1>1, <1>7, <2>1
<1>11. \A i \in 1 .. Len(e) : i # 4 => e[i] \in Nat
  <2>1. \A i \in 1 .. Len(b) : b[i] \in Nat
    BY <1>1, ElementOfSeq
  <2> QED BY <1>6, <2>1
<1>12. /\ e[1] = b[1] /\ e[2] = b[2] /\ e[3] = b[3] /\ e[5] = b[5]
       /\ e[6] = b[6] /\ e[7] = b[7] /\ e[8] = b[8]
  BY <1>1, <1>7
<1> QED BY <1>1, <1>6, <1>7, <1>8, <1>9, <1>10, <1>11, <1>12 DEF e, n, HeaderSize

-----------------------------------------------------------------------------
(* The decoder at one offset.                                              *)

Total(b, pos) == HeaderSize + b[pos + 7]

\* What try_decode finds in order, and the record it makes of the cells.
Sound(b, pos) ==
  /\ pos + HeaderSize <= Len(b)
  /\ b[pos + 1] = Magic /\ b[pos + 2] = Version /\ b[pos + 7] \in Nat
  /\ pos + Total(b, pos) <= Len(b)
  /\ CrcOf(SubSeq(b, pos + 1, pos + Total(b, pos))) = b[pos + 4]

RecordAt(b, pos) ==
  [tcp_flags |-> b[pos + 3], body |-> b[pos + 5], degraded |-> b[pos + 6] % 2 = 1,
   truncated |-> b[pos + 8] > b[pos + 7], orig |-> b[pos + 8],
   payload |-> SubSeq(b, pos + HeaderSize + 1, pos + Total(b, pos))]

\* A part of a buffer.
LEMMA PartIs ==
  ASSUME NEW b \in Seq(Cells), NEW p \in Nat, NEW m \in Nat, p + m <= Len(b)
  PROVE  /\ SubSeq(b, p + 1, p + m) \in Seq(Cells)
         /\ Len(SubSeq(b, p + 1, p + m)) = m
         /\ \A i \in 1 .. m : SubSeq(b, p + 1, p + m)[i] = b[p + i]
<1>1. Len(b) \in Nat /\ \A i \in 1 .. Len(b) : b[i] \in Cells
  BY LenProperties, ElementOfSeq
<1>2. \A i \in p + 1 .. p + m : b[i] \in Cells
  BY <1>1
<1> DEFINE z == SubSeq(b, p + 1, p + m)
<1>3. /\ z \in Seq(Cells)
      /\ Len(z) = IF p + 1 <= p + m THEN (p + m) - (p + 1) + 1 ELSE 0
      /\ \A i \in 1 .. (p + m) - (p + 1) + 1 : z[i] = b[p + 1 + i - 1]
  BY <1>2, SubSeqProperties
<1> HIDE DEF z
<1>4. Len(z) = m
  BY <1>3
<1>5. \A i \in 1 .. m : i \in 1 .. (p + m) - (p + 1) + 1 /\ p + 1 + i - 1 = p + i
  OBVIOUS
<1>6. \A i \in 1 .. m : z[i] = b[p + i]
  BY <1>3, <1>5
<1> QED BY <1>3, <1>4, <1>6 DEF z

LEMMA TryDecodeIs ==
  ASSUME NEW b \in Seq(Cells), NEW pos \in 0 .. Len(b)
  PROVE  /\ TryDecode(b, pos) = IF Sound(b, pos)
                                THEN [ok |-> TRUE, next |-> pos + Total(b, pos),
                                      record |-> RecordAt(b, pos)]
                                ELSE Failed
         /\ Sound(b, pos) => pos + Total(b, pos) \in pos + 1 .. Len(b)
<1>0. Len(b) \in Nat /\ pos \in Nat /\ HeaderSize = 8
  BY LenProperties DEF HeaderSize
<1>1. Sound(b, pos) => pos + Total(b, pos) \in pos + 1 .. Len(b)
  BY <1>0 DEF Sound, Total
<1>2. CASE Len(b) - pos < HeaderSize
  <2>1. TryDecode(b, pos) = Failed
    BY <1>2 DEF TryDecode
  <2>2. ~ Sound(b, pos)
    BY <1>0, <1>2 DEF Sound
  <2> QED BY <1>1, <2>1, <2>2
<1>3. CASE ~ (Len(b) - pos < HeaderSize)
  <2> DEFINE h == SubSeq(b, pos + 1, pos + HeaderSize)
  <2>1. \A i \in 1 .. 8 : h[i] = b[pos + i]
    BY <1>0, <1>3, PartIs
  <2> HIDE DEF h
  <2>2. /\ h[1] = b[pos + 1] /\ h[2] = b[pos + 2] /\ h[3] = b[pos + 3] /\ h[4] = b[pos + 4]
        /\ h[5] = b[pos + 5] /\ h[6] = b[pos + 6] /\ h[7] = b[pos + 7] /\ h[8] = b[pos + 8]
    BY <2>1
  <2> DEFINE bad == \/ h[1] # Magic
                    \/ h[2] # Version
                    \/ h[7] \notin Nat
                    \/ Len(b) - pos < HeaderSize + h[7]
                    \/ CrcOf(SubSeq(b, pos + 1, pos + (HeaderSize + h[7]))) # h[4]
             good == [ok |-> TRUE,
                      next |-> pos + (HeaderSize + h[7]),
                      record |-> [tcp_flags |-> h[3], body |-> h[5], degraded |-> h[6] % 2 = 1,
                                  truncated |-> h[8] > h[7], orig |-> h[8],
                                  payload |-> SubSeq(b, pos + HeaderSize + 1, pos + (HeaderSize + h[7]))]]
  <2>3. TryDecode(b, pos) = IF bad THEN Failed ELSE good
    BY <1>3 DEF TryDecode, h
  <2>4. bad <=> ~ Sound(b, pos)
    <3>1. CASE h[7] \notin Nat
      BY <2>2, <3>1 DEF Sound
    <3>2. CASE h[7] \in Nat
      <4>1. Len(b) - pos < HeaderSize + h[7] <=> ~ (pos + Total(b, pos) <= Len(b))
        <5>1. \A n, p, t \in Nat : n - p < 8 + t <=> ~ (p + (8 + t) <= n)
          OBVIOUS
        <5>2. Len(b) - pos < 8 + h[7] <=> ~ (pos + (8 + h[7]) <= Len(b))
          BY <1>0, <3>2, <5>1
        <5>3. Total(b, pos) = 8 + h[7]
          BY <1>0, <2>2 DEF Total
        <5> QED BY <1>0, <5>2, <5>3
      <4>2. pos + HeaderSize <= Len(b)
        BY <1>0, <1>3
      <4>3. HeaderSize + h[7] = Total(b, pos)
        BY <2>2 DEF Total
      <4> QED BY <2>2, <3>2, <4>1, <4>2, <4>3 DEF Sound
    <3> QED BY <3>1, <3>2
  <2>5. good = [ok |-> TRUE, next |-> pos + Total(b, pos), record |-> RecordAt(b, pos)]
    BY <2>2 DEF RecordAt, Total
  <2> HIDE DEF bad, good
  <2>6. CASE Sound(b, pos)
    BY <1>1, <2>3, <2>4, <2>5, <2>6
  <2>7. CASE ~ Sound(b, pos)
    BY <2>3, <2>4, <2>7
  <2> QED BY <2>6, <2>7
<1> QED BY <1>2, <1>3

\* m cells of one buffer are those of another, and no record starts at the
\* first of them that goes on beyond them.
Agree(b, p, c, q, m) ==
  /\ b \in Seq(Cells) /\ c \in Seq(Cells) /\ p \in Nat /\ q \in Nat /\ m \in Nat
  /\ p + m <= Len(b) /\ q + m <= Len(c)
  /\ \A i \in 1 .. m : b[p + i] = c[q + i]
  /\ Sound(b, p) => p + Total(b, p) <= p + m

\* What try_decode makes of some cells does not depend on where they lie, or
\* on what lies around them.
LEMMA Elsewhere ==
  ASSUME NEW b, NEW p, NEW c, NEW q, NEW m, Agree(b, p, c, q, m), Sound(b, p)
  PROVE  Sound(c, q) /\ Total(c, q) = Total(b, p) /\ RecordAt(c, q) = RecordAt(b, p)
<1> DEFINE t == Total(b, p)
<1> USE DEF Agree
<1>0. /\ b \in Seq(Cells) /\ c \in Seq(Cells) /\ p \in Nat /\ q \in Nat /\ m \in Nat
      /\ p + m <= Len(b) /\ q + m <= Len(c) /\ p + t <= p + m
      /\ \A i \in 1 .. m : b[p + i] = c[q + i]
      /\ HeaderSize = 8 /\ Len(b) \in Nat /\ Len(c) \in Nat
  BY LenProperties DEF HeaderSize
<1> HIDE DEF Agree
<1>1. b[p + 7] \in Nat /\ t = 8 + b[p + 7]
  BY <1>0 DEF Sound, Total
<1>2. t \in Nat /\ 8 <= t /\ t <= m
  BY <1>0, <1>1
<1>3. \A i \in 1 .. 8 : b[p + i] = c[q + i]
  BY <1>0, <1>2
<1>4. /\ b[p + 1] = c[q + 1] /\ b[p + 2] = c[q + 2] /\ b[p + 3] = c[q + 3] /\ b[p + 4] = c[q + 4]
      /\ b[p + 5] = c[q + 5] /\ b[p + 6] = c[q + 6] /\ b[p + 7] = c[q + 7] /\ b[p + 8] = c[q + 8]
  BY <1>3
<1>5. Total(c, q) = t
  BY <1>0, <1>1, <1>4 DEF Total
<1> HIDE DEF t
<1>6. p + t <= Len(b) /\ q + t <= Len(c)
  BY <1>0, <1>2
<1>7. SubSeq(b, p + 1, p + t) = SubSeq(c, q + 1, q + t)
  <2> DEFINE x == SubSeq(b, p + 1, p + t)
             y == SubSeq(c, q + 1, q + t)
  <2>1. x \in Seq(Cells) /\ Len(x) = t /\ \A i \in 1 .. t : x[i] = b[p + i]
    BY <1>0, <1>2, <1>6, PartIs
  <2>2. y \in Seq(Cells) /\ Len(y) = t /\ \A i \in 1 .. t : y[i] = c[q + i]
    BY <1>0, <1>2, <1>6, PartIs
  <2> HIDE DEF x, y
  <2>3. \A i \in 1 .. t : b[p + i] = c[q + i]
    BY <1>0, <1>2
  <2>4. x = y
    BY <2>1, <2>2, <2>3, SeqEqual
  <2> QED BY <2>4 DEF x, y
<1>8. SubSeq(b, p + HeaderSize + 1, p + t) = SubSeq(c, q + HeaderSize + 1, q + t)
  <2> DEFINE n == t - 8
             x == SubSeq(b, (p + 8) + 1, (p + 8) + n)
             y == SubSeq(c, (q + 8) + 1, (q + 8) + n)
  <2>1. n \in Nat /\ (p + 8) + n = p + t /\ (q + 8) + n = q + t /\ p + 8 \in Nat /\ q + 8 \in Nat
    BY <1>0, <1>2
  <2>2. (p + 8) + n <= Len(b) /\ (q + 8) + n <= Len(c)
    BY <1>6, <2>1
  <2> HIDE DEF n
  <2>3. x \in Seq(Cells) /\ Len(x) = n /\ \A i \in 1 .. n : x[i] = b[(p + 8) + i]
    BY <1>0, <2>1, <2>2, PartIs
  <2>4. y \in Seq(Cells) /\ Len(y) = n /\ \A i \in 1 .. n : y[i] = c[(q + 8) + i]
    BY <1>0, <2>1, <2>2, PartIs
  <2> HIDE DEF x, y
  <2>5. ASSUME NEW i \in 1 .. n PROVE b[(p + 8) + i] = c[(q + 8) + i]
    <3>1. 8 + i \in 1 .. m /\ (p + 8) + i = p + (8 + i) /\ (q + 8) + i = q + (8 + i)
      BY <1>0, <1>2, <2>1 DEF n
    <3>2. b[p + (8 + i)] = c[q + (8 + i)]
      BY <1>0, <3>1
    <3> QED BY <3>1, <3>2
  <2>6. x = y
    BY <2>3, <2>4, <2>5, SeqEqual
  <2>7. x = SubSeq(b, (p + 8) + 1, p + t) /\ y = SubSeq(c, (q + 8) + 1, q + t)
    BY <2>1 DEF x, y
  <2> QED BY <1>0, <2>6, <2>7
<1>9. RecordAt(c, q) = RecordAt(b, p)
  <2>1. SubSeq(c, q + HeaderSize + 1, q + Total(c, q)) = SubSeq(b, p + HeaderSize + 1, p + Total(b, p))
    BY <1>5, <1>8 DEF t
  <2> QED BY <1>4, <2>1 DEF RecordAt
<1>10. Sound(c, q)
  <2>1. /\ c[q + 1] = Magic /\ c[q + 2] = Version /\ c[q + 7] \in Nat
    BY <1>4 DEF Sound
  <2>2. CrcOf(SubSeq(c, q + 1, q + t)) = c[q + 4]
    BY <1>4, <1>7 DEF Sound, t
  <2>3. q + 8 <= Len(c) /\ q + t <= Len(c)
    BY <1>0, <1>2
  <2> QED BY <1>0, <1>5, <2>1, <2>2, <2>3 DEF Sound
<1> QED BY <1>5, <1>9, <1>10 DEF t

-----------------------------------------------------------------------------
(* An encoded record, intact, cut short or with one cell changed.          *)

LEMMA DecodesIntact ==
  ASSUME NEW r \in Record, NEW b \in Seq(Cells), NEW pos \in Nat,
         pos + Len(Encode(r)) <= Len(b),
         \A i \in 1 .. Len(Encode(r)) : b[pos + i] = Encode(r)[i]
  PROVE  Sound(b, pos) /\ Total(b, pos) = Len(Encode(r)) /\ RecordAt(b, pos) = r
<1> DEFINE e == Encode(r)
           n == Len(r.payload)
<1>1. /\ e \in Seq(Cells) /\ Len(e) = 8 + n /\ n \in Nat
      /\ e[1] = Magic /\ e[2] = Version /\ e[3] = r.tcp_flags
      /\ e[4] = CrcOf(e)
      /\ e[5] = r.body /\ e[6] = IF r.degraded THEN 1 ELSE 0
      /\ e[7] = n /\ e[8] = r.orig
      /\ \A i \in 1 .. n : e[8 + i] = r.payload[i]
      /\ Len(b) \in Nat
  BY EncodeIs, RecordIs, LenProperties DEF HeaderSize
<1>2. pos + (8 + n) <= Len(b) /\ \A i \in 1 .. 8 + n : b[pos + i] = e[i]
  BY <1>1
<1> HIDE DEF e, n
<1>3. /\ b[pos + 1] = e[1] /\ b[pos + 2] = e[2] /\ b[pos + 3] = e[3] /\ b[pos + 4] = e[4]
      /\ b[pos + 5] = e[5] /\ b[pos + 6] = e[6] /\ b[pos + 7] = e[7] /\ b[pos + 8] = e[8]
  <2>1. \A i \in 1 .. 8 : i \in 1 .. 8 + n
    BY <1>1
  <2>2. \A i \in 1 .. 8 : b[pos + i] = e[i]
    BY <1>2, <2>1
  <2> QED BY <2>2
<1>4. Total(b, pos) = 8 + n
  BY <1>1, <1>3 DEF Total, HeaderSize
<1>5. SubSeq(b, pos + 1, pos + (8 + n)) = e
  <2> DEFINE x == SubSeq(b, pos + 1, pos + (8 + n))
  <2>0. 8 + n \in Nat /\ pos + (8 + n) <= Len(b)
    BY <1>1, <1>2
  <2>1. x \in Seq(Cells) /\ Len(x) = 8 + n /\ \A i \in 1 .. 8 + n : x[i] = b[pos + i]
    BY <2>0, PartIs
  <2> HIDE DEF x
  <2>2. x = e
    BY <1>1, <1>2, <2>1, SeqEqual
  <2> QED BY <2>2 DEF x
<1>6. SubSeq(b, pos + HeaderSize + 1, pos + (8 + n)) = r.payload
  <2> DEFINE x == SubSeq(b, (pos + 8) + 1, (pos + 8) + n)
  <2>1. (pos + 8) + n <= Len(b) /\ pos + 8 \in Nat /\ (pos + 8) + n = pos + (8 + n)
    BY <1>1, <1>2
  <2>2. x \in Seq(Cells) /\ Len(x) = n /\ \A i \in 1 .. n : x[i] = b[(pos + 8) + i]
    BY <1>1, <2>1, PartIs
  <2> HIDE DEF x
  <2>3. r.payload \in Seq(Cells) /\ Len(r.payload) = n
    <3>1. Nat \subseteq Cells
      BY DEF Cells
    <3> QED BY <3>1, RecordIs, SeqMonotonic DEF n
  <2>4. ASSUME NEW i \in 1 .. n PROVE x[i] = r.payload[i]
    <3>1. 8 + i \in 1 .. 8 + n /\ (pos + 8) + i = pos + (8 + i)
      BY <1>1
    <3>2. b[pos + (8 + i)] = e[8 + i]
      BY <1>2, <3>1
    <3> QED BY <1>1, <2>2, <3>1, <3>2
  <2>5. x = r.payload
    BY <2>2, <2>3, <2>4, SeqEqual
  <2>6. x = SubSeq(b, (pos + 8) + 1, pos + (8 + n))
    BY <2>1 DEF x
  <2> QED BY <2>5, <2>6 DEF HeaderSize
<1>7. Sound(b, pos)
  <2>1. pos + 8 <= Len(b) /\ Len(b) \in Nat
    BY <1>1, <1>2, LenProperties
  <2>2. CrcOf(SubSeq(b, pos + 1, pos + Total(b, pos))) = b[pos + 4]
    BY <1>1, <1>3, <1>4, <1>5
  <2>3. b[pos + 1] = Magic /\ b[pos + 2] = Version /\ b[pos + 7] \in Nat
    BY <1>1, <1>3
  <2>4. pos + Total(b, pos) <= Len(b)
    BY <1>2, <1>4
  <2> QED BY <2>1, <2>2, <2>3, <2>4 DEF Sound, HeaderSize
<1>8. RecordAt(b, pos) = r
  <2>1. (e[6] % 2 = 1) = r.degraded
    <3>1. r.degraded \in BOOLEAN
      BY RecordIs
    <3>2. CASE r.degraded = TRUE
      <4>1. e[6] = 1
        BY <1>1, <3>2
      <4>2. (e[6] % 2 = 1) = TRUE
        BY <4>1
      <4> QED BY <3>2, <4>2
    <3>3. CASE r.degraded = FALSE
      <4>1. e[6] = 0
        BY <1>1, <3>3
      <4>2. (e[6] % 2 = 1) = FALSE
        BY <4>1
      <4> QED BY <3>3, <4>2
    <3> QED BY <3>1, <3>2, <3>3
  <2>2. (b[pos + 6] % 2 = 1) = r.degraded
    BY <1>3, <2>1
  <2>3. (b[pos + 8] > b[pos + 7]) = r.truncated
    BY <1>1, <1>3, RecordIs DEF n
  <2>4. SubSeq(b, pos + HeaderSize + 1, pos + Total(b, pos)) = r.payload
    BY <1>4, <1>6
  <2>5. b[pos + 3] = r.tcp_flags /\ b[pos + 5] = r.body /\ b[pos + 8] = r.orig
    BY <1>1, <1>3
  <2>6. RecordAt(b, pos) = [tcp_flags |-> r.tcp_flags, body |-> r.body, degraded |-> r.degraded,
                            truncated |-> r.truncated, orig |-> r.orig, payload |-> r.payload]
    BY <2>2, <2>3, <2>4, <2>5 DEF RecordAt
  <2> QED BY <2>6, RecordIs
<1> QED BY <1>1, <1>4, <1>7, <1>8 DEF e

LEMMA RefusesTorn ==
  ASSUME NEW r \in Record, NEW b \in Seq(Cells), NEW pos \in 0 .. Len(b),
         pos + Len(Encode(r)) > Len(b),
         \A i \in 1 .. Len(Encode(r)) : pos + i <= Len(b) => b[pos + i] = Encode(r)[i]
  PROVE  ~ Sound(b, pos)
<1> SUFFICES ASSUME Sound(b, pos) PROVE FALSE
  OBVIOUS
<1>1. /\ Len(Encode(r)) = 8 + Len(r.payload) /\ Len(r.payload) \in Nat
      /\ Encode(r)[7] = Len(r.payload) /\ Len(b) \in Nat
  BY EncodeIs, RecordIs, LenProperties DEF HeaderSize
<1>2. pos + 8 <= Len(b)
  BY DEF Sound, HeaderSize
<1>3. 7 \in 1 .. Len(Encode(r)) /\ pos + 7 <= Len(b)
  BY <1>1, <1>2
<1>4. b[pos + 7] = Len(r.payload)
  BY <1>1, <1>3
<1>5. Total(b, pos) = Len(Encode(r))
  BY <1>1, <1>4 DEF Total, HeaderSize
<1>6. pos + Total(b, pos) <= Len(b)
  BY DEF Sound
<1> QED BY <1>1, <1>5, <1>6

\* The crc covers every other cell, the length among them.
LEMMA RefusesCorrupt ==
  ASSUME NEW r \in Record, NEW b \in Seq(Cells), NEW pos \in Nat,
         NEW x \in 1 .. Len(Encode(r)), pos + Len(Encode(r)) <= Len(b),
         \A i \in 1 .. Len(Encode(r)) : b[pos + i] = Encode(r)[i] <=> i # x
  PROVE  ~ Sound(b, pos)
<1> SUFFICES ASSUME Sound(b, pos) PROVE FALSE
  OBVIOUS
<1> DEFINE e == Encode(r)
           n == Len(r.payload)
           t == Total(b, pos)
           s == SubSeq(b, pos + 1, pos + t)
<1>1. /\ e \in Seq(Cells) /\ Len(e) = 8 + n /\ n \in Nat
      /\ e[1] = Magic /\ e[2] = Version /\ e[4] = CrcOf(e) /\ e[7] = n
  BY EncodeIs, RecordIs DEF HeaderSize
<1>2. /\ b[pos + 1] = Magic /\ b[pos + 2] = Version /\ b[pos + 7] \in Nat
      /\ pos + t <= Len(b) /\ CrcOf(s) = b[pos + 4] /\ t = 8 + b[pos + 7]
  BY DEF Sound, Total, HeaderSize
<1>3. x \in 1 .. 8 + n /\ \A i \in 1 .. 8 + n : b[pos + i] = e[i] <=> i # x
  BY <1>1
<1>4. t \in Nat /\ 8 <= t
  BY <1>2
<1> HIDE DEF e, n, t
<1>5. s \in Seq(Cells) /\ Len(s) = t /\ \A i \in 1 .. t : s[i] = b[pos + i]
  BY <1>2, <1>4, PartIs
<1> HIDE DEF s
<1>6. Len(s) >= HeaderSize /\ Len(e) >= HeaderSize
  BY <1>1, <1>4, <1>5 DEF HeaderSize
<1>7. CrcOf(s) = CrcOf(e) <=> Len(s) = Len(e) /\ \A i \in 1 .. Len(s) : i # 4 => s[i] = e[i]
  BY <1>1, <1>5, <1>6, CrcOfDetermines
<1>8. CASE x = 4
  <2>1. 7 \in 1 .. 8 + n /\ 4 \in 1 .. 8 + n
    BY <1>1
  <2>2. b[pos + 7] = e[7] /\ b[pos + 4] # e[4]
    BY <1>3, <1>8, <2>1
  <2>3. t = 8 + n
    BY <1>1, <1>2, <2>2
  <2>4. \A i \in 1 .. t : i # 4 => s[i] = e[i]
    BY <1>3, <1>5, <1>8, <2>3
  <2>5. CrcOf(s) = CrcOf(e)
    BY <1>1, <1>5, <1>7, <2>3, <2>4
  <2> QED BY <1>1, <1>2, <2>2, <2>5
<1>9. CASE x # 4
  <2>1. 4 \in 1 .. 8 + n
    BY <1>1
  <2>2. b[pos + 4] = e[4]
    BY <1>3, <1>9, <2>1
  <2>3. Len(s) = Len(e) /\ \A i \in 1 .. Len(s) : i # 4 => s[i] = e[i]
    BY <1>1, <1>2, <1>7, <2>2
  <2>4. x \in 1 .. t
    BY <1>1, <1>3, <1>5, <2>3
  <2>5. s[x] = e[x] /\ s[x] = b[pos + x]
    BY <1>5, <1>9, <2>3, <2>4
  <2> QED BY <1>3, <2>5
<1> QED BY <1>8, <1>9

-----------------------------------------------------------------------------
(* The decoder over a whole buffer.                                        *)

NextAt(b, pos) == pos + Total(b, pos)

\* One turn of the loop, of which h is the rest; and the loop.
Turn(b, h, pos) ==
  LET d == TryDecode(b, pos) IN
  IF d.ok THEN [records |-> <<d.record>> \o h[d.next].records,
                residual |-> h[d.next].residual]
  ELSE [records |-> <<>>, residual |-> Len(b) - pos]

IsLoop(b, f) == f = [pos \in 0 .. Len(b) |-> Turn(b, f, pos)]

\* What is decoded from offset pos on.
Stream(b, pos) == (CHOOSE f : IsLoop(b, f))[pos]

LEMMA TurnIs ==
  ASSUME NEW b \in Seq(Cells), NEW pos \in 0 .. Len(b), NEW h
  PROVE  /\ Sound(b, pos) =>
              Turn(b, h, pos) = [records |-> <<RecordAt(b, pos)>> \o h[NextAt(b, pos)].records,
                                 residual |-> h[NextAt(b, pos)].residual]
         /\ ~ Sound(b, pos) => Turn(b, h, pos) = [records |-> <<>>, residual |-> Len(b) - pos]
<1> DEFINE d == TryDecode(b, pos)
<1>1. Turn(b, h, pos) = IF d.ok THEN [records |-> <<d.record>> \o h[d.next].records,
                                      residual |-> h[d.next].residual]
                        ELSE [records |-> <<>>, residual |-> Len(b) - pos]
  BY DEF Turn
<1>2. CASE Sound(b, pos)
  <2>1. d = [ok |-> TRUE, next |-> pos + Total(b, pos), record |-> RecordAt(b, pos)]
    BY <1>2, TryDecodeIs
  <2> HIDE DEF d
  <2>2. d.ok = TRUE /\ d.next = NextAt(b, pos) /\ d.record = RecordAt(b, pos)
    BY <2>1 DEF NextAt
  <2> QED BY <1>1, <1>2, <2>2
<1>3. CASE ~ Sound(b, pos)
  <2>1. d = [ok |-> FALSE]
    BY <1>3, TryDecodeIs DEF Failed
  <2> HIDE DEF d
  <2>2. d.ok = FALSE
    BY <2>1
  <2> QED BY <1>1, <1>3, <2>2
<1> QED BY <1>2, <1>3

\* The loop comes to an end: every record takes cells.
LEMMA LoopExists ==
  ASSUME NEW b \in Seq(Cells)
  PROVE  \E f : IsLoop(b, f)
<1> DEFINE n == Len(b)
           back(h, m) == \A pos \in 0 .. n : n - pos <= m => h[pos] = Turn(b, h, pos)
           S == {m \in Nat : \E h : h = [pos \in 0 .. n |-> h[pos]] /\ back(h, m)}
<1>0. n \in Nat
  BY LenProperties
<1> HIDE DEF n
<1>1. 0 \in S
  <2> DEFINE h == [pos \in 0 .. n |-> [records |-> <<>>, residual |-> n - pos]]
  <2>1. h = [pos \in 0 .. n |-> h[pos]]
    OBVIOUS
  <2>2. ASSUME NEW pos \in 0 .. n, n - pos <= 0 PROVE h[pos] = Turn(b, h, pos)
    <3>1. pos = n
      BY <1>0, <2>2
    <3>2. ~ Sound(b, pos)
      BY <1>0, <3>1 DEF Sound, HeaderSize, n
    <3>3. Turn(b, h, pos) = [records |-> <<>>, residual |-> n - pos]
      BY <3>2, TurnIs DEF n
    <3> QED BY <3>3
  <2> HIDE DEF h
  <2>3. back(h, 0)
    BY <2>2
  <2> HIDE DEF back
  <2>4. \E g : g = [pos \in 0 .. n |-> g[pos]] /\ back(g, 0)
    BY <2>1, <2>3
  <2> QED BY <2>4
<1>2. ASSUME NEW m \in Nat, m \in S PROVE m + 1 \in S
  <2>1. PICK h : back(h, m)
    BY <1>2
  <2> DEFINE g == [pos \in 0 .. n |-> Turn(b, h, pos)]
  <2>2. g = [pos \in 0 .. n |-> g[pos]]
    OBVIOUS
  <2>3. ASSUME NEW pos \in 0 .. n, n - pos <= m + 1 PROVE g[pos] = Turn(b, g, pos)
    <3>1. g[pos] = Turn(b, h, pos)
      OBVIOUS
    <3>2. CASE ~ Sound(b, pos)
      BY <3>1, <3>2, TurnIs DEF n
    <3>3. CASE Sound(b, pos)
      <4> DEFINE x == NextAt(b, pos)
      <4>1. x \in pos + 1 .. n
        BY <3>3, TryDecodeIs DEF NextAt, n
      <4>2. x \in 0 .. n /\ n - x <= m
        BY <1>0, <2>3, <4>1
      <4>3. g[x] = h[x]
        <5> HIDE DEF x
        <5>1. g[x] = Turn(b, h, x)
          BY <4>2
        <5>2. h[x] = Turn(b, h, x)
          BY <2>1, <4>2
        <5> QED BY <5>1, <5>2
      <4> HIDE DEF g
      <4>4. Turn(b, g, pos) = Turn(b, h, pos)
        BY <3>3, <4>3, TurnIs DEF n
      <4> QED BY <3>1, <4>4
    <3> QED BY <3>2, <3>3
  <2> HIDE DEF g
  <2>4. back(g, m + 1)
    BY <2>3
  <2> HIDE DEF back
  <2>5. \E f : f = [pos \in 0 .. n |-> f[pos]] /\ back(f, m + 1)
    BY <2>2, <2>4
  <2>6. m + 1 \in Nat
    OBVIOUS
  <2> QED BY <2>5, <2>6
<1>3. n \in S
  <2>1. S \in SUBSET Nat
    OBVIOUS
  <2> HIDE DEF S
  <2> QED BY <1>0, <1>1, <1>2, <2>1, Induction
<1>4. PICK f : f = [pos \in 0 .. n |-> f[pos]] /\ back(f, n)
  BY <1>3
<1>5. \A pos \in 0 .. n : f[pos] = Turn(b, f, pos)
  BY <1>0, <1>4
<1>6. f = [pos \in 0 .. n |-> Turn(b, f, pos)]
  BY <1>4, <1>5
<1>7. IsLoop(b, f)
  BY <1>6 DEF IsLoop, n
<1> QED BY <1>7

LEMMA StreamStep ==
  ASSUME NEW b \in Seq(Cells), NEW pos \in 0 .. Len(b)
  PROVE  /\ Sound(b, pos) =>
              /\ NextAt(b, pos) \in pos + 1 .. Len(b)
              /\ Stream(b, pos) = [records |-> <<RecordAt(b, pos)>> \o Stream(b, NextAt(b, pos)).records,
                                   residual |-> Stream(b, NextAt(b, pos)).residual]
         /\ ~ Sound(b, pos) => Stream(b, pos) = [records |-> <<>>, residual |-> Len(b) - pos]
<1> DEFINE f == CHOOSE g : IsLoop(b, g)
<1>1. IsLoop(b, f)
  BY LoopExists
<1>2. \A x : Stream(b, x) = f[x]
  BY DEF Stream
<1> HIDE DEF f
<1>3. f[pos] = Turn(b, f, pos)
  BY <1>1 DEF IsLoop
<1>4. Sound(b, pos) => NextAt(b, pos) \in pos + 1 .. Len(b)
  BY TryDecodeIs DEF NextAt
<1>5. CASE Sound(b, pos)
  <2>1. Turn(b, f, pos) = [records |-> <<RecordAt(b, pos)>> \o f[NextAt(b, pos)].records,
                           residual |-> f[NextAt(b, pos)].residual]
    BY <1>5, TurnIs
  <2> QED BY <1>2, <1>3, <1>4, <1>5, <2>1
<1>6. CASE ~ Sound(b, pos)
  <2>1. Turn(b, f, pos) = [records |-> <<>>, residual |-> Len(b) - pos]
    BY <1>6, TurnIs
  <2> QED BY <1>2, <1>3, <1>6, <2>1
<1> QED BY <1>5, <1>6

LEMMA DecodeStreamIs == \A b : DecodeStream(b) = Stream(b, 0)
BY DEF DecodeStream, Stream, IsLoop, Turn

\* From the end of a buffer to any place of it, over the records on the way.
LEMMA Backwards ==
  ASSUME NEW b \in Seq(Cells), NEW S \in SUBSET (0 .. Len(b)),
         \A pos \in 0 .. Len(b) :
           (Sound(b, pos) => NextAt(b, pos) \in S) => pos \in S
  PROVE  \A pos \in 0 .. Len(b) : pos \in S
<1> DEFINE n == Len(b)
           T == {m \in Nat : \A pos \in 0 .. n : n - pos <= m => pos \in S}
<1>0. n \in Nat
  BY LenProperties
<1>1. 0 \in T
  <2> SUFFICES ASSUME NEW pos \in 0 .. n, n - pos <= 0 PROVE pos \in S
    OBVIOUS
  <2>1. ~ Sound(b, pos)
    BY <1>0 DEF Sound, HeaderSize
  <2> QED BY <2>1
<1>2. ASSUME NEW m \in Nat, m \in T PROVE m + 1 \in T
  <2> SUFFICES ASSUME NEW pos \in 0 .. n, n - pos <= m + 1 PROVE pos \in S
    OBVIOUS
  <2>1. ASSUME Sound(b, pos) PROVE NextAt(b, pos) \in S
    <3>1. NextAt(b, pos) \in pos + 1 .. n
      BY <2>1, TryDecodeIs DEF NextAt
    <3>2. NextAt(b, pos) \in 0 .. n /\ n - NextAt(b, pos) <= m
      BY <1>0, <3>1
    <3> QED BY <1>2, <3>2
  <2> QED BY <2>1
<1>3. n \in T
  <2>1. T \in SUBSET Nat
    OBVIOUS
  <2> HIDE DEF T, n
  <2> QED BY <1>0, <1>1, <1>2, <2>1, Induction
<1>4. \A pos \in 0 .. n : n - pos <= n
  BY <1>0
<1> QED BY <1>3, <1>4

Decoded(b) == {RecordAt(b, pos) : pos \in 0 .. Len(b)}

LEMMA StreamType ==
  ASSUME NEW b \in Seq(Cells), NEW pos \in 0 .. Len(b)
  PROVE  /\ Stream(b, pos) = [records |-> Stream(b, pos).records,
                              residual |-> Stream(b, pos).residual]
         /\ Stream(b, pos).records \in Seq(Decoded(b))
         /\ Stream(b, pos).residual \in 0 .. Len(b) - pos
<1> DEFINE ok(x) == /\ Stream(b, x) = [records |-> Stream(b, x).records,
                                       residual |-> Stream(b, x).residual]
                    /\ Stream(b, x).records \in Seq(Decoded(b))
                    /\ Stream(b, x).residual \in 0 .. Len(b) - x
           S == {x \in 0 .. Len(b) : ok(x)}
<1>0. Len(b) \in Nat
  BY LenProperties
<1>1. ASSUME NEW x \in 0 .. Len(b), Sound(b, x) => NextAt(b, x) \in S
      PROVE  x \in S
  <2>1. CASE ~ Sound(b, x)
    <3>1. Stream(b, x) = [records |-> <<>>, residual |-> Len(b) - x]
      BY <2>1, StreamStep
    <3>2. <<>> \in Seq(Decoded(b)) /\ Len(b) - x \in 0 .. Len(b) - x
      BY <1>0, EmptySeq
    <3>3. Stream(b, x).records = <<>> /\ Stream(b, x).residual = Len(b) - x
      BY <3>1
    <3> QED BY <3>1, <3>2, <3>3
  <2>2. CASE Sound(b, x)
    <3> DEFINE y == NextAt(b, x)
               r == RecordAt(b, x)
               u == Stream(b, y).records
    <3>1. y \in x + 1 .. Len(b) /\ ok(y)
      BY <1>1, <2>2, StreamStep
    <3>2. Stream(b, x) = [records |-> <<r>> \o u, residual |-> Stream(b, y).residual]
      BY <2>2, StreamStep
    <3>3. r \in Decoded(b)
      BY DEF Decoded
    <3> HIDE DEF r
    <3>4. <<r>> \in Seq(Decoded(b))
      BY <3>3
    <3>5. u \in Seq(Decoded(b))
      BY <3>1
    <3>6. <<r>> \o u \in Seq(Decoded(b))
      BY <3>4, <3>5, ConcatProperties
    <3>7. Stream(b, y).residual \in 0 .. Len(b) - x
      BY <1>0, <3>1
    <3> HIDE DEF u
    <3>8. Stream(b, x).records = <<r>> \o u /\ Stream(b, x).residual = Stream(b, y).residual
      BY <3>2
    <3> QED BY <3>2, <3>6, <3>7, <3>8
  <2> QED BY <2>1, <2>2
<1>2. pos \in S
  <2>1. S \in SUBSET (0 .. Len(b))
    OBVIOUS
  <2> HIDE DEF S
  <2> QED BY <1>1, <2>1, Backwards
<1> QED BY <1>2

-----------------------------------------------------------------------------
(* Decoding in parts.                                                      *)

\* The residue of a part starts where the part's last record ends.
LEMMA OfHead ==
  ASSUME NEW b \in Seq(Cells), NEW n \in 0 .. Len(b), NEW h,
         h = SubSeq(b, 1, n), NEW pos \in 0 .. n
  PROVE  /\ h \in Seq(Cells) /\ Len(h) = n
         /\ Stream(h, pos).residual \in 0 .. n - pos
         /\ Stream(b, pos) =
              [records |-> Stream(h, pos).records \o Stream(b, n - Stream(h, pos).residual).records,
               residual |-> Stream(b, n - Stream(h, pos).residual).residual]
<1>0. Len(b) \in Nat /\ n \in Nat
  BY LenProperties
<1>1. h \in Seq(Cells) /\ Len(h) = n /\ \A i \in 1 .. n : h[i] = b[i]
  <2> DEFINE z == SubSeq(b, 0 + 1, 0 + n)
  <2>1. z \in Seq(Cells) /\ Len(z) = n /\ \A i \in 1 .. n : z[i] = b[0 + i]
    <3>1. 0 + n <= Len(b)
      BY <1>0
    <3> QED BY <1>0, <3>1, PartIs
  <2>2. z = h
    <3>1. 0 + n = n /\ 0 + 1 = 1
      BY <1>0
    <3> QED BY <3>1
  <2>3. \A i \in 1 .. n : 0 + i = i
    OBVIOUS
  <2> QED BY <2>1, <2>2, <2>3
<1> DEFINE q(x) == n - Stream(h, x).residual
           ok(x) == Stream(b, x) = [records |-> Stream(h, x).records \o Stream(b, q(x)).records,
                                    residual |-> Stream(b, q(x)).residual]
           S == {x \in 0 .. n : ok(x)}
           D == Decoded(b) \cup Decoded(h)
<1>2. \A x \in 0 .. n : /\ Stream(h, x).records \in Seq(D)
                        /\ Stream(h, x).residual \in 0 .. n - x
                        /\ q(x) \in x .. n
  <2> SUFFICES ASSUME NEW x \in 0 .. n
               PROVE  /\ Stream(h, x).records \in Seq(D)
                      /\ Stream(h, x).residual \in 0 .. n - x
                      /\ q(x) \in x .. n
    OBVIOUS
  <2>1. Stream(h, x).records \in Seq(Decoded(h)) /\ Stream(h, x).residual \in 0 .. n - x
    BY <1>1, StreamType
  <2>2. Stream(h, x).records \in Seq(D)
    BY <2>1, SeqMonotonic
  <2>3. q(x) \in x .. n
    BY <1>0, <2>1
  <2> QED BY <2>1, <2>2, <2>3
<1>3. \A x \in 0 .. Len(b) :
        /\ Stream(b, x) = [records |-> Stream(b, x).records, residual |-> Stream(b, x).residual]
        /\ Stream(b, x).records \in Seq(D)
  <2> SUFFICES ASSUME NEW x \in 0 .. Len(b)
               PROVE  /\ Stream(b, x) = [records |-> Stream(b, x).records,
                                         residual |-> Stream(b, x).residual]
                      /\ Stream(b, x).records \in Seq(D)
    OBVIOUS
  <2>1. /\ Stream(b, x) = [records |-> Stream(b, x).records, residual |-> Stream(b, x).residual]
        /\ Stream(b, x).records \in Seq(Decoded(b))
    BY StreamType
  <2> QED BY <2>1, SeqMonotonic
<1>4. ASSUME NEW x \in 0 .. n, Sound(h, x) => NextAt(h, x) \in S
      PROVE  x \in S
  <2>0. x \in 0 .. Len(b) /\ x \in Nat
    BY <1>0
  <2>1. CASE ~ Sound(h, x)
    <3>1. Stream(h, x) = [records |-> <<>>, residual |-> n - x]
      BY <1>1, <2>1, StreamStep
    <3>2. Stream(h, x).records = <<>> /\ Stream(h, x).residual = n - x
      BY <3>1
    <3>3. q(x) = x
      BY <1>0, <2>0, <3>2
    <3>4. <<>> \o Stream(b, x).records = Stream(b, x).records
      BY <1>3, <2>0, ConcatEmptySeq
    <3>5. ok(x)
      BY <1>3, <2>0, <3>2, <3>3, <3>4
    <3> QED BY <3>5
  <2>2. CASE Sound(h, x)
    <3> DEFINE y == NextAt(h, x)
               r == RecordAt(h, x)
    <3>1. y \in x + 1 .. n /\ ok(y)
      BY <1>1, <1>4, <2>2, StreamStep
    <3>2. Stream(h, x) = [records |-> <<r>> \o Stream(h, y).records, residual |-> Stream(h, y).residual]
      BY <1>1, <2>2, StreamStep
    <3>3. Sound(b, x) /\ Total(b, x) = Total(h, x) /\ RecordAt(b, x) = r
      <4> DEFINE m == n - x
      <4>1. m \in Nat /\ x + m = n /\ n <= Len(b)
        BY <1>0
      <4>2. Agree(h, x, b, x, m)
        <5>1. \A i \in 1 .. m : x + i \in 1 .. n
          BY <1>0
        <5>2. \A i \in 1 .. m : h[x + i] = b[x + i]
          BY <1>1, <5>1
        <5>3. x + Total(h, x) <= x + m
          BY <1>1, <2>2, <4>1 DEF Sound
        <5>4. x + m <= Len(h) /\ x + m <= Len(b)
          BY <1>0, <1>1, <4>1
        <5> QED BY <1>1, <2>0, <4>1, <5>2, <5>3, <5>4 DEF Agree
      <4> QED BY <2>2, <4>2, Elsewhere
    <3>4. NextAt(b, x) = y
      BY <3>3 DEF NextAt
    <3> HIDE DEF y
    <3>5. Stream(b, x) = [records |-> <<r>> \o Stream(b, y).records, residual |-> Stream(b, y).residual]
      BY <2>0, <3>3, <3>4, StreamStep
    <3>6. q(x) = q(y)
      BY <3>2
    <3> DEFINE u == Stream(h, y).records
               v == Stream(b, q(y)).records
    <3>7. Stream(b, y).records = u \o v /\ Stream(b, y).residual = Stream(b, q(y)).residual
      <4>1. Stream(b, y) = [records |-> u \o v, residual |-> Stream(b, q(y)).residual]
        BY <3>1
      <4> HIDE DEF u, v, q
      <4> QED BY <4>1
    <3>8. u \in Seq(D) /\ v \in Seq(D) /\ <<r>> \in Seq(D)
      <4>1. y \in 0 .. n /\ q(y) \in 0 .. Len(b)
        <5>1. y \in 0 .. n
          BY <1>0, <3>1
        <5>2. q(y) \in y .. n
          BY <1>2, <5>1
        <5> QED BY <1>0, <5>1, <5>2
      <4>2. u \in Seq(D) /\ v \in Seq(D)
        BY <1>2, <1>3, <4>1
      <4>3. r \in D
        BY <1>1 DEF Decoded
      <4> HIDE DEF r, D
      <4>4. <<r>> \in Seq(D)
        BY <4>3
      <4> QED BY <4>2, <4>4
    <3>10. Stream(h, x).records = <<r>> \o u
      BY <3>2
    <3> HIDE DEF u, v, r
    <3>9. (<<r>> \o u) \o v = <<r>> \o (u \o v)
      <4> HIDE DEF D
      <4> QED BY <3>8, ConcatAssociative
    <3>11. Stream(b, x) = [records |-> (<<r>> \o u) \o v, residual |-> Stream(b, q(y)).residual]
      BY <3>5, <3>7, <3>9
    <3>12. ok(x)
      BY <3>6, <3>10, <3>11 DEF v
    <3> QED BY <3>12
  <2> QED BY <2>1, <2>2
<1>5. pos \in S
  <2>1. S \in SUBSET (0 .. Len(h)) /\ pos \in 0 .. Len(h)
    BY <1>1
  <2>2. \A x \in 0 .. Len(h) : (Sound(h, x) => NextAt(h, x) \in S) => x \in S
    BY <1>1, <1>4
  <2> HIDE DEF S
  <2> QED BY <1>1, <2>1, <2>2, Backwards
<1> QED BY <1>1, <1>2, <1>5

\* A buffer that starts later decodes to the same from there on.
LEMMA OfRest ==
  ASSUME NEW b \in Seq(Cells), NEW q \in 0 .. Len(b), NEW c,
         c = SubSeq(b, q + 1, Len(b)), NEW pos \in 0 .. Len(b) - q
  PROVE  Stream(c, pos) = Stream(b, q + pos)
<1>0. Len(b) \in Nat /\ q \in Nat /\ Len(b) - q \in Nat /\ q + (Len(b) - q) = Len(b)
  BY LenProperties
<1> DEFINE n == Len(b) - q
<1>1. c \in Seq(Cells) /\ Len(c) = n /\ \A i \in 1 .. n : c[i] = b[q + i]
  <2> DEFINE z == SubSeq(b, q + 1, q + n)
  <2>1. z = c
    BY <1>0
  <2>2. n \in Nat /\ q + n <= Len(b)
    BY <1>0
  <2> HIDE DEF n
  <2>3. z \in Seq(Cells) /\ Len(z) = n /\ \A i \in 1 .. n : z[i] = b[q + i]
    BY <1>0, <2>2, PartIs
  <2> QED BY <2>1, <2>3
<1> DEFINE S == {x \in 0 .. n : Stream(c, x) = Stream(b, q + x)}
<1>2. ASSUME NEW x \in 0 .. n, Sound(c, x) => NextAt(c, x) \in S
      PROVE  x \in S
  <2> DEFINE m == n - x
             z == q + x
  <2>1. /\ m \in Nat /\ x \in Nat /\ z \in Nat /\ z \in 0 .. Len(b) /\ n \in Nat
        /\ x + m = n /\ z + m = Len(b) /\ n - x = Len(b) - z
    BY <1>0
  <2>2. x + m <= Len(c) /\ z + m <= Len(b)
    <3> HIDE DEF n, m, z, S
    <3>1. x + m = Len(c) /\ z + m = Len(b)
      BY <1>1, <2>1
    <3>2. Len(c) \in Nat /\ Len(b) \in Nat
      BY <1>0, <1>1, <2>1
    <3>3. \A k \in Nat : k <= k
      OBVIOUS
    <3> QED BY <3>1, <3>2, <3>3
  <2>3. Agree(c, x, b, z, m) /\ Agree(b, z, c, x, m)
    <3>1. \A i \in 1 .. m : x + i \in 1 .. n /\ q + (x + i) = z + i
      BY <1>0
    <3>2. \A i \in 1 .. m : c[x + i] = b[z + i]
      BY <1>1, <3>1
    <3>3. Sound(c, x) => x + Total(c, x) <= x + m
      BY <1>1, <2>1 DEF Sound
    <3> HIDE DEF z, m
    <3>4. Sound(b, z) => z + Total(b, z) <= z + m
      BY <2>1 DEF Sound
    <3> QED BY <1>1, <2>1, <2>2, <3>2, <3>3, <3>4 DEF Agree
  <2> HIDE DEF m
  <2>4. CASE Sound(c, x)
    <3>1. Sound(b, z) /\ Total(b, z) = Total(c, x) /\ RecordAt(b, z) = RecordAt(c, x)
      BY <2>3, <2>4, Elsewhere
    <3> DEFINE y == NextAt(c, x)
    <3>2. y \in x + 1 .. n /\ Stream(c, y) = Stream(b, q + y)
      BY <1>1, <1>2, <2>4, StreamStep
    <3>3. NextAt(b, z) = q + y
      <4>1. Total(c, x) \in Int
        <5>1. c[x + 7] \in Nat /\ Total(c, x) = 8 + c[x + 7]
          BY <2>4 DEF Sound, Total, HeaderSize
        <5>2. \A k \in Nat : 8 + k \in Int
          OBVIOUS
        <5> QED BY <5>1, <5>2
      <4> QED BY <1>0, <2>1, <3>1, <4>1 DEF NextAt
    <3>4. Stream(c, x) = [records |-> <<RecordAt(c, x)>> \o Stream(c, y).records,
                          residual |-> Stream(c, y).residual]
      BY <1>1, <2>4, StreamStep
    <3>5. Stream(b, z) = [records |-> <<RecordAt(b, z)>> \o Stream(b, q + y).records,
                          residual |-> Stream(b, q + y).residual]
      <4> HIDE DEF z, y
      <4> QED BY <2>1, <3>1, <3>3, StreamStep
    <3>6. Stream(c, x) = Stream(b, z)
      <4> HIDE DEF z, y
      <4> QED BY <3>1, <3>2, <3>4, <3>5
    <3> QED BY <3>6
  <2>5. CASE ~ Sound(c, x)
    <3>1. ~ Sound(b, z)
      BY <2>3, <2>5, Elsewhere
    <3>2. Stream(c, x) = [records |-> <<>>, residual |-> n - x]
      BY <1>1, <2>5, StreamStep
    <3>3. Stream(b, z) = [records |-> <<>>, residual |-> Len(b) - z]
      <4> HIDE DEF z
      <4> QED BY <2>1, <3>1, StreamStep
    <3> QED BY <2>1, <3>2, <3>3
  <2> QED BY <2>4, <2>5
<1>3. pos \in S
  <2>1. S \in SUBSET (0 .. Len(c)) /\ pos \in 0 .. Len(c)
    BY <1>1
  <2>2. \A x \in 0 .. Len(c) : (Sound(c, x) => NextAt(c, x) \in S) => x \in S
    BY <1>1, <1>2
  <2> HIDE DEF S
  <2> QED BY <1>1, <2>1, <2>2, Backwards
<1> QED BY <1>3

\* Whatever the cells are.
LEMMA ResumableHolds ==
  ASSUME buf \in Seq(Cells)
  PROVE  Resumable
<1> SUFFICES ASSUME NEW n \in 0 .. Len(buf)
             PROVE  LET head == DecodeStream(SubSeq(buf, 1, n))
                        rest == DecodeStream(SubSeq(buf, n - head.residual + 1, Len(buf)))
                    IN  DecodeStream(buf) = [records |-> head.records \o rest.records,
                                             residual |-> rest.residual]
  BY DEF Resumable
<1> DEFINE h == SubSeq(buf, 1, n)
           head == Stream(h, 0)
           q == n - head.residual
           c == SubSeq(buf, q + 1, Len(buf))
<1>0. Len(buf) \in Nat /\ n \in Nat /\ 0 \in 0 .. n
  BY LenProperties
<1>1. /\ head.residual \in 0 .. n - 0
      /\ Stream(buf, 0) = [records |-> head.records \o Stream(buf, q).records,
                           residual |-> Stream(buf, q).residual]
  <2> HIDE DEF h
  <2>1. h = SubSeq(buf, 1, n)
    BY DEF h
  <2> QED BY <1>0, <2>1, OfHead
<1>2. q \in 0 .. Len(buf) /\ q + 0 = q /\ 0 \in 0 .. Len(buf) - q
  BY <1>0, <1>1
<1> HIDE DEF head, q
<1>3. Stream(c, 0) = Stream(buf, q + 0)
  BY <1>2, OfRest
<1>4. Stream(buf, 0) = [records |-> head.records \o Stream(c, 0).records,
                        residual |-> Stream(c, 0).residual]
  BY <1>1, <1>2, <1>3
<1> QED BY <1>4, DecodeStreamIs DEF head, q

-----------------------------------------------------------------------------
(* Where the records lie.                                                  *)

\* One more record; and the function that Extent is.
Further(w, h, j) == IF j = 0 THEN 0 ELSE h[j - 1] + HeaderSize + Len(w[j].payload)
IsEnds(w, f) == f = [j \in 0 .. Len(w) |-> Further(w, f, j)]

\* Where the first k of the records w end.
EndOf(w, k) == (CHOOSE f : IsEnds(w, f))[k]

LEMMA ExtentIs == \A k : Extent(k) = EndOf(written, k) /\ Extent(k)' = EndOf(written', k)
BY DEF Extent, EndOf, IsEnds, Further

LEMMA EndsExist ==
  ASSUME NEW w \in Seq(Record)
  PROVE  \E f : IsEnds(w, f)
<1> DEFINE n == Len(w)
           upto(h, m) == \A j \in 0 .. n : j <= m => h[j] = Further(w, h, j)
           S == {m \in Nat : \E h : h = [j \in 0 .. n |-> h[j]] /\ upto(h, m)}
<1>0. n \in Nat
  BY LenProperties
<1> HIDE DEF n
<1>1. 0 \in S
  <2> DEFINE h == [j \in 0 .. n |-> 0]
  <2>1. h = [j \in 0 .. n |-> h[j]]
    OBVIOUS
  <2>2. ASSUME NEW j \in 0 .. n, j <= 0 PROVE h[j] = Further(w, h, j)
    <3>1. j = 0
      BY <1>0, <2>2
    <3> QED BY <3>1 DEF Further
  <2> HIDE DEF h
  <2>3. upto(h, 0)
    BY <2>2
  <2> HIDE DEF upto
  <2>4. \E g : g = [j \in 0 .. n |-> g[j]] /\ upto(g, 0)
    BY <2>1, <2>3
  <2> QED BY <2>4
<1>2. ASSUME NEW m \in Nat, m \in S PROVE m + 1 \in S
  <2>1. PICK h : upto(h, m)
    BY <1>2
  <2> DEFINE g == [j \in 0 .. n |-> Further(w, h, j)]
  <2>2. g = [j \in 0 .. n |-> g[j]]
    OBVIOUS
  <2>3. ASSUME NEW j \in 0 .. n, j <= m + 1 PROVE g[j] = Further(w, g, j)
    <3>1. g[j] = Further(w, h, j)
      OBVIOUS
    <3>2. CASE j = 0
      BY <3>1, <3>2 DEF Further
    <3>3. CASE j # 0
      <4>1. j - 1 \in 0 .. n /\ j - 1 <= m
        BY <1>0, <2>3, <3>3
      <4>2. g[j - 1] = Further(w, h, j - 1)
        BY <4>1
      <4>3. h[j - 1] = Further(w, h, j - 1)
        BY <2>1, <4>1
      <4> HIDE DEF g
      <4>4. g[j - 1] = h[j - 1]
        BY <4>2, <4>3
      <4> QED BY <3>1, <3>3, <4>4 DEF Further
    <3> QED BY <3>2, <3>3
  <2> HIDE DEF g
  <2>4. upto(g, m + 1)
    BY <2>3
  <2> HIDE DEF upto
  <2>5. \E f : f = [j \in 0 .. n |-> f[j]] /\ upto(f, m + 1)
    BY <2>2, <2>4
  <2>6. m + 1 \in Nat
    OBVIOUS
  <2> QED BY <2>5, <2>6
<1>3. n \in S
  <2>1. S \in SUBSET Nat
    OBVIOUS
  <2> HIDE DEF S
  <2> QED BY <1>0, <1>1, <1>2, <2>1, Induction
<1>4. PICK f : f = [j \in 0 .. n |-> f[j]] /\ upto(f, n)
  BY <1>3
<1>5. \A j \in 0 .. n : f[j] = Further(w, f, j)
  BY <1>0, <1>4
<1>6. f = [j \in 0 .. n |-> Further(w, f, j)]
  BY <1>4, <1>5
<1>7. IsEnds(w, f)
  BY <1>6 DEF IsEnds, n
<1> QED BY <1>7

LEMMA EndStep ==
  ASSUME NEW w \in Seq(Record)
  PROVE  /\ Len(w) \in Nat
         /\ EndOf(w, 0) = 0
         /\ \A j \in 1 .. Len(w) : /\ w[j] \in Record /\ SpanOf(w, j) \in Nat /\ SpanOf(w, j) >= HeaderSize
                                   /\ EndOf(w, j - 1) \in Nat
                                   /\ EndOf(w, j) = EndOf(w, j - 1) + SpanOf(w, j)
         /\ \A j \in 0 .. Len(w) : EndOf(w, j) \in Nat
<1> DEFINE f == CHOOSE g : IsEnds(w, g)
           n == Len(w)
           S == {m \in Nat : m <= n => f[m] \in Nat}
<1>1. IsEnds(w, f)
  BY EndsExist
<1>2. \A k : EndOf(w, k) = f[k]
  BY DEF EndOf
<1>3. n \in Nat
  BY LenProperties
<1> HIDE DEF f
<1>4. f[0] = 0 /\ \A j \in 1 .. n : f[j] = f[j - 1] + HeaderSize + Len(w[j].payload)
  <2>1. \A j \in 0 .. n : f[j] = Further(w, f, j)
    BY <1>1 DEF IsEnds
  <2>2. 0 \in 0 .. n /\ \A j \in 1 .. n : j \in 0 .. n /\ j # 0
    BY <1>3
  <2> HIDE DEF n
  <2> QED BY <2>1, <2>2 DEF Further
<1>5. \A j \in 1 .. n : w[j] \in Record /\ Len(w[j].payload) \in Nat
  <2>1. \A j \in 1 .. n : w[j] \in Record
    BY ElementOfSeq
  <2> QED BY <2>1, RecordIs
<1>6. \A j \in 1 .. n : SpanOf(w, j) \in Nat /\ SpanOf(w, j) >= HeaderSize
  BY <1>5 DEF SpanOf, HeaderSize
<1>7. \A m \in Nat : m \in S
  <2>1. 0 \in S
    BY <1>4
  <2>2. ASSUME NEW m \in Nat, m \in S PROVE m + 1 \in S
    <3> SUFFICES ASSUME m + 1 <= n PROVE f[m + 1] \in Nat
      OBVIOUS
    <3>1. m <= n /\ m + 1 \in 1 .. n /\ (m + 1) - 1 = m
      BY <1>3
    <3>2. f[m] \in Nat
      BY <2>2, <3>1
    <3>3. f[m + 1] = f[m] + HeaderSize + Len(w[m + 1].payload)
      BY <1>4, <3>1
    <3>4. Len(w[m + 1].payload) \in Nat
      BY <1>5, <3>1
    <3> QED BY <3>2, <3>3, <3>4 DEF HeaderSize
  <2>3. S \in SUBSET Nat
    OBVIOUS
  <2> HIDE DEF S
  <2> QED BY <2>1, <2>2, <2>3, Induction
<1>8. \A j \in 0 .. n : f[j] \in Nat
  <2>1. \A j \in 0 .. n : j \in Nat /\ j <= n
    BY <1>3
  <2> QED BY <1>7, <2>1
<1>9. ASSUME NEW j \in 1 .. n PROVE f[j - 1] \in Nat /\ f[j] = f[j - 1] + SpanOf(w, j)
  <2>1. j - 1 \in 0 .. n
    BY <1>3
  <2>2. f[j - 1] \in Nat
    BY <1>8, <2>1
  <2>3. f[j] = f[j - 1] + HeaderSize + Len(w[j].payload) /\ Len(w[j].payload) \in Nat
    BY <1>4, <1>5
  <2> QED BY <2>2, <2>3 DEF SpanOf, HeaderSize
<1> QED BY <1>2, <1>3, <1>4, <1>5, <1>6, <1>8, <1>9

LEMMA EndMonotone ==
  ASSUME NEW w \in Seq(Record), NEW i \in 0 .. Len(w), NEW j \in i .. Len(w)
  PROVE  EndOf(w, i) <= EndOf(w, j)
<1> DEFINE S == {m \in Nat : i + m <= Len(w) => EndOf(w, i) <= EndOf(w, i + m)}
<1>0. Len(w) \in Nat /\ i \in Nat /\ \A k \in 0 .. Len(w) : EndOf(w, k) \in Nat
  BY EndStep
<1>1. 0 \in S
  <2>1. i + 0 = i /\ EndOf(w, i) \in Nat
    BY <1>0
  <2>2. EndOf(w, i) <= EndOf(w, i + 0)
    BY <2>1
  <2> QED BY <2>2
<1>2. ASSUME NEW m \in Nat, m \in S PROVE m + 1 \in S
  <2> SUFFICES ASSUME i + (m + 1) <= Len(w) PROVE EndOf(w, i) <= EndOf(w, i + (m + 1))
    OBVIOUS
  <2> DEFINE k == i + (m + 1)
  <2>1. k \in 1 .. Len(w) /\ k - 1 = i + m /\ i + m <= Len(w)
    BY <1>0
  <2>2. EndOf(w, i) <= EndOf(w, k - 1)
    BY <1>2, <2>1
  <2> HIDE DEF k
  <2>3. /\ EndOf(w, k) = EndOf(w, k - 1) + SpanOf(w, k)
        /\ SpanOf(w, k) \in Nat /\ EndOf(w, k - 1) \in Nat
    BY <2>1, EndStep
  <2>4. EndOf(w, i) <= EndOf(w, k)
    BY <1>0, <2>2, <2>3
  <2> QED BY <2>4 DEF k
<1>3. j - i \in S
  <2>1. S \in SUBSET Nat /\ j - i \in Nat
    BY <1>0
  <2> HIDE DEF S
  <2> QED BY <1>1, <1>2, <2>1, Induction
<1>4. i + (j - i) = j /\ j <= Len(w)
  BY <1>0
<1> QED BY <1>3, <1>4

\* The first records end where they end, whatever follows.
LEMMA EndSame ==
  ASSUME NEW w \in Seq(Record), NEW v \in Seq(Record),
         Len(w) <= Len(v), \A j \in 1 .. Len(w) : v[j] = w[j],
         NEW k \in 0 .. Len(w)
  PROVE  EndOf(v, k) = EndOf(w, k)
<1> DEFINE S == {m \in Nat : m <= Len(w) => EndOf(v, m) = EndOf(w, m)}
<1>0. Len(w) \in Nat /\ Len(v) \in Nat
  BY EndStep
<1>1. 0 \in S
  BY EndStep
<1>2. ASSUME NEW m \in Nat, m \in S PROVE m + 1 \in S
  <2> SUFFICES ASSUME m + 1 <= Len(w) PROVE EndOf(v, m + 1) = EndOf(w, m + 1)
    OBVIOUS
  <2>1. m + 1 \in 1 .. Len(w) /\ m + 1 \in 1 .. Len(v) /\ (m + 1) - 1 = m /\ m <= Len(w)
    BY <1>0
  <2>2. EndOf(v, m) = EndOf(w, m)
    BY <1>2, <2>1
  <2>3. SpanOf(v, m + 1) = SpanOf(w, m + 1)
    BY <2>1 DEF SpanOf
  <2>4. /\ EndOf(w, m + 1) = EndOf(w, m) + SpanOf(w, m + 1)
        /\ EndOf(v, m + 1) = EndOf(v, m) + SpanOf(v, m + 1)
    BY <2>1, EndStep
  <2> QED BY <2>2, <2>3, <2>4
<1>3. k \in S
  <2>1. S \in SUBSET Nat /\ k \in Nat
    BY <1>0
  <2> HIDE DEF S
  <2> QED BY <1>1, <1>2, <2>1, Induction
<1> QED BY <1>0, <1>3

\* Every cell is one of some record.
LEMMA Locate ==
  ASSUME NEW w \in Seq(Record), NEW x \in 1 .. EndOf(w, Len(w))
  PROVE  \E j \in 1 .. Len(w), i \in Nat : i \in 1 .. SpanOf(w, j) /\ x = EndOf(w, j - 1) + i
<1> DEFINE S == {j \in 0 .. Len(w) : x <= EndOf(w, j)}
<1>0. Len(w) \in Nat /\ \A k \in 0 .. Len(w) : EndOf(w, k) \in Nat
  BY EndStep
<1>1. S \in SUBSET Nat /\ S # {}
  <2>1. Len(w) \in 0 .. Len(w) /\ EndOf(w, Len(w)) \in Nat
    BY <1>0
  <2>2. x <= EndOf(w, Len(w))
    BY <2>1
  <2>3. Len(w) \in S
    BY <2>1, <2>2
  <2> QED BY <2>3
<1>2. PICK j \in S : \A k \in S : j <= k
  <2> HIDE DEF S
  <2> QED BY <1>1, Least
<1>3. j \in 0 .. Len(w) /\ x <= EndOf(w, j)
  BY <1>2
<1>4. j # 0
  <2> SUFFICES ASSUME j = 0 PROVE FALSE
    OBVIOUS
  <2>1. x <= 0
    BY <1>3, EndStep
  <2>2. EndOf(w, Len(w)) \in Nat
    BY <1>0
  <2> QED BY <2>1, <2>2
<1>5. j \in 1 .. Len(w) /\ j - 1 \in 0 .. Len(w) /\ ~ (j <= j - 1)
  BY <1>0, <1>3, <1>4
<1>6. ~ (x <= EndOf(w, j - 1))
  BY <1>2, <1>5
<1>7. EndOf(w, j - 1) \in Nat /\ EndOf(w, j) = EndOf(w, j - 1) + SpanOf(w, j) /\ SpanOf(w, j) \in Nat
  BY <1>5, EndStep
<1> DEFINE i == x - EndOf(w, j - 1)
<1>8. x \in Int
  <2>1. EndOf(w, Len(w)) \in Nat
    BY <1>0
  <2> QED BY <2>1
<1>9. i \in 1 .. SpanOf(w, j) /\ i \in Nat /\ x = EndOf(w, j - 1) + i
  BY <1>3, <1>6, <1>7, <1>8
<1> QED BY <1>5, <1>9

-----------------------------------------------------------------------------
(* The invariant, of any records w, cells b, and number k of intact cells. *)

Faithful(w, b, k) ==
  \A j \in 1 .. Len(w) : \A i \in 1 .. SpanOf(w, j) :
    EndOf(w, j - 1) + i <= Len(b) =>
      (b[EndOf(w, j - 1) + i] = Encode(w[j])[i] <=> EndOf(w, j - 1) + i # k + 1)

Holds(w, b, k, d) ==
  /\ w \in Seq(Record) /\ b \in Seq(Cells) /\ k \in 0 .. Len(b)
  /\ Len(b) <= EndOf(w, Len(w))
  /\ Len(b) = EndOf(w, Len(w)) \/ k = Len(b)
  /\ ~ d => Len(b) = EndOf(w, Len(w)) /\ k = Len(b)
  /\ Faithful(w, b, k)

LEMMA IInvIs ==
  /\ IInv <=> Holds(written, buf, intact, damaged)
  /\ IInv' <=> Holds(written', buf', intact', damaged')
<1>1. AsWritten <=> Faithful(written, buf, intact)
  BY ExtentIs DEF AsWritten, Faithful
<1>2. AsWritten' <=> Faithful(written', buf', intact')
  BY DEF AsWritten, Faithful, Extent, EndOf, IsEnds, Further
<1>3. Extent(Len(written)) = EndOf(written, Len(written))
  BY ExtentIs
<1>4. Extent(Len(written))' = EndOf(written', Len(written'))
  BY ExtentIs DEF Extent, EndOf, IsEnds, Further
<1> QED BY <1>1, <1>2, <1>3, <1>4 DEF IInv, Holds

\* A record's cells lie where it does.
LEMMA CellOf ==
  ASSUME NEW w \in Seq(Record), NEW j \in 1 .. Len(w), NEW i \in 1 .. SpanOf(w, j)
  PROVE  /\ i \in Nat /\ EndOf(w, j - 1) \in Nat
         /\ EndOf(w, j - 1) + i \in 1 .. EndOf(w, Len(w))
         /\ w[j] \in Record /\ SpanOf(w, j) = Len(Encode(w[j]))
<1>1. /\ Len(w) \in Nat /\ w[j] \in Record /\ SpanOf(w, j) \in Nat /\ EndOf(w, j - 1) \in Nat
      /\ EndOf(w, j) = EndOf(w, j - 1) + SpanOf(w, j) /\ EndOf(w, Len(w)) \in Nat
  <2>1. Len(w) \in Nat
    BY EndStep
  <2>2. Len(w) \in 0 .. Len(w)
    BY <2>1
  <2> QED BY <2>1, <2>2, EndStep
<1>2. EndOf(w, j) <= EndOf(w, Len(w))
  <2>1. j \in 0 .. Len(w) /\ Len(w) \in j .. Len(w)
    BY <1>1
  <2> QED BY <2>1, EndMonotone
<1>3. SpanOf(w, j) = Len(Encode(w[j]))
  BY <1>1, EncodeIs DEF SpanOf
<1> QED BY <1>1, <1>2, <1>3

LEMMA InitHolds == Init => IInv
<1> SUFFICES ASSUME Init PROVE Holds(written, buf, intact, damaged)
  BY IInvIs
<1>1. written = <<>> /\ buf = <<>> /\ intact = 0
  BY DEF Init
<1>2. <<>> \in Seq(Record) /\ <<>> \in Seq(Cells) /\ Len(<<>>) = 0
  BY EmptySeq
<1>3. EndOf(written, 0) = 0
  BY <1>1, <1>2, EndStep
<1>4. Faithful(written, buf, intact)
  BY <1>1, <1>2 DEF Faithful
<1> QED BY <1>1, <1>2, <1>3, <1>4 DEF Holds

LEMMA WriteKeeps ==
  ASSUME IInv, Write
  PROVE  IInv'
<1>1. Holds(written, buf, intact, damaged)
  BY IInvIs
<1>2. PICK r \in Record : written' = Append(written, r) /\ buf' = buf \o Encode(r)
  BY DEF Write
<1>3. /\ ~ damaged /\ written \in Seq(Record) /\ buf \in Seq(Cells)
      /\ Len(buf) = EndOf(written, Len(written)) /\ intact = Len(buf)
      /\ Faithful(written, buf, intact) /\ intact' = Len(buf') /\ damaged' = damaged
  BY <1>1 DEF Write, Holds
<1> DEFINE n == Len(written)
           e == Encode(r)
<1>4. /\ n \in Nat /\ written' \in Seq(Record) /\ Len(written') = n + 1
      /\ \A j \in 1 .. n : written'[j] = written[j]
      /\ written'[n + 1] = r
  BY <1>2, <1>3, LenProperties, AppendProperties
<1>5. /\ Len(buf) \in Nat /\ e \in Seq(Cells) /\ Len(e) \in Nat /\ Len(e) = SpanOf(written', n + 1)
  BY <1>3, <1>4, EncodeIs, LenProperties DEF SpanOf
<1>6. /\ buf' \in Seq(Cells) /\ Len(buf') = Len(buf) + Len(e)
      /\ \A i \in 1 .. Len(buf) : buf'[i] = buf[i]
      /\ \A i \in 1 .. Len(e) : buf'[Len(buf) + i] = e[i]
  <2>1. /\ buf \o e \in Seq(Cells)
        /\ Len(buf \o e) = Len(buf) + Len(e)
        /\ \A i \in 1 .. Len(buf) + Len(e) :
             (buf \o e)[i] = IF i <= Len(buf) THEN buf[i] ELSE e[i - Len(buf)]
    BY <1>3, <1>5, ConcatProperties
  <2> HIDE DEF e
  <2>2. buf' = buf \o e
    BY <1>2 DEF e
  <2>3. \A i \in 1 .. Len(buf) : i \in 1 .. Len(buf) + Len(e) /\ i <= Len(buf)
    BY <1>5
  <2>4. \A i \in 1 .. Len(e) : /\ Len(buf) + i \in 1 .. Len(buf) + Len(e)
                               /\ ~ (Len(buf) + i <= Len(buf))
                               /\ (Len(buf) + i) - Len(buf) = i
    BY <1>5
  <2>5. \A i \in 1 .. Len(buf) : buf'[i] = buf[i]
    BY <2>1, <2>2, <2>3
  <2>6. \A i \in 1 .. Len(e) : buf'[Len(buf) + i] = e[i]
    BY <2>1, <2>2, <2>4
  <2> QED BY <2>1, <2>2, <2>5, <2>6
<1>7. \A k \in 0 .. n : EndOf(written', k) = EndOf(written, k)
  BY <1>3, <1>4, EndSame
<1>8. Len(buf') = EndOf(written', n + 1) /\ EndOf(written', n) = Len(buf)
  <2>1. n + 1 \in 1 .. Len(written') /\ (n + 1) - 1 = n /\ n \in 0 .. n
    BY <1>4
  <2>2. EndOf(written', n + 1) = EndOf(written', n) + SpanOf(written', n + 1)
    BY <1>4, <2>1, EndStep
  <2> QED BY <1>3, <1>5, <1>6, <1>7, <2>1, <2>2
<1>9. Faithful(written', buf', intact')
  <2> SUFFICES ASSUME NEW j \in 1 .. Len(written'), NEW i \in 1 .. SpanOf(written', j),
                      EndOf(written', j - 1) + i <= Len(buf')
               PROVE  buf'[EndOf(written', j - 1) + i] = Encode(written'[j])[i]
                      <=> EndOf(written', j - 1) + i # intact' + 1
    BY DEF Faithful
  <2> DEFINE x == EndOf(written', j - 1) + i
  <2>1. x # intact' + 1
    <3>1. x \in Nat
      BY <1>4, CellOf
    <3>2. Len(buf') \in Nat
      BY <1>5, <1>6
    <3> QED BY <1>3, <3>1, <3>2
  <2>2. buf'[x] = Encode(written'[j])[i]
    <3>1. CASE j = n + 1
      <4>1. x = Len(buf) + i /\ i \in 1 .. Len(e)
        <5>1. j - 1 = n
          BY <1>4, <3>1
        <5> QED BY <1>5, <1>8, <3>1, <5>1
      <4>2. buf'[Len(buf) + i] = e[i]
        BY <1>6, <4>1
      <4> QED BY <1>4, <3>1, <4>1, <4>2
    <3>2. CASE j # n + 1
      <4>1. j \in 1 .. n /\ j - 1 \in 0 .. n
        BY <1>4, <3>2
      <4>2. written'[j] = written[j] /\ SpanOf(written', j) = SpanOf(written, j)
        BY <1>4, <4>1 DEF SpanOf
      <4>3. x = EndOf(written, j - 1) + i
        BY <1>7, <4>1
      <4>4. i \in 1 .. SpanOf(written, j)
        BY <4>2
      <4>5. x \in 1 .. Len(buf)
        BY <1>3, <4>1, <4>3, <4>4, CellOf
      <4>6. x # intact + 1 /\ x <= Len(buf)
        BY <1>3, <1>5, <4>5
      <4>7. buf[x] = Encode(written[j])[i]
        BY <1>3, <4>1, <4>3, <4>4, <4>6 DEF Faithful
      <4> HIDE DEF x
      <4> QED BY <1>6, <4>2, <4>5, <4>7
    <3> QED BY <3>1, <3>2
  <2> QED BY <2>1, <2>2
<1>10. intact' \in 0 .. Len(buf') /\ Len(buf') <= EndOf(written', Len(written'))
  <2>1. Len(buf') \in Nat
    BY <1>5, <1>6
  <2> QED BY <1>3, <1>4, <1>8, <2>1
<1>11. Holds(written', buf', intact', damaged')
  BY <1>3, <1>4, <1>6, <1>8, <1>9, <1>10 DEF Holds
<1> QED BY <1>11, IInvIs

LEMMA TearKeeps ==
  ASSUME IInv, Tear
  PROVE  IInv'
<1>1. Holds(written, buf, intact, damaged)
  BY IInvIs
<1>2. PICK n \in 0 .. Len(buf) - 1 : buf' = SubSeq(buf, 1, n) /\ intact' = n
  BY DEF Tear
<1>3. /\ written \in Seq(Record) /\ buf \in Seq(Cells)
      /\ Len(buf) = EndOf(written, Len(written)) /\ intact = Len(buf)
      /\ Faithful(written, buf, intact) /\ written' = written
  BY <1>1 DEF Tear, Holds
<1>4. damaged' = TRUE /\ Len(buf) \in Nat /\ n \in Nat /\ n < Len(buf) /\ 0 + n <= Len(buf)
  BY <1>3, LenProperties DEF Tear
<1>5. buf' \in Seq(Cells) /\ Len(buf') = n /\ \A i \in 1 .. n : buf'[i] = buf[i]
  <2> DEFINE z == SubSeq(buf, 0 + 1, 0 + n)
  <2>1. z \in Seq(Cells) /\ Len(z) = n /\ \A i \in 1 .. n : z[i] = buf[0 + i]
    BY <1>3, <1>4, PartIs
  <2>2. z = buf'
    BY <1>2, <1>4
  <2>3. \A i \in 1 .. n : 0 + i = i
    OBVIOUS
  <2> HIDE DEF z
  <2> QED BY <2>1, <2>2, <2>3
<1>6. Faithful(written', buf', intact')
  <2> SUFFICES ASSUME NEW j \in 1 .. Len(written), NEW i \in 1 .. SpanOf(written, j),
                      EndOf(written, j - 1) + i <= Len(buf')
               PROVE  buf'[EndOf(written, j - 1) + i] = Encode(written[j])[i]
                      <=> EndOf(written, j - 1) + i # intact' + 1
    BY <1>3 DEF Faithful
  <2> DEFINE x == EndOf(written, j - 1) + i
  <2>1. x \in 1 .. Len(buf)
    BY <1>3, CellOf
  <2> HIDE DEF x
  <2>2. x \in 1 .. n /\ x # intact' + 1 /\ x # intact + 1 /\ x <= Len(buf)
    <3>1. x <= n
      BY <1>5 DEF x
    <3> QED BY <1>2, <1>3, <1>4, <2>1, <3>1
  <2>3. buf[x] = Encode(written[j])[i]
    BY <1>3, <2>2 DEF Faithful, x
  <2> QED BY <1>5, <2>2, <2>3 DEF x
<1>7. Holds(written', buf', intact', damaged')
  <2>1. intact' \in 0 .. Len(buf') /\ Len(buf') <= EndOf(written', Len(written'))
    BY <1>2, <1>3, <1>4, <1>5
  <2> QED BY <1>2, <1>3, <1>4, <1>5, <1>6, <2>1 DEF Holds
<1> QED BY <1>7, IInvIs

\* A changed cell is another cell, also where it was a crc.
LEMMA CorruptKeeps ==
  ASSUME IInv, Corrupt
  PROVE  IInv'
<1>1. Holds(written, buf, intact, damaged)
  BY IInvIs
<1>2. PICK c \in DOMAIN buf :
        /\ \E v \in IF c \in CrcCells THEN {<<>>} ELSE {buf[c] - 1, buf[c] + 1} \cap Nat :
             buf' = [buf EXCEPT ![c] = v]
        /\ intact' = c - 1
  BY DEF Corrupt
<1>3. PICK v \in IF c \in CrcCells THEN {<<>>} ELSE {buf[c] - 1, buf[c] + 1} \cap Nat :
        buf' = [buf EXCEPT ![c] = v]
  BY <1>2
<1>4. /\ written \in Seq(Record) /\ buf \in Seq(Cells)
      /\ Len(buf) = EndOf(written, Len(written)) /\ intact = Len(buf)
      /\ Faithful(written, buf, intact) /\ written' = written /\ damaged' = TRUE
  BY <1>1 DEF Corrupt, Holds
<1>5. Len(buf) \in Nat /\ c \in 1 .. Len(buf)
  BY <1>4, LenProperties
<1>6. ASSUME NEW j \in 1 .. Len(written), NEW i \in 1 .. SpanOf(written, j)
      PROVE  /\ EndOf(written, j - 1) + i \in 1 .. Len(buf)
             /\ buf[EndOf(written, j - 1) + i] = Encode(written[j])[i]
  <2> DEFINE x == EndOf(written, j - 1) + i
  <2>1. x \in 1 .. Len(buf)
    BY <1>4, CellOf
  <2> HIDE DEF x
  <2>2. x # intact + 1 /\ x <= Len(buf)
    BY <1>4, <1>5, <2>1
  <2> QED BY <1>4, <2>1, <2>2 DEF Faithful, x
<1>7. v \in Cells /\ v # buf[c]
  <2>1. CASE c \in CrcCells
    <3>1. v = <<>>
      BY <1>3, <2>1
    <3>2. PICK k \in 0 .. Len(written) - 1 : c = EndOf(written, k) + 4
      BY <2>1, ExtentIs DEF CrcCells
    <3>3. k + 1 \in 1 .. Len(written) /\ (k + 1) - 1 = k
      BY <1>4, LenProperties
    <3>4. written[k + 1] \in Record /\ 4 \in 1 .. SpanOf(written, k + 1)
      BY <1>4, <3>3, EndStep DEF HeaderSize
    <3>5. buf[c] = Encode(written[k + 1])[4]
      BY <1>6, <3>2, <3>3, <3>4
    <3>6. buf[c] # <<>>
      BY <3>4, <3>5, EncodeIs
    <3> QED BY <3>1, <3>6, EmptySeq DEF Cells
  <2>2. CASE c \notin CrcCells
    <3>1. v \in {buf[c] - 1, buf[c] + 1} /\ v \in Nat
      BY <1>3, <2>2
    <3>2. PICK j \in 1 .. Len(written), i \in Nat :
            i \in 1 .. SpanOf(written, j) /\ c = EndOf(written, j - 1) + i
      BY <1>4, <1>5, Locate
    <3>3. i # 4
      <4> SUFFICES ASSUME i = 4 PROVE FALSE
        OBVIOUS
      <4>1. j - 1 \in 0 .. Len(written) - 1 /\ c = Extent(j - 1) + 4
        BY <1>4, <3>2, LenProperties, ExtentIs
      <4>2. c \in CrcCells
        BY <4>1 DEF CrcCells
      <4> QED BY <2>2, <4>2
    <3>4. buf[c] = Encode(written[j])[i]
      BY <1>6, <3>2
    <3>5. written[j] \in Record /\ i \in 1 .. Len(Encode(written[j]))
      BY <1>4, <3>2, CellOf
    <3>6. buf[c] \in Nat
      BY <3>3, <3>4, <3>5, EncodeIs
    <3>7. v # buf[c]
      BY <3>1, <3>6
    <3> QED BY <3>1, <3>7 DEF Cells
  <2> QED BY <2>1, <2>2
<1>8. /\ buf' \in Seq(Cells) /\ Len(buf') = Len(buf)
      /\ \A x \in 1 .. Len(buf) : buf'[x] = IF x = c THEN v ELSE buf[x]
  BY <1>3, <1>4, <1>5, <1>7, ExceptSeq
<1>9. Faithful(written', buf', intact')
  <2> SUFFICES ASSUME NEW j \in 1 .. Len(written), NEW i \in 1 .. SpanOf(written, j)
               PROVE  buf'[EndOf(written, j - 1) + i] = Encode(written[j])[i]
                      <=> EndOf(written, j - 1) + i # intact' + 1
    BY <1>4 DEF Faithful
  <2> DEFINE x == EndOf(written, j - 1) + i
  <2>1. x \in 1 .. Len(buf) /\ buf[x] = Encode(written[j])[i]
    BY <1>6
  <2> HIDE DEF x
  <2>2. x # intact' + 1 <=> x # c
    BY <1>2, <1>5, <2>1
  <2>3. buf'[x] = Encode(written[j])[i] <=> x # c
    BY <1>7, <1>8, <2>1
  <2> QED BY <2>2, <2>3 DEF x
<1>10. Holds(written', buf', intact', damaged')
  <2>1. intact' \in 0 .. Len(buf') /\ Len(buf') <= EndOf(written', Len(written'))
    BY <1>2, <1>4, <1>5, <1>8
  <2> QED BY <1>4, <1>8, <1>9, <2>1 DEF Holds
<1> QED BY <1>10, IInvIs

LEMMA SpecIInv == Spec => []IInv
<1>1. Init => IInv
  BY InitHolds
<1>2. IInv /\ [Next]_vars => IInv'
  <2> SUFFICES ASSUME IInv, [Next]_vars PROVE IInv'
    OBVIOUS
  <2>1. CASE Write
    BY <2>1, WriteKeeps
  <2>2. CASE Tear
    BY <2>2, TearKeeps
  <2>3. CASE Corrupt
    BY <2>3, CorruptKeeps
  <2>4. CASE UNCHANGED vars
    <3>1. written' = written /\ buf' = buf /\ intact' = intact /\ damaged' = damaged
      BY <2>4 DEF vars
    <3> QED BY <3>1, IInvIs
  <2> QED BY <2>1, <2>2, <2>3, <2>4 DEF Next
<1> QED BY <1>1, <1>2, PTL DEF Spec

-----------------------------------------------------------------------------
(* What the decoder makes of such a segment.                               *)

LEMMA Greatest ==
  ASSUME NEW N \in Nat, NEW S \in SUBSET (0 .. N), S # {}
  PROVE  \E m \in S : \A x \in S : x <= m
<1> DEFINE T == {N - x : x \in S}
<1>1. T \in SUBSET Nat /\ T # {}
  <2>1. \A x \in S : N - x \in Nat
    OBVIOUS
  <2> QED BY <2>1
<1>2. PICK t \in T : \A u \in T : t <= u
  BY <1>1, Least
<1>3. PICK m \in S : t = N - m
  BY <1>2
<1>4. \A x \in S : N - m <= N - x
  BY <1>2, <1>3
<1>5. \A x \in S : x <= m
  BY <1>4
<1> QED BY <1>5

\* A record that ends before the damage decodes to itself.
LEMMA DecodesBefore ==
  ASSUME NEW w \in Seq(Record), NEW b \in Seq(Cells), NEW k \in 0 .. Len(b), Faithful(w, b, k),
         NEW j \in 1 .. Len(w), EndOf(w, j) <= k
  PROVE  /\ Sound(b, EndOf(w, j - 1)) /\ RecordAt(b, EndOf(w, j - 1)) = w[j]
         /\ NextAt(b, EndOf(w, j - 1)) = EndOf(w, j)
<1> DEFINE p == EndOf(w, j - 1)
           e == Encode(w[j])
<1>1. /\ Len(b) \in Nat /\ w[j] \in Record /\ p \in Nat /\ SpanOf(w, j) \in Nat
      /\ EndOf(w, j) = p + SpanOf(w, j)
  BY EndStep, LenProperties
<1>2. Len(e) = SpanOf(w, j)
  BY <1>1, EncodeIs DEF SpanOf
<1>3. ASSUME NEW i \in 1 .. Len(e) PROVE b[p + i] = e[i]
  <2>1. i \in 1 .. SpanOf(w, j)
    BY <1>2
  <2>2. p + i <= Len(b) /\ p + i # k + 1
    BY <1>1, <2>1
  <2> QED BY <2>1, <2>2 DEF Faithful
<1>4. p + Len(e) <= Len(b)
  BY <1>1, <1>2
<1> HIDE DEF p
<1>5. Sound(b, p) /\ Total(b, p) = Len(e) /\ RecordAt(b, p) = w[j]
  BY <1>1, <1>3, <1>4, DecodesIntact
<1>6. NextAt(b, p) = EndOf(w, j)
  BY <1>1, <1>2, <1>5 DEF NextAt
<1> QED BY <1>5, <1>6 DEF p

\* What follows them is not a record: nothing, a part of one or a changed one.
LEMMA StopsAtDamage ==
  ASSUME NEW w, NEW b, NEW k, NEW d, Holds(w, b, k, d),
         NEW j \in 0 .. Len(w), EndOf(w, j) <= k,
         j # Len(w) => ~ (EndOf(w, j + 1) <= k)
  PROVE  EndOf(w, j) \in 0 .. Len(b) /\ ~ Sound(b, EndOf(w, j))
<1> DEFINE p == EndOf(w, j)
<1>1. /\ w \in Seq(Record) /\ b \in Seq(Cells) /\ k \in 0 .. Len(b) /\ Faithful(w, b, k)
      /\ Len(b) <= EndOf(w, Len(w)) /\ (Len(b) = EndOf(w, Len(w)) \/ k = Len(b))
  BY DEF Holds
<1>2. Len(b) \in Nat /\ p \in Nat /\ Len(w) \in Nat /\ EndOf(w, Len(w)) \in Nat
  <2>1. Len(w) \in Nat /\ Len(b) \in Nat
    BY <1>1, LenProperties
  <2>2. Len(w) \in 0 .. Len(w)
    BY <2>1
  <2> QED BY <1>1, <2>1, <2>2, EndStep
<1>3. p \in 0 .. Len(b)
  BY <1>1, <1>2
<1>4. CASE j = Len(w)
  <2>1. p = Len(b)
    BY <1>1, <1>2, <1>4
  <2> QED BY <1>2, <1>3, <2>1 DEF Sound, HeaderSize
<1>5. CASE j # Len(w)
  <2> DEFINE r == w[j + 1]
             e == Encode(r)
  <2>1. j + 1 \in 1 .. Len(w) /\ (j + 1) - 1 = j
    BY <1>2, <1>5
  <2>2. r \in Record /\ SpanOf(w, j + 1) \in Nat /\ EndOf(w, j + 1) = p + SpanOf(w, j + 1)
    BY <1>1, <2>1, EndStep
  <2>3. Len(e) = SpanOf(w, j + 1) /\ Len(e) \in Nat
    BY <2>2, EncodeIs DEF SpanOf
  <2>4. \A i \in 1 .. Len(e) : p + i <= Len(b) => (b[p + i] = e[i] <=> p + i # k + 1)
    BY <1>1, <2>1, <2>3 DEF Faithful
  <2>5. EndOf(w, j + 1) <= EndOf(w, Len(w))
    <3>1. j + 1 \in 0 .. Len(w) /\ Len(w) \in j + 1 .. Len(w)
      BY <1>2, <2>1
    <3> QED BY <1>1, <3>1, EndMonotone
  <2>6. p + Len(e) > k
    BY <1>1, <1>2, <1>5, <2>2, <2>3
  <2> HIDE DEF p, r
  <2>7. CASE k = Len(b)
    <3>1. \A i \in 1 .. Len(e) : p + i <= Len(b) => p + i # k + 1
      BY <1>2, <2>7
    <3>2. \A i \in 1 .. Len(e) : p + i <= Len(b) => b[p + i] = e[i]
      BY <2>4, <3>1
    <3>3. ~ Sound(b, p)
      BY <1>1, <1>3, <2>2, <2>6, <2>7, <3>2, RefusesTorn
    <3> QED BY <1>3, <3>3 DEF p
  <2>8. CASE k # Len(b)
    <3> DEFINE x == (k + 1) - p
    <3>1. Len(b) = EndOf(w, Len(w)) /\ p <= k
      BY <1>1, <2>8 DEF p
    <3>2. p + Len(e) <= Len(b)
      BY <2>2, <2>3, <2>5, <3>1
    <3>3. x \in 1 .. Len(e) /\ \A i \in Nat : p + i # k + 1 <=> i # x
      BY <1>1, <1>2, <2>3, <2>6, <3>1
    <3>4. \A i \in 1 .. Len(e) : i \in Nat /\ p + i <= Len(b)
      BY <1>2, <2>3, <3>2
    <3> HIDE DEF x
    <3>5. \A i \in 1 .. Len(e) : b[p + i] = e[i] <=> i # x
      BY <2>4, <3>3, <3>4
    <3>6. ~ Sound(b, p)
      BY <1>1, <1>2, <2>2, <3>2, <3>3, <3>5, RefusesCorrupt
    <3> QED BY <1>3, <3>6 DEF p
  <2> QED BY <2>7, <2>8
<1> QED BY <1>4, <1>5

LEMMA StreamOf ==
  ASSUME NEW w, NEW b, NEW k, NEW d, Holds(w, b, k, d),
         NEW n \in 0 .. Len(w), EndOf(w, n) <= k,
         n # Len(w) => ~ (EndOf(w, n + 1) <= k)
  PROVE  Stream(b, 0) = [records |-> SubSeq(w, 1, n), residual |-> Len(b) - EndOf(w, n)]
<1>1. w \in Seq(Record) /\ b \in Seq(Cells) /\ k \in 0 .. Len(b) /\ Faithful(w, b, k)
  BY DEF Holds
<1>2. /\ Len(b) \in Nat /\ Len(w) \in Nat /\ n \in Nat
      /\ \A j \in 0 .. Len(w) : EndOf(w, j) \in Nat
  BY <1>1, EndStep, LenProperties
<1> DEFINE is(j) == Stream(b, EndOf(w, j)) = [records |-> SubSeq(w, j + 1, n),
                                              residual |-> Len(b) - EndOf(w, n)]
           S == {m \in Nat : m <= n => is(n - m)}
<1>3. 0 \in S
  <2>1. EndOf(w, n) \in 0 .. Len(b) /\ ~ Sound(b, EndOf(w, n))
    BY StopsAtDamage
  <2>2. Stream(b, EndOf(w, n)) = [records |-> <<>>, residual |-> Len(b) - EndOf(w, n)]
    BY <1>1, <2>1, StreamStep
  <2>3. SubSeq(w, n + 1, n) = <<>>
    BY <1>2, SubSeqEmpty
  <2>4. n - 0 = n
    BY <1>2
  <2>5. is(n)
    BY <2>2, <2>3
  <2>6. is(n - 0)
    BY <2>4, <2>5
  <2> QED BY <2>6
<1>4. ASSUME NEW m \in Nat, m \in S PROVE m + 1 \in S
  <2> SUFFICES ASSUME m + 1 <= n PROVE is(n - (m + 1))
    OBVIOUS
  <2> DEFINE j == n - m
             p == EndOf(w, j - 1)
  <2>1. /\ m <= n /\ j \in 1 .. Len(w) /\ j - 1 = n - (m + 1) /\ n \in j .. Len(w)
        /\ j \in 0 .. Len(w) /\ j - 1 \in 0 .. Len(w) /\ (j - 1) + 1 = j
    BY <1>2
  <2>2. is(j)
    BY <1>4, <2>1
  <2> HIDE DEF j
  <2>3. EndOf(w, j) <= k
    <3>1. EndOf(w, j) <= EndOf(w, n)
      BY <1>1, <2>1, EndMonotone
    <3> QED BY <1>1, <1>2, <2>1, <3>1
  <2>4. Sound(b, p) /\ RecordAt(b, p) = w[j] /\ NextAt(b, p) = EndOf(w, j)
    BY <1>1, <2>1, <2>3, DecodesBefore
  <2>5. p \in 0 .. Len(b)
    <3>1. p <= EndOf(w, j)
      BY <1>1, <2>1, EndMonotone
    <3>2. p \in Nat /\ EndOf(w, j) \in Nat
      BY <1>2, <2>1
    <3> QED BY <1>1, <1>2, <2>3, <3>1, <3>2
  <2>6. Stream(b, p) = [records |-> <<w[j]>> \o SubSeq(w, j + 1, n),
                        residual |-> Len(b) - EndOf(w, n)]
    <3> HIDE DEF p
    <3>1. Stream(b, p) = [records |-> <<RecordAt(b, p)>> \o Stream(b, NextAt(b, p)).records,
                          residual |-> Stream(b, NextAt(b, p)).residual]
      BY <1>1, <2>4, <2>5, StreamStep
    <3> QED BY <2>2, <2>4, <3>1
  <2>7. SubSeq(w, j, n) = <<w[j]>> \o SubSeq(w, j + 1, n)
    BY <1>1, <2>1, SubSeqRecursiveFirst
  <2>8. is(j - 1)
    BY <2>1, <2>6, <2>7
  <2> QED BY <2>1, <2>8
<1>5. n \in S
  <2>1. S \in SUBSET Nat
    OBVIOUS
  <2> HIDE DEF S
  <2> QED BY <1>2, <1>3, <1>4, <2>1, Induction
<1>6. is(n - n) /\ n - n = 0 /\ 0 + 1 = 1
  BY <1>2, <1>5
<1>7. is(0)
  BY <1>6
<1>8. EndOf(w, 0) = 0
  BY <1>1, EndStep
<1> QED BY <1>6, <1>7, <1>8

LEMMA NoSilentHolds ==
  ASSUME IInv
  PROVE  NoSilentBadRecord
<1>1. Holds(written, buf, intact, damaged)
  BY IInvIs
<1>2. /\ written \in Seq(Record) /\ buf \in Seq(Cells)
      /\ intact \in 0 .. Len(buf)
  BY <1>1 DEF Holds
<1>3. Len(written) \in Nat /\ Len(buf) \in Nat /\ EndOf(written, 0) = 0
  BY <1>2, EndStep, LenProperties
<1> DEFINE K == {k \in 0 .. Len(written) : EndOf(written, k) <= intact}
<1>4. IntactRecords = K
  BY ExtentIs DEF IntactRecords
<1>5. 0 \in K
  BY <1>2, <1>3
<1>6. PICK n \in K : \A j \in K : j <= n
  <2>1. K \in SUBSET (0 .. Len(written)) /\ K # {}
    BY <1>5
  <2> HIDE DEF K
  <2> QED BY <1>3, <2>1, Greatest
<1>7. n \in 0 .. Len(written) /\ EndOf(written, n) <= intact
  BY <1>6
<1>8. n # Len(written) => ~ (EndOf(written, n + 1) <= intact)
  <2> SUFFICES ASSUME n # Len(written), EndOf(written, n + 1) <= intact PROVE FALSE
    OBVIOUS
  <2>1. n + 1 \in 0 .. Len(written) /\ ~ (n + 1 <= n)
    BY <1>3, <1>7
  <2>2. n + 1 \in K
    BY <2>1
  <2> HIDE DEF K
  <2> QED BY <1>6, <2>1, <2>2
<1>9. DecodeStream(buf) = [records |-> SubSeq(written, 1, n),
                           residual |-> Len(buf) - EndOf(written, n)]
  <2>1. Stream(buf, 0) = [records |-> SubSeq(written, 1, n),
                          residual |-> Len(buf) - EndOf(written, n)]
    BY <1>1, <1>7, <1>8, StreamOf
  <2> QED BY <2>1, DecodeStreamIs
<1>10. n \in IntactRecords /\ \A j \in IntactRecords : j <= n
  BY <1>4, <1>6
<1>11. Extent(n) = EndOf(written, n)
  BY ExtentIs
<1> QED BY <1>9, <1>10, <1>11 DEF NoSilentBadRecord

-----------------------------------------------------------------------------
(* A record is returned only if every cell of it is as it was encoded, and *)
(* the records before a torn or changed one are all returned (try_decode's *)
(* checks in their order, decode_stream's stop at the first failure).      *)
THEOREM TornAndCorruptRefused == Spec => []NoSilentBadRecord
BY SpecIInv, NoSilentHolds, PTL

(* The residue that decode_stream reports is where a later call, with more *)
(* of the segment, has to start, wherever the part was cut.                *)
THEOREM PartsDecodeAsWhole == Spec => []Resumable
<1>1. IInv => Resumable
  BY ResumableHolds DEF IInv
<1> QED BY <1>1, SpecIInv, PTL

=============================================================================
