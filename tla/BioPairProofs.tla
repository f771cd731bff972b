--------------------------- MODULE BioPairProofs ---------------------------
(***************************************************************************)
(* Proofs about BioPair, for rings of any sizes, any bytes and calls of any *)
(* length: the representation of the pair stays sound, and the pair is two  *)
(* bounded queues of bytes.                                                 *)
(***************************************************************************)
EXTENDS BioPair, SequenceTheorems, TLAPS

-----------------------------------------------------------------------------
(* The inductive invariant.                                                 *)

\* What a ring may hold at a position.
Cell == Byte \cup {Uninit}

\* The buffers of half s.
Ring(s) == [0..(Size[s] - 1) -> Cell]

\* r is a sound bio_bio_st for half s; the bytes from offset on, len of them, were
\* written.
Half(s, r) ==
  /\ r \in BioBio(s)
  /\ r.len = 0 => r.offset = 0
  /\ r.init => r.len = 0 \/ r.request = 0
  /\ ~r.init => r.len = 0
  /\ \A i \in 1..r.len : r.buf[Wrap(s, r.offset + (i - 1))] \in Byte

IInv ==
  /\ b = [s \in Side |-> b[s]]
  /\ \A s \in Side : Half(s, b[s])
  /\ \A s, t \in Side : b[s].init = b[t].init
  /\ retry \in [Side -> {"none", "read", "write"}]
  /\ freed \in [Side -> BOOLEAN]
  /\ res \in [Side -> [ret : Ret, data : Seq(Byte)]]

\* The invariant implies what the comment at bio_bio_st says.
LEMMA Implied == IInv => StructComment
<1> SUFFICES ASSUME IInv PROVE StructComment
  OBVIOUS
<1>1. \A s \in Side : b[s] \in BioBio(s)
  BY DEF IInv, Half
<1>2. \A s \in Side : b[s] \in
        [init : BOOLEAN, closed : BOOLEAN, len : Nat, offset : Nat, request : Nat,
         buf : UNION {[0..(Size[t] - 1) -> Byte \cup {Uninit}] : t \in Side}]
  <2> SUFFICES ASSUME NEW s \in Side
               PROVE  b[s] \in
        [init : BOOLEAN, closed : BOOLEAN, len : Nat, offset : Nat, request : Nat,
         buf : UNION {[0..(Size[t] - 1) -> Byte \cup {Uninit}] : t \in Side}]
    OBVIOUS
  <2>1. b[s].buf \in UNION {[0..(Size[t] - 1) -> Byte \cup {Uninit}] : t \in Side}
    BY <1>1 DEF BioBio
  <2> HIDE DEF Half
  <2>2. b[s].len \in Nat /\ b[s].offset \in Nat /\ b[s].request \in Nat
    BY <1>1 DEF BioBio
  <2> QED BY <1>1, <2>1, <2>2 DEF BioBio
<1>3. TypeOK
  BY <1>1, <1>2 DEF IInv, TypeOK
<1> QED
  BY <1>3 DEF IInv, Half, StructComment

\* There are two halves.
LEMMA TwoSides ==
  ASSUME NEW s \in Side
  PROVE  /\ Other(s) \in Side
         /\ Other(s) # s
         /\ \A t \in Side : t = s \/ t = Other(s)
  BY PairAssumption DEF Other

\* What a call is given is a sequence of bytes.
LEMMA DataIsSeq ==
  ASSUME NEW data \in Data
  PROVE  data \in Seq(Byte) /\ Len(data) \in 0..MaxLen
<1>1. PICK n \in 0..MaxLen : data \in [1..n -> Byte]
  BY DEF Data
<1> QED BY <1>1, PairAssumption

\* The numbers of a half.
LEMMA Numbers ==
  ASSUME NEW s \in Side, Half(s, b[s])
  PROVE  /\ Size[s] \in Nat /\ Size[s] >= 1
         /\ b[s].len \in Nat /\ b[s].len <= Size[s]
         /\ b[s].offset \in Nat /\ b[s].offset < Size[s]
         /\ b[s].buf \in Ring(s)
  BY PairAssumption DEF Half, BioBio, Cell, Ring

-----------------------------------------------------------------------------
(* The ring.                                                                *)

\* The contents of a ring are len bytes.
LEMMA ContentsSeq ==
  ASSUME NEW s \in Side, Half(s, b[s])
  PROVE  /\ Contents(s) \in Seq(Byte)
         /\ Len(Contents(s)) = b[s].len
         /\ \A i \in 1..b[s].len : Contents(s)[i] = b[s].buf[Wrap(s, b[s].offset + (i - 1))]
<1>1. b[s].len \in Nat
  BY Numbers
<1>2. \A i \in 1..b[s].len : b[s].buf[Wrap(s, b[s].offset + (i - 1))] \in Byte
  BY DEF Half
<1>3. Contents(s) \in [1..b[s].len -> Byte]
  BY <1>2 DEF Contents
<1>4. Contents(s) \in Seq(Byte) /\ Len(Contents(s)) = b[s].len
  BY <1>1, <1>3
<1> QED BY <1>4 DEF Contents

\* One memcpy into the ring of half s.
LEMMA CopyInIs ==
  ASSUME NEW s \in Side, NEW at \in Nat, NEW n \in Nat, NEW j \in Nat,
         NEW buf \in Ring(s), NEW data,
         \A k \in (j + 1)..(j + n) : data[k] \in Byte
  PROVE  /\ CopyIn(buf, at, data, j, n) \in Ring(s)
         /\ \A i \in 0..(Size[s] - 1) : CopyIn(buf, at, data, j, n)[i] =
              IF at <= i /\ i < at + n THEN data[j + (i - at) + 1] ELSE buf[i]
<1> DEFINE f == [i \in 0..(Size[s] - 1) |->
                   IF i \in at..(at + n - 1) THEN data[j + (i - at) + 1] ELSE buf[i]]
<1>1. /\ Size[s] \in Nat /\ DOMAIN buf = 0..(Size[s] - 1)
      /\ \A i \in 0..(Size[s] - 1) : buf[i] \in Cell
  BY PairAssumption DEF Ring
<1>2. CopyIn(buf, at, data, j, n) = f
  BY <1>1 DEF CopyIn
<1>3. ASSUME NEW i \in 0..(Size[s] - 1), i \in at..(at + n - 1)
      PROVE  data[j + (i - at) + 1] \in Byte
  <2>1. j + (i - at) + 1 \in (j + 1)..(j + n)
    BY <1>3
  <2> QED BY <2>1
<1>4. f \in [0..(Size[s] - 1) -> Cell]
  BY <1>1, SMTT(30) DEF Cell
<1>5. \A i \in 0..(Size[s] - 1) : i \in at..(at + n - 1) <=> at <= i /\ i < at + n
  BY <1>1
<1> QED BY <1>2, <1>4, <1>5 DEF Ring

\* One memcpy out of the ring of half s.
LEMMA CopyOutIs ==
  ASSUME NEW s \in Side, NEW at \in Nat, NEW n \in Nat, at + n <= Size[s],
         NEW buf \in Ring(s)
  PROVE  /\ CopyOut(buf, at, n) \in Seq(Cell)
         /\ Len(CopyOut(buf, at, n)) = n
         /\ \A i \in 1..n : CopyOut(buf, at, n)[i] = buf[at + (i - 1)]
<1>1. Size[s] \in Nat /\ \A i \in 0..(Size[s] - 1) : buf[i] \in Cell
  BY PairAssumption DEF Ring
<1>2. \A i \in 1..n : buf[at + (i - 1)] \in Cell
  BY <1>1
<1>3. CopyOut(buf, at, n) \in [1..n -> Cell]
  BY <1>2 DEF CopyOut
<1>4. CopyOut(buf, at, n) \in Seq(Cell) /\ Len(CopyOut(buf, at, n)) = n
  BY <1>3
<1> QED BY <1>4 DEF CopyOut

\* The copy loop of bio_write puts the data behind the bytes that are there, and
\* touches none of them, wherever the end of the buffer falls.
LEMMA FillAppends ==
  ASSUME NEW s \in Side, Half(s, b[s]), NEW data \in Seq(Byte), NEW n \in 1..Len(data),
         b[s].len + n <= Size[s]
  PROVE  /\ Fill(s, data, n) \in Ring(s)
         /\ \A i \in 1..b[s].len :
              Fill(s, data, n)[Wrap(s, b[s].offset + (i - 1))]
                = b[s].buf[Wrap(s, b[s].offset + (i - 1))]
         /\ \A i \in (b[s].len + 1)..(b[s].len + n) :
              Fill(s, data, n)[Wrap(s, b[s].offset + (i - 1))] = data[i - b[s].len]
<1> DEFINE z == Size[s]
           off == b[s].offset
           len == b[s].len
           buf == b[s].buf
           at == Wrap(s, off + len)
           c == FirstChunk(s, at, n)
           first == CopyIn(buf, at, data, 0, c)
           second == CopyIn(first, Wrap(s, off + len + c), data, c, n - c)
<1>1. /\ z \in Nat /\ z >= 1 /\ len \in Nat /\ len <= z /\ off \in Nat /\ off < z
      /\ n \in Nat /\ n >= 1 /\ len + n <= z
  BY Numbers
<1>2. buf \in Ring(s) /\ \A k \in 1..n : data[k] \in Byte
  BY Numbers
<1>3. \A i \in Nat : Wrap(s, i) = IF i >= z THEN i - z ELSE i
  BY DEF Wrap
<1>4. /\ at \in Nat /\ at < z
      /\ at = IF off + len >= z THEN off + len - z ELSE off + len
  BY <1>1, SMTT(30) DEF Wrap
<1>5. /\ c \in Nat /\ c >= 1 /\ c <= n /\ at + c <= z
      /\ c = n \/ at + c = z
  <2>1. c = IF at + n <= z THEN n ELSE z - at
    BY DEF FirstChunk
  <2> HIDE DEF z, off, len, buf, at, c
  <2> QED BY <1>1, <1>4, <2>1
<1>6. /\ first \in Ring(s)
      /\ \A i \in 0..(z - 1) : first[i] = IF at <= i /\ i < at + c
                                          THEN data[i - at + 1] ELSE buf[i]
  <2> HIDE DEF z, off, len, buf, at, c
  <2>1. /\ at \in Nat /\ c \in Nat /\ 0 \in Nat /\ buf \in Ring(s)
        /\ \A k \in (0 + 1)..(0 + c) : data[k] \in Byte
    BY <1>1, <1>4, <1>5, <1>2
  <2>2. /\ CopyIn(buf, at, data, 0, c) \in Ring(s)
        /\ \A i \in 0..(Size[s] - 1) : CopyIn(buf, at, data, 0, c)[i] =
             IF at <= i /\ i < at + c THEN data[0 + (i - at) + 1] ELSE buf[i]
    BY <2>1, CopyInIs
  <2>3. /\ first \in Ring(s)
        /\ \A i \in 0..(z - 1) : first[i] = IF at <= i /\ i < at + c
                                            THEN data[0 + (i - at) + 1] ELSE buf[i]
    BY <2>2 DEF z
  <2> HIDE DEF first
  <2>4. \A i \in 0..(z - 1) : 0 + (i - at) + 1 = i - at + 1
    BY <1>4
  <2> QED BY <2>3, <2>4
<1>7. CASE c = n
  <2>1. Fill(s, data, n) = first
    BY <1>7 DEF Fill
  <2>2. \A i \in 1..len : first[Wrap(s, off + (i - 1))] = buf[Wrap(s, off + (i - 1))]
    <3> HIDE DEF z, off, len, buf, at, c, first, second
    <3> SUFFICES ASSUME NEW i \in 1..len
                 PROVE  first[Wrap(s, off + (i - 1))] = buf[Wrap(s, off + (i - 1))]
      OBVIOUS
    <3>1. PICK w : w = Wrap(s, off + (i - 1))
      OBVIOUS
    <3>2. w \in 0..(z - 1) /\ w = IF off + (i - 1) >= z THEN off + (i - 1) - z ELSE off + (i - 1)
      <4>1. off + (i - 1) \in Nat
        BY <1>1
      <4>2. w = IF off + (i - 1) >= z THEN off + (i - 1) - z ELSE off + (i - 1)
        BY <1>1, <3>1, <4>1 DEF Wrap, z
      <4>3. off + (i - 1) < z + z
        BY <1>1
      <4> QED BY <1>1, <4>1, <4>2, <4>3
    <3>3. ~(at <= w /\ w < at + c)
      BY <1>1, <1>4, <1>5, <3>2
    <3> QED BY <1>6, <3>1, <3>2, <3>3
  <2>3. \A i \in (len + 1)..(len + n) : first[Wrap(s, off + (i - 1))] = data[i - len]
    <3> HIDE DEF z, off, len, buf, at, c, first, second
    <3> SUFFICES ASSUME NEW i \in (len + 1)..(len + n)
                 PROVE  first[Wrap(s, off + (i - 1))] = data[i - len]
      OBVIOUS
    <3>1. PICK w : w = Wrap(s, off + (i - 1))
      OBVIOUS
    <3>2. w \in 0..(z - 1) /\ w = IF off + (i - 1) >= z THEN off + (i - 1) - z ELSE off + (i - 1)
      <4>1. off + (i - 1) \in Nat
        BY <1>1
      <4>2. w = IF off + (i - 1) >= z THEN off + (i - 1) - z ELSE off + (i - 1)
        BY <1>1, <3>1, <4>1 DEF Wrap, z
      <4>3. off + (i - 1) < z + z
        BY <1>1
      <4> QED BY <1>1, <4>1, <4>2, <4>3
    <3>3. at <= w /\ w < at + c /\ w - at + 1 = i - len
      BY <1>1, <1>4, <1>5, <1>7, <3>2
    <3> QED BY <1>6, <3>1, <3>2, <3>3
  <2> QED BY <1>6, <2>1, <2>2, <2>3
<1>8. CASE c # n
  <2>1. Fill(s, data, n) = second
    BY <1>8 DEF Fill
  <2>2. at = off + len /\ at + c = z /\ Wrap(s, off + len + c) = 0
    <3>1. at + c = z
      BY <1>5, <1>8
    <3>2. at = off + len
      <4> HIDE DEF z, off, len, buf, at, c, first, second
      <4> QED BY <1>1, <1>4, <1>5, <1>8, <3>1
    <3> HIDE DEF z, off, len, buf, at, c, first, second
    <3> QED BY <1>1, <1>4, <3>1, <3>2, <1>3
  <2>3. /\ second \in Ring(s)
        /\ \A i \in 0..(z - 1) : second[i] = IF i < n - c THEN data[c + i + 1] ELSE first[i]
    <3> HIDE DEF z, off, len, buf, at, c, first
    <3>1. \A k \in (c + 1)..(c + (n - c)) : data[k] \in Byte
      BY <1>5
    <3>2. n - c \in Nat
      BY <1>5
    <3>3. second = CopyIn(first, 0, data, c, n - c)
      BY <2>2
    <3>4. first \in Ring(s) /\ 0 \in Nat /\ c \in Nat
      BY <1>5, <1>6
    <3>5. /\ CopyIn(first, 0, data, c, n - c) \in Ring(s)
          /\ \A i \in 0..(Size[s] - 1) : CopyIn(first, 0, data, c, n - c)[i] =
               IF 0 <= i /\ i < 0 + (n - c) THEN data[c + (i - 0) + 1] ELSE first[i]
      BY <3>2, <3>4, CopyInIs
    <3>6. /\ second \in Ring(s)
          /\ \A i \in 0..(z - 1) : second[i] = IF 0 <= i /\ i < 0 + (n - c)
                                               THEN data[c + (i - 0) + 1] ELSE first[i]
      BY <3>3, <3>5 DEF z
    <3> HIDE DEF second
    <3>7. \A i \in 0..(z - 1) : c + (i - 0) + 1 = c + i + 1 /\ 0 <= i /\ 0 + (n - c) = n - c
      BY <1>5
    <3> QED BY <3>6, <3>7
  <2>4. \A i \in 1..len : second[Wrap(s, off + (i - 1))] = buf[Wrap(s, off + (i - 1))]
    <3> HIDE DEF z, off, len, buf, at, c, first, second
    <3> SUFFICES ASSUME NEW i \in 1..len
                 PROVE  second[Wrap(s, off + (i - 1))] = buf[Wrap(s, off + (i - 1))]
      OBVIOUS
    <3>1. PICK w : w = Wrap(s, off + (i - 1))
      OBVIOUS
    <3>2. w \in 0..(z - 1) /\ w = IF off + (i - 1) >= z THEN off + (i - 1) - z ELSE off + (i - 1)
      <4>1. off + (i - 1) \in Nat
        BY <1>1
      <4>2. w = IF off + (i - 1) >= z THEN off + (i - 1) - z ELSE off + (i - 1)
        BY <1>1, <3>1, <4>1 DEF Wrap, z
      <4>3. off + (i - 1) < z + z
        BY <1>1
      <4> QED BY <1>1, <4>1, <4>2, <4>3
    <3>3. ~(w < n - c) /\ ~(at <= w /\ w < at + c)
      <4>1. at = off + len /\ off + len + c = z
        BY <2>2
      <4>2. CASE off + (i - 1) >= z
        <5>1. w = off + (i - 1) - z
          BY <3>2, <4>2
        <5> QED BY <1>1, <1>5, <4>1, <4>2, <5>1
      <4>3. CASE ~(off + (i - 1) >= z)
        <5>1. w = off + (i - 1)
          BY <3>2, <4>3
        <5> QED BY <1>1, <1>5, <4>1, <4>3, <5>1
      <4> QED BY <4>2, <4>3
    <3> QED BY <1>6, <2>3, <3>1, <3>2, <3>3
  <2>5. \A i \in (len + 1)..(len + n) : second[Wrap(s, off + (i - 1))] = data[i - len]
    <3> HIDE DEF z, off, len, buf, at, c, first, second
    <3> SUFFICES ASSUME NEW i \in (len + 1)..(len + n)
                 PROVE  second[Wrap(s, off + (i - 1))] = data[i - len]
      OBVIOUS
    <3>1. PICK w : w = Wrap(s, off + (i - 1))
      OBVIOUS
    <3>2. w \in 0..(z - 1) /\ w = IF off + (i - 1) >= z THEN off + (i - 1) - z ELSE off + (i - 1)
      <4>1. off + (i - 1) \in Nat
        BY <1>1
      <4>2. w = IF off + (i - 1) >= z THEN off + (i - 1) - z ELSE off + (i - 1)
        BY <1>1, <3>1, <4>1 DEF Wrap, z
      <4>3. off + (i - 1) < z + z
        BY <1>1
      <4> QED BY <1>1, <4>1, <4>2, <4>3
    <3>3. IF w < n - c THEN c + w + 1 = i - len
                     ELSE at <= w /\ w < at + c /\ w - at + 1 = i - len
      <4>1. at = off + len /\ off + len + c = z
        BY <2>2
      <4>2. CASE off + (i - 1) >= z
        <5>1. w = off + (i - 1) - z
          BY <3>2, <4>2
        <5>2. i \in Int /\ i >= len + 1 /\ i <= len + n
          BY <1>1
        <5>3. c + w + 1 = i - len
          BY <1>1, <1>5, <4>1, <5>1, <5>2
        <5>4. w < n - c
          BY <1>1, <1>5, <5>1, <5>2, <5>3
        <5> QED BY <5>3, <5>4
      <4>3. CASE ~(off + (i - 1) >= z)
        <5>1. w = off + (i - 1)
          BY <3>2, <4>3
        <5>2. i \in Int /\ i >= len + 1 /\ i <= len + n
          BY <1>1
        <5>3. off + (i - 1) < z /\ n - c <= off
          BY <1>1, <1>5, <4>1, <4>3, <5>2
        <5>4. ~(w < n - c)
          BY <1>1, <1>5, <5>1, <5>2, <5>3
        <5>5. at <= w /\ w < at + c /\ w - at + 1 = i - len
          BY <1>1, <1>5, <4>1, <5>1, <5>2, <5>3
        <5> QED BY <5>4, <5>5
      <4> QED BY <4>2, <4>3
    <3> QED BY <1>6, <2>3, <3>1, <3>2, <3>3
  <2> QED BY <2>1, <2>3, <2>4, <2>5
<1> QED BY <1>7, <1>8

\* The copy loop of bio_read takes the oldest bytes in order.
LEMMA DrainTakes ==
  ASSUME NEW s \in Side, Half(s, b[s]), NEW n \in 1..b[s].len
  PROVE  Drain(s, n) = SubSeq(Contents(s), 1, n)
<1> DEFINE z == Size[s]
           off == b[s].offset
           len == b[s].len
           buf == b[s].buf
           c == FirstChunk(s, off, n)
           first == CopyOut(buf, off, c)
           second == CopyOut(buf, 0, n - c)
           oldest == SubSeq(Contents(s), 1, n)
<1>1. /\ z \in Nat /\ z >= 1 /\ len \in Nat /\ len <= z /\ off \in Nat /\ off < z
      /\ buf \in Ring(s) /\ n \in Nat /\ n >= 1 /\ n <= len
  BY Numbers
<1>2. \A i \in Nat : Wrap(s, i) = IF i >= z THEN i - z ELSE i
  BY DEF Wrap
<1>3. /\ oldest \in Seq(Cell) /\ Len(oldest) = n
      /\ \A i \in 1..n : oldest[i] = buf[Wrap(s, off + (i - 1))]
  <2>1. Contents(s) \in Seq(Byte) /\ Len(Contents(s)) = len
        /\ \A i \in 1..len : Contents(s)[i] = buf[Wrap(s, off + (i - 1))]
    BY ContentsSeq
  <2> HIDE DEF len
  <2>2. \A i \in 1..n : Contents(s)[i] \in Cell
    BY <1>1, <2>1 DEF Cell
  <2>3. /\ oldest \in Seq(Cell) /\ Len(oldest) = n
        /\ \A i \in 1..n : oldest[i] = Contents(s)[i]
    BY <2>2
  <2> QED BY <1>1, <2>1, <2>3
<1>4. c \in Nat /\ c >= 1 /\ c <= n /\ off + c <= z /\ (c = n \/ off + c = z)
  BY <1>1 DEF FirstChunk
<1>5. /\ first \in Seq(Cell) /\ Len(first) = c
      /\ \A i \in 1..c : first[i] = buf[off + (i - 1)]
  <2>1. off \in Nat /\ c \in Nat /\ off + c <= Size[s] /\ buf \in Ring(s)
    BY <1>1, <1>4
  <2> HIDE DEF off, len, buf, c
  <2>2. /\ CopyOut(buf, off, c) \in Seq(Cell)
        /\ Len(CopyOut(buf, off, c)) = c
        /\ \A i \in 1..c : CopyOut(buf, off, c)[i] = buf[off + (i - 1)]
    BY <2>1, CopyOutIs
  <2> QED BY <2>2
<1>6. CASE c = n
  <2>1. Drain(s, n) = first
    BY <1>6 DEF Drain
  <2>2. \A i \in 1..n : first[i] = oldest[i]
    <3> HIDE DEF z, off, len, buf, c, first, second, oldest
    <3> QED BY <1>1, <1>3, <1>4, <1>5, <1>6, <1>2
  <2> QED BY <1>3, <1>5, <1>6, <2>1, <2>2, SeqEqual
<1>7. CASE c # n
  <2>1. Drain(s, n) = first \o second
    BY <1>7 DEF Drain
  <2>2. /\ second \in Seq(Cell) /\ Len(second) = n - c
        /\ \A i \in 1..(n - c) : second[i] = buf[i - 1]
    <3> HIDE DEF off, len, buf, c, first, oldest
    <3>1. n - c \in Nat /\ 0 \in Nat /\ 0 + (n - c) <= Size[s] /\ buf \in Ring(s)
      BY <1>1, <1>4
    <3> HIDE DEF z
    <3>2. /\ CopyOut(buf, 0, n - c) \in Seq(Cell) /\ Len(CopyOut(buf, 0, n - c)) = n - c
          /\ \A i \in 1..(n - c) : CopyOut(buf, 0, n - c)[i] = buf[0 + (i - 1)]
      BY <3>1, CopyOutIs
    <3>3. \A i \in 1..(n - c) : 0 + (i - 1) = i - 1
      OBVIOUS
    <3> QED BY <3>2, <3>3
  <2>3. /\ first \o second \in Seq(Cell) /\ Len(first \o second) = n
        /\ \A i \in 1..n : (first \o second)[i] = IF i <= c THEN first[i] ELSE second[i - c]
    <3>1. first \in Seq(Cell) /\ second \in Seq(Cell) /\ Len(first) = c /\ Len(second) = n - c
      BY <1>5, <2>2
    <3> HIDE DEF z, off, len, buf, c, first, second, oldest
    <3>2. /\ first \o second \in Seq(Cell) /\ Len(first \o second) = c + (n - c)
          /\ \A i \in 1..(c + (n - c)) : (first \o second)[i] =
               IF i <= c THEN first[i] ELSE second[i - c]
      BY <3>1
    <3>3. c + (n - c) = n
      BY <1>4
    <3> QED BY <3>2, <3>3
  <2>4. \A i \in 1..n : (first \o second)[i] = oldest[i]
    <3> HIDE DEF z, off, len, buf, c, first, second, oldest
    <3>1. ASSUME NEW i \in 1..n, i <= c PROVE (first \o second)[i] = oldest[i]
      <4>1. Wrap(s, off + (i - 1)) = off + (i - 1)
        BY <1>1, <1>4, <1>2, <3>1
      <4>2. i \in 1..c
        BY <3>1
      <4> QED BY <1>3, <1>5, <2>3, <3>1, <4>1, <4>2
    <3>2. ASSUME NEW i \in 1..n, ~(i <= c) PROVE (first \o second)[i] = oldest[i]
      <4>1. Wrap(s, off + (i - 1)) = (i - c) - 1 /\ i - c \in 1..(n - c)
        BY <1>1, <1>4, <1>7, <1>2, <3>2
      <4> QED BY <1>1, <1>3, <1>4, <2>2, <2>3, <3>2, <4>1, ZenonT(30)
    <3> QED BY <3>1, <3>2
  <2> QED BY <1>3, <2>1, <2>3, <2>4, SeqEqual
<1> QED BY <1>6, <1>7

-----------------------------------------------------------------------------
(* What the calls do to a half.                                             *)

\* The read request is withdrawn, as every call does first.
LEMMA NoRequest ==
  ASSUME NEW s \in Side, NEW r, Half(s, r)
  PROVE  Half(s, [r EXCEPT !.request = 0])
<1>1. [r EXCEPT !.request = 0] \in BioBio(s)
  BY DEF Half, BioBio
<1> QED BY <1>1 DEF Half, BioBio

\* A reader of an empty ring leaves its request there.
LEMMA Requested ==
  ASSUME NEW s \in Side, NEW r, Half(s, r), r.len = 0, NEW k \in 0..Size[s]
  PROVE  Half(s, [r EXCEPT !.request = k])
<1>1. [r EXCEPT !.request = k] \in BioBio(s)
  BY DEF Half, BioBio
<1> QED BY <1>1 DEF Half, BioBio

\* The writer shuts down its side.
LEMMA Closed ==
  ASSUME NEW s \in Side, NEW r, Half(s, r)
  PROVE  Half(s, [r EXCEPT !.closed = TRUE])
<1>1. [r EXCEPT !.closed = TRUE] \in BioBio(s)
  BY DEF Half, BioBio
<1> QED BY <1>1 DEF Half, BioBio

\* bio_destroy_pair empties a half.
LEMMA Parted ==
  ASSUME NEW s \in Side, NEW r, Half(s, r)
  PROVE  Half(s, [r EXCEPT !.init = FALSE, !.len = 0, !.offset = 0])
<1>1. 0 \in 0..Size[s] /\ 0 \in 0..(Size[s] - 1)
  BY PairAssumption
<1>2. [r EXCEPT !.init = FALSE, !.len = 0, !.offset = 0] \in BioBio(s)
  BY <1>1 DEF Half, BioBio
<1> QED BY <1>2 DEF Half, BioBio

\* bio_write stores n bytes.
LEMMA Stored ==
  ASSUME NEW s \in Side, Half(s, b[s]), NEW data \in Seq(Byte), NEW n \in 1..Len(data),
         b[s].init, b[s].len + n <= Size[s]
  PROVE  Half(s, [b[s] EXCEPT !.request = 0, !.len = b[s].len + n, !.buf = Fill(s, data, n)])
<1> DEFINE r == [b[s] EXCEPT !.request = 0, !.len = b[s].len + n, !.buf = Fill(s, data, n)]
           len == b[s].len
           off == b[s].offset
<1>1. /\ Size[s] \in Nat /\ Size[s] >= 1 /\ len \in Nat /\ len <= Size[s] /\ off \in Nat
      /\ n \in Nat /\ n >= 1 /\ \A k \in 1..n : data[k] \in Byte
  BY Numbers
<1>2. /\ Fill(s, data, n) \in Ring(s)
      /\ \A i \in 1..len :
           Fill(s, data, n)[Wrap(s, off + (i - 1))] = b[s].buf[Wrap(s, off + (i - 1))]
      /\ \A i \in (len + 1)..(len + n) : Fill(s, data, n)[Wrap(s, off + (i - 1))] = data[i - len]
  BY FillAppends
<1>3. len + n \in 0..Size[s] /\ 0 \in 0..Size[s]
  BY <1>1
<1>4. b[s] \in BioBio(s)
  BY DEF Half
<1>5. r \in BioBio(s)
  BY <1>2, <1>3, <1>4 DEF BioBio, Ring, Cell
<1>6. /\ r.request = 0 /\ r.len = len + n /\ r.offset = off
      /\ r.init = b[s].init /\ r.buf = Fill(s, data, n)
  BY <1>4 DEF BioBio
<1>7. ASSUME NEW i \in 1..(len + n) PROVE Fill(s, data, n)[Wrap(s, off + (i - 1))] \in Byte
  <2>1. CASE i \in 1..len
    BY <1>2, <2>1 DEF Half
  <2>2. CASE i \in (len + 1)..(len + n)
    <3>1. i - len \in 1..n
      BY <1>1, <2>2
    <3> QED BY <1>1, <1>2, <2>2, <3>1
  <2> QED BY <1>1, <2>1, <2>2
<1>8. len + n # 0
  BY <1>1
<1>9. \A i \in 1..r.len : r.buf[Wrap(s, r.offset + (i - 1))] \in Byte
  BY <1>7
<1> QED BY <1>5, <1>6, <1>8, <1>9 DEF Half

\* bio_read moves the offset past n bytes.
LEMMA Taken ==
  ASSUME NEW s \in Side, Half(s, b[s]), NEW n \in 1..b[s].len
  PROVE  /\ Half(s, [b[s] EXCEPT !.request = 0, !.len = b[s].len - n, !.offset = OffsetAfter(s, n)])
         /\ \A i \in 1..(b[s].len - n) :
              Wrap(s, OffsetAfter(s, n) + (i - 1)) = Wrap(s, b[s].offset + (n + i - 1))
<1> DEFINE r == [b[s] EXCEPT !.request = 0, !.len = b[s].len - n, !.offset = OffsetAfter(s, n)]
           len == b[s].len
           off == b[s].offset
           new == OffsetAfter(s, n)
           z == Size[s]
<1>1. /\ z \in Nat /\ z >= 1 /\ len \in Nat /\ len <= z /\ off \in Nat /\ off < z
      /\ n \in Nat /\ n >= 1 /\ n <= len
  BY Numbers
<1>2. \A i \in Nat : Wrap(s, i) = IF i >= z THEN i - z ELSE i
  BY DEF Wrap
<1>3. new = IF n = len THEN 0 ELSE Wrap(s, off + n)
  BY DEF OffsetAfter
<1>4. new \in 0..(z - 1) /\ (len - n = 0 => new = 0)
  <2> HIDE DEF z, len, off, new
  <2> QED BY <1>1, <1>2, <1>3
<1>5. ASSUME NEW i \in 1..(len - n)
      PROVE  Wrap(s, new + (i - 1)) = Wrap(s, off + (n + i - 1))
  <2> HIDE DEF z, len, off, new
  <2>1. /\ new + (i - 1) \in Nat /\ off + (n + i - 1) \in Nat
        /\ new = IF off + n >= z THEN off + n - z ELSE off + n
    BY <1>1, <1>2, <1>3
  <2> QED BY <1>1, <1>2, <1>5, <2>1
<1>6. b[s] \in BioBio(s)
  BY DEF Half
<1>7. len - n \in 0..z /\ 0 \in 0..z
  BY <1>1
<1>8. r \in BioBio(s)
  BY <1>4, <1>6, <1>7 DEF BioBio
<1>9. ASSUME NEW i \in 1..(len - n) PROVE b[s].buf[Wrap(s, new + (i - 1))] \in Byte
  <2>1. n + i \in 1..len /\ (n + i) - 1 = n + i - 1
    BY <1>1
  <2>2. b[s].buf[Wrap(s, off + ((n + i) - 1))] \in Byte
    BY <2>1 DEF Half
  <2> QED BY <1>5, <2>2
<1>10. \A i \in 1..r.len : r.buf[Wrap(s, r.offset + (i - 1))] \in Byte
  BY <1>9
<1>11. r.len = 0 => r.offset = 0
  BY <1>4
<1>12. Half(s, r)
  BY <1>8, <1>10, <1>11 DEF Half
<1> QED BY <1>5, <1>12

-----------------------------------------------------------------------------
(* The invariant is inductive.                                              *)

\* A step that changes half s alone.
LEMMA OneHalf ==
  ASSUME IInv, NEW s \in Side, NEW r, b' = [b EXCEPT ![s] = r]
  PROVE  /\ b' = [t \in Side |-> b'[t]]
         /\ b'[s] = r
         /\ \A t \in Side : t # s => b'[t] = b[t]
<1>1. b = [t \in Side |-> b[t]]
  BY DEF IInv
<1> QED BY <1>1

\* Such a step keeps the invariant if it keeps the half sound and connected.
LEMMA HalfKeeps ==
  ASSUME IInv, NEW s \in Side, NEW r, b' = [b EXCEPT ![s] = r],
         Half(s, r), r.init = b[s].init,
         retry' \in [Side -> {"none", "read", "write"}],
         freed' \in [Side -> BOOLEAN],
         res' \in [Side -> [ret : Ret, data : Seq(Byte)]]
  PROVE  IInv'
<1>1. /\ b' = [t \in Side |-> b'[t]]
      /\ b'[s] = r
      /\ \A t \in Side : t # s => b'[t] = b[t]
  BY OneHalf
<1>2. \A t \in Side : Half(t, b'[t])
  BY DEF IInv
<1>3. \A t, u \in Side : b'[t].init = b'[u].init
  BY DEF IInv
<1> QED BY <1>1, <1>2, <1>3 DEF IInv, Half

\* The result of a call.
LEMMA Returned ==
  ASSUME IInv, NEW s \in Side, NEW ret \in Ret, NEW data \in Seq(Byte), Return(s, ret, data)
  PROVE  res' \in [Side -> [ret : Ret, data : Seq(Byte)]]
<1>1. Result(ret, data) \in [ret : Ret, data : Seq(Byte)]
  BY DEF Result
<1> QED BY <1>1 DEF IInv, Return

\* The retry flags a call leaves.
LEMMA Flagged ==
  ASSUME IInv, NEW s \in Side, NEW f \in {"none", "read", "write"},
         retry' = [retry EXCEPT ![s] = f]
  PROVE  retry' \in [Side -> {"none", "read", "write"}]
  BY DEF IInv

\* How much bio_write takes.
LEMMA Room ==
  ASSUME NEW s \in Side, Half(s, b[s]), NEW data \in Seq(Byte),
         Least(Len(data), Size[s] - b[s].len) > 0
  PROVE  LET n == Least(Len(data), Size[s] - b[s].len) IN
         n \in 1..Len(data) /\ b[s].len + n <= Size[s]
<1>1. Size[s] \in Nat /\ b[s].len \in Nat /\ b[s].len <= Size[s] /\ Len(data) \in Nat
  BY Numbers
<1> QED BY <1>1 DEF Least

\* How much bio_read takes.
LEMMA Available ==
  ASSUME NEW s \in Side, Half(s, b[s]), NEW size \in Nat, Least(size, b[s].len) > 0
  PROVE  Least(size, b[s].len) \in 1..b[s].len
<1>1. b[s].len \in Nat
  BY Numbers
<1> QED BY <1>1 DEF Least

\* BIO_read and BIO_write of a BIO without a peer.
LEMMA UninitializedKeeps ==
  ASSUME IInv, NEW s \in Side, Uninitialized(s), UNCHANGED freed
  PROVE  IInv'
<1>1. b' = b /\ retry' = retry /\ freed' = freed /\ Return(s, "uninit", <<>>)
  BY DEF Uninitialized
<1>2. "uninit" \in Ret /\ <<>> \in Seq(Byte)
  BY DEF Ret
<1>3. res' \in [Side -> [ret : Ret, data : Seq(Byte)]]
  BY <1>1, <1>2, Returned
<1> QED BY <1>1, <1>3 DEF IInv, Half

\* bio_write keeps the invariant, also when it wraps.
LEMMA WriteKeeps ==
  ASSUME IInv, NEW s \in Side, NEW data \in Data, bio_write(s, data), UNCHANGED freed
  PROVE  IInv'
<1> DEFINE n == Least(Len(data), Size[s] - b[s].len)
<1>1. /\ Half(s, b[s]) /\ data \in Seq(Byte) /\ freed' \in [Side -> BOOLEAN]
      /\ b = [t \in Side |-> b[t]] /\ b[s] \in BioBio(s) /\ b[s].init
  BY DataIsSeq DEF IInv, Half, bio_write
<1>2. /\ {"zero", "broken", "retry_write", "ok"} \subseteq Ret /\ <<>> \in Seq(Byte)
  BY DEF Ret
<1>3. CASE /\ b' = b
           /\ retry' = [retry EXCEPT ![s] = "none"]
           /\ Return(s, "zero", <<>>)
  <2>1. b' = [b EXCEPT ![s] = b[s]]
    BY <1>1, <1>3
  <2> QED BY <1>1, <1>2, <1>3, <2>1, Returned, Flagged, HalfKeeps
<1>4. CASE /\ b' = [b EXCEPT ![s].request = 0]
           /\ \E f \in {"none", "write"} : retry' = [retry EXCEPT ![s] = f]
           /\ \E ret \in {"broken", "retry_write"} : Return(s, ret, <<>>)
  <2>1. b' = [b EXCEPT ![s] = [b[s] EXCEPT !.request = 0]]
    BY <1>4
  <2>2. Half(s, [b[s] EXCEPT !.request = 0]) /\ [b[s] EXCEPT !.request = 0].init = b[s].init
    BY <1>1, NoRequest DEF BioBio
  <2>3. retry' \in [Side -> {"none", "read", "write"}]
    BY <1>4, Flagged
  <2>4. res' \in [Side -> [ret : Ret, data : Seq(Byte)]]
    BY <1>2, <1>4, Returned
  <2> QED BY <1>1, <2>1, <2>2, <2>3, <2>4, HalfKeeps
<1>5. CASE /\ n > 0
           /\ b' = [b EXCEPT ![s].request = 0, ![s].len = @ + n, ![s].buf = Fill(s, data, n)]
           /\ retry' = [retry EXCEPT ![s] = "none"]
           /\ Return(s, "ok", SubSeq(data, 1, n))
  <2>1. n \in 1..Len(data) /\ b[s].len + n <= Size[s]
    BY <1>1, <1>5, Room
  <2> HIDE DEF n
  <2> DEFINE r == [b[s] EXCEPT !.request = 0, !.len = b[s].len + n, !.buf = Fill(s, data, n)]
  <2>2. b' = [b EXCEPT ![s] = r]
    BY <1>5
  <2>3. Half(s, r)
    BY <1>1, <2>1, Stored
  <2>4. r.init = b[s].init
    BY DEF BioBio
  <2>5. SubSeq(data, 1, n) \in Seq(Byte)
    BY <1>1, <2>1
  <2>6. res' \in [Side -> [ret : Ret, data : Seq(Byte)]]
    BY <1>2, <1>5, <2>5, Returned
  <2>7. retry' \in [Side -> {"none", "read", "write"}]
    BY <1>5, Flagged
  <2> HIDE DEF r
  <2> QED BY <1>1, <2>2, <2>3, <2>4, <2>6, <2>7, HalfKeeps
<1> QED BY <1>3, <1>4, <1>5 DEF bio_write

\* bio_read keeps the invariant, also when it empties the ring.
LEMMA ReadKeeps ==
  ASSUME IInv, NEW s \in Side, NEW size \in 0..MaxLen, bio_read(s, size), UNCHANGED freed
  PROVE  IInv'
<1> DEFINE o == Other(s)
           n == Least(size, b[o].len)
<1>1. /\ o \in Side /\ Half(o, b[o]) /\ size \in Nat /\ freed' \in [Side -> BOOLEAN]
      /\ b = [t \in Side |-> b[t]] /\ b[o] \in BioBio(o)
  BY TwoSides DEF IInv, Half
<1>2. /\ {"zero", "eof", "retry_read", "ok"} \subseteq Ret /\ <<>> \in Seq(Byte)
  BY DEF Ret
<1>3. CASE /\ b' = [b EXCEPT ![o].request = 0]
           /\ retry' = [retry EXCEPT ![s] = "none"]
           /\ \E ret \in {"zero", "eof"} : Return(s, ret, <<>>)
  <2> HIDE DEF o
  <2>1. b' = [b EXCEPT ![o] = [b[o] EXCEPT !.request = 0]]
    BY <1>3
  <2>2. Half(o, [b[o] EXCEPT !.request = 0]) /\ [b[o] EXCEPT !.request = 0].init = b[o].init
    BY <1>1, NoRequest
  <2>3. retry' \in [Side -> {"none", "read", "write"}]
    BY <1>3, Flagged
  <2>4. res' \in [Side -> [ret : Ret, data : Seq(Byte)]]
    BY <1>2, <1>3, Returned
  <2> QED BY <1>1, <2>1, <2>2, <2>3, <2>4, HalfKeeps
<1>4. CASE /\ b[o].len = 0
           /\ b' = [b EXCEPT ![o].request = Least(size, Size[o])]
           /\ retry' = [retry EXCEPT ![s] = "read"]
           /\ Return(s, "retry_read", <<>>)
  <2> HIDE DEF o
  <2> DEFINE k == Least(size, Size[o])
  <2>1. k \in 0..Size[o]
    BY <1>1, PairAssumption DEF Least
  <2>2. b' = [b EXCEPT ![o] = [b[o] EXCEPT !.request = k]]
    BY <1>4
  <2> HIDE DEF k
  <2>3. Half(o, [b[o] EXCEPT !.request = k]) /\ [b[o] EXCEPT !.request = k].init = b[o].init
    BY <1>1, <1>4, <2>1, Requested
  <2>4. retry' \in [Side -> {"none", "read", "write"}]
    BY <1>4, Flagged
  <2>5. res' \in [Side -> [ret : Ret, data : Seq(Byte)]]
    BY <1>2, <1>4, Returned
  <2> QED BY <1>1, <2>2, <2>3, <2>4, <2>5, HalfKeeps
<1>5. CASE /\ n > 0
           /\ b' = [b EXCEPT ![o].request = 0, ![o].len = @ - n, ![o].offset = OffsetAfter(o, n)]
           /\ retry' = [retry EXCEPT ![s] = "none"]
           /\ Return(s, "ok", Drain(o, n))
  <2>1. n \in 1..b[o].len
    BY <1>1, <1>5, Available
  <2> HIDE DEF n, o
  <2> DEFINE r == [b[o] EXCEPT !.request = 0, !.len = b[o].len - n, !.offset = OffsetAfter(o, n)]
  <2>2. b' = [b EXCEPT ![o] = r]
    BY <1>5
  <2>3. Half(o, r)
    BY <1>1, <2>1, Taken
  <2>4. r.init = b[o].init
    OBVIOUS
  <2>5. Drain(o, n) \in Seq(Byte)
    <3>1. Contents(o) \in Seq(Byte) /\ Len(Contents(o)) = b[o].len
      BY <1>1, ContentsSeq
    <3>3. SubSeq(Contents(o), 1, n) \in Seq(Byte)
      BY <2>1, <3>1
    <3> QED BY <1>1, <2>1, <3>3, DrainTakes
  <2>6. res' \in [Side -> [ret : Ret, data : Seq(Byte)]]
    BY <1>2, <1>5, <2>5, Returned
  <2>7. retry' \in [Side -> {"none", "read", "write"}]
    BY <1>5, Flagged
  <2> HIDE DEF r
  <2> QED BY <1>1, <2>2, <2>3, <2>4, <2>6, <2>7, HalfKeeps
<1> QED BY <1>3, <1>4, <1>5 DEF bio_read

\* The commands of bio_ctrl keep the invariant.
LEMMA CtrlKeeps ==
  ASSUME IInv, NEW s \in Side, BIO_shutdown_wr(s) \/ BIO_reset_read_request(s)
  PROVE  IInv'
<1>1. /\ Half(s, b[s]) /\ b = [t \in Side |-> b[t]] /\ b[s] \in BioBio(s)
      /\ retry' \in [Side -> {"none", "read", "write"}]
      /\ freed' \in [Side -> BOOLEAN]
      /\ res' \in [Side -> [ret : Ret, data : Seq(Byte)]]
  BY DEF IInv, Half, BIO_shutdown_wr, BIO_reset_read_request
<1>2. CASE b' = [b EXCEPT ![s].closed = TRUE]
  <2>1. b' = [b EXCEPT ![s] = [b[s] EXCEPT !.closed = TRUE]]
    BY <1>2
  <2>2. Half(s, [b[s] EXCEPT !.closed = TRUE]) /\ [b[s] EXCEPT !.closed = TRUE].init = b[s].init
    BY <1>1, Closed
  <2> QED BY <1>1, <2>1, <2>2, HalfKeeps
<1>3. CASE b' = [b EXCEPT ![s].request = 0]
  <2>1. b' = [b EXCEPT ![s] = [b[s] EXCEPT !.request = 0]]
    BY <1>3
  <2>2. Half(s, [b[s] EXCEPT !.request = 0]) /\ [b[s] EXCEPT !.request = 0].init = b[s].init
    BY <1>1, NoRequest
  <2> QED BY <1>1, <2>1, <2>2, HalfKeeps
<1> QED BY <1>2, <1>3 DEF BIO_shutdown_wr, BIO_reset_read_request

\* Taking the pair apart keeps the invariant.
LEMMA DestroyKeeps ==
  ASSUME IInv, NEW s \in Side, BIO_destroy_bio_pair(s) \/ BIO_free(s)
  PROVE  IInv'
<1>1. /\ retry' \in [Side -> {"none", "read", "write"}]
      /\ freed' \in [Side -> BOOLEAN]
      /\ res' \in [Side -> [ret : Ret, data : Seq(Byte)]]
      /\ b' = bio_destroy_pair(s)
  BY DEF IInv, BIO_destroy_bio_pair, BIO_free
<1>2. CASE ~b[s].init
  BY <1>1, <1>2 DEF bio_destroy_pair, IInv
<1>3. CASE b[s].init
  <2>1. b' = [t \in Side |-> [b[t] EXCEPT !.init = FALSE, !.len = 0, !.offset = 0]]
    BY <1>1, <1>3 DEF bio_destroy_pair
  <2>2. \A t \in Side : Half(t, b'[t])
    BY <2>1, Parted DEF IInv
  <2>3. \A t \in Side : b'[t].init = FALSE
    BY <2>1 DEF IInv, Half, BioBio
  <2>4. b' = [t \in Side |-> b'[t]]
    BY <2>1
  <2> QED BY <1>1, <2>2, <2>3, <2>4 DEF IInv, Half
<1> QED BY <1>2, <1>3

\* The invariant holds for a new pair.
LEMMA InitHolds == Init => IInv
<1> SUFFICES ASSUME Init PROVE IInv
  OBVIOUS
<1>1. ASSUME NEW s \in Side PROVE Half(s, b[s])
  <2>1. b[s] = [init |-> TRUE, closed |-> FALSE, len |-> 0, offset |-> 0,
                request |-> 0, buf |-> [i \in 0..(Size[s] - 1) |-> Uninit]]
    BY DEF Init
  <2>2. 0 \in 0..Size[s] /\ 0 \in 0..(Size[s] - 1)
    BY PairAssumption
  <2>4. b[s] \in BioBio(s)
    BY <2>1, <2>2 DEF BioBio
  <2> QED BY <2>1, <2>4 DEF Half
<1>2. /\ b = [s \in Side |-> b[s]] /\ \A s, t \in Side : b[s].init = b[t].init
  BY DEF Init
<1>3. res \in [Side -> [ret : Ret, data : Seq(Byte)]]
  BY DEF Init, Result, Ret
<1> QED BY <1>1, <1>2, <1>3 DEF Init, IInv

\* The invariant: both halves are sound, whatever calls their users make and in
\* whatever order.
THEOREM Inductive == Spec => []IInv
<1>1. ASSUME IInv, [Next]_vars PROVE IInv'
  <2>1. ASSUME NEW s \in Side, NEW data \in Data, BIO_write(s, data) PROVE IInv'
    BY <1>1, <2>1, WriteKeeps, UninitializedKeeps DEF BIO_write
  <2>2. ASSUME NEW s \in Side, NEW n \in 0..MaxLen, BIO_read(s, n) PROVE IInv'
    BY <1>1, <2>2, ReadKeeps, UninitializedKeeps DEF BIO_read
  <2>3. ASSUME NEW s \in Side,
               \/ BIO_shutdown_wr(s)
               \/ BIO_reset_read_request(s)
               \/ BIO_destroy_bio_pair(s)
               \/ BIO_free(s)
        PROVE  IInv'
    BY <1>1, <2>3, CtrlKeeps, DestroyKeeps
  <2>4. CASE UNCHANGED vars
    BY <1>1, <2>4 DEF vars, IInv
  <2> QED BY <1>1, <2>1, <2>2, <2>3, <2>4 DEF Next
<1> QED BY <1>1, InitHolds, PTL DEF Spec

\* What the comment at bio_bio_st and the asserts of bio_read and bio_write say of the
\* two structs holds in every reachable state; a call moves bytes that were written.
THEOREM CommentHolds == Spec => []StructComment
  BY Inductive, Implied, PTL

-----------------------------------------------------------------------------
(* The pair implements BytePipe.                                            *)

\* A step after which the users see the same: connection, shut-downs and unread bytes.
SameBytes ==
  \A s \in Side : /\ b'[s].init = b[s].init
                  /\ b'[s].closed = b[s].closed
                  /\ Contents(s)' = Contents(s)

\* What BytePipe sees of the pair.
Up == \A s \in Side : b[s].init
Shut == [s \in Side |-> b[s].closed]
Unread == [s \in Side |-> Contents(s)]

\* Such a step changes nothing that BytePipe sees.
LEMMA SameView ==
  ASSUME SameBytes
  PROVE  Up' = Up /\ Shut' = Shut /\ Unread' = Unread
  BY DEF SameBytes, Up, Shut, Unread

\* A ring whose indices and buffer stay keeps its contents.
LEMMA SameContents ==
  ASSUME NEW s \in Side, b'[s].len = b[s].len, b'[s].offset = b[s].offset, b'[s].buf = b[s].buf
  PROVE  Contents(s)' = Contents(s)
  BY DEF Contents

\* The read request is not seen.
LEMMA RequestUnseen ==
  ASSUME IInv, NEW s \in Side, NEW k, b' = [b EXCEPT ![s].request = k]
  PROVE  SameBytes
<1>1. ASSUME NEW t \in Side
      PROVE  /\ b'[t].init = b[t].init /\ b'[t].closed = b[t].closed
             /\ b'[t].len = b[t].len /\ b'[t].offset = b[t].offset /\ b'[t].buf = b[t].buf
  OBVIOUS
<1> QED BY <1>1, SameContents DEF SameBytes

\* A call that moves nothing is a refusal for the same reason.
LEMMA Refuses ==
  ASSUME SameBytes, NEW s \in Side, NEW ret \in Pipe!Reason, Return(s, ret, <<>>),
         \/ ret = "retry_write" /\ Up /\ ~Shut[s] /\ Len(Unread[s]) = Size[s]
         \/ ret = "broken" /\ Up /\ Shut[s]
         \/ ret = "retry_read" /\ Up /\ ~Shut[Other(s)] /\ Unread[Other(s)] = <<>>
         \/ ret = "eof" /\ Up /\ Shut[Other(s)] /\ Unread[Other(s)] = <<>>
         \/ ret = "zero" /\ Up
         \/ ret = "uninit" /\ ~Up
  PROVE  Pipe!Refuse(s, ret)
<1>1. Up' = Up /\ Shut' = Shut /\ Unread' = Unread
  BY SameView
<1>2. res' = [res EXCEPT ![s] = Pipe!Result(ret, <<>>)]
  BY DEF Return, Result, Pipe!Result
<1>3. Pipe!Other(s) = Other(s)
  BY DEF Other, Pipe!Other
<1> QED BY <1>1, <1>2, <1>3 DEF Pipe!Refuse, Up, Shut, Unread

\* bio_write appends to the queue.
LEMMA Appends ==
  ASSUME NEW s \in Side, Half(s, b[s]), Half(s, b'[s]), NEW data \in Seq(Byte),
         NEW n \in 1..Len(data), b[s].len + n <= Size[s],
         b'[s].len = b[s].len + n, b'[s].offset = b[s].offset, b'[s].buf = Fill(s, data, n)
  PROVE  Contents(s)' = Contents(s) \o SubSeq(data, 1, n)
<1> DEFINE len == b[s].len
           off == b[s].offset
           old == Contents(s)
           added == SubSeq(data, 1, n)
           all == [i \in 1..(len + n) |-> Fill(s, data, n)[Wrap(s, off + (i - 1))]]
<1>1. /\ len \in Nat /\ n \in Nat /\ n >= 1
      /\ old \in Seq(Byte) /\ Len(old) = len
      /\ \A i \in 1..len : old[i] = b[s].buf[Wrap(s, off + (i - 1))]
  BY ContentsSeq
<1>2. /\ added \in Seq(Byte) /\ Len(added) = n
      /\ \A i \in 1..n : added[i] = data[i]
  <2>1. \A i \in 1..n : data[i] \in Byte
    OBVIOUS
  <2>2. /\ added \in Seq(Byte) /\ Len(added) = n
    BY <2>1
  <2>3. \A i \in 1..n : added[i] = data[i]
    BY <2>1
  <2> QED BY <2>2, <2>3
<1>3. /\ \A i \in 1..len :
           Fill(s, data, n)[Wrap(s, off + (i - 1))] = b[s].buf[Wrap(s, off + (i - 1))]
      /\ \A i \in (len + 1)..(len + n) : Fill(s, data, n)[Wrap(s, off + (i - 1))] = data[i - len]
  BY FillAppends
<1>4. Contents(s)' = all
  BY DEF Contents
<1>5. /\ old \o added \in Seq(Byte) /\ Len(old \o added) = len + n
      /\ \A i \in 1..(len + n) : (old \o added)[i] = IF i <= len THEN old[i] ELSE added[i - len]
  <2> HIDE DEF len, off, old, added
  <2> QED BY <1>1, <1>2, ConcatProperties, ZenonT(30)
<1>6. ASSUME NEW i \in 1..(len + n) PROVE all[i] = (old \o added)[i]
  <2>1. all[i] = Fill(s, data, n)[Wrap(s, off + (i - 1))]
    OBVIOUS
  <2> HIDE DEF all, old, added
  <2>2. CASE i \in 1..len
    BY <1>1, <1>3, <2>1, <2>2
  <2>3. CASE i \in (len + 1)..(len + n)
    <3>1. i - len \in 1..n /\ ~(i <= len)
      BY <1>1, <2>3
    <3> QED BY <1>2, <1>3, <1>5, <2>1, <2>3, <3>1
  <2>4. i \in 1..len \/ i \in (len + 1)..(len + n)
    <3> HIDE DEF len
    <3> QED BY <1>1
  <2> QED BY <2>2, <2>3, <2>4
<1>7. all \in Seq(Byte) /\ Len(all) = len + n
  <2>1. \A i \in 1..(len + n) : (old \o added)[i] \in Byte
    <3> HIDE DEF old, added, len
    <3> QED BY <1>1, <1>5, ElementOfSeq
  <2>2. all \in [1..(len + n) -> Byte]
    <3>1. DOMAIN all = 1..(len + n) /\ all = [i \in 1..(len + n) |-> all[i]]
      OBVIOUS
    <3> HIDE DEF all, old, added
    <3> QED BY <1>6, <2>1, <3>1
  <2>3. len + n \in Nat
    BY <1>1
  <2> HIDE DEF all
  <2> QED BY <2>2, <2>3
<1>8. all = old \o added
  <2> HIDE DEF all, old, added, len
  <2> QED BY <1>5, <1>6, <1>7, SeqEqual
<1> QED BY <1>4, <1>8

\* bio_read takes from the front of the queue.
LEMMA Removes ==
  ASSUME NEW s \in Side, Half(s, b[s]), NEW n \in 1..b[s].len,
         b'[s].len = b[s].len - n, b'[s].offset = OffsetAfter(s, n), b'[s].buf = b[s].buf
  PROVE  Contents(s)' = SubSeq(Contents(s), n + 1, Len(Contents(s)))
<1> DEFINE len == b[s].len
           off == b[s].offset
           new == OffsetAfter(s, n)
           old == Contents(s)
           rest == SubSeq(old, n + 1, Len(old))
           left == [i \in 1..(len - n) |-> b[s].buf[Wrap(s, new + (i - 1))]]
<1>1. /\ len \in Nat /\ n \in Nat /\ n >= 1 /\ n <= len
      /\ old \in Seq(Byte) /\ Len(old) = len
      /\ \A i \in 1..len : old[i] = b[s].buf[Wrap(s, off + (i - 1))]
  BY ContentsSeq
<1>2. Contents(s)' = left
  BY DEF Contents
<1>3. \A i \in 1..(len - n) : Wrap(s, new + (i - 1)) = Wrap(s, off + (n + i - 1))
  BY Taken
<1>4. /\ rest \in Seq(Byte) /\ Len(rest) = len - n
      /\ \A i \in 1..(len - n) : rest[i] = old[n + i]
  <2> HIDE DEF len, off, old
  <2>1. \A i \in (n + 1)..Len(old) : old[i] \in Byte
    BY <1>1
  <2>2. /\ rest \in Seq(Byte)
        /\ Len(rest) = IF n + 1 <= Len(old) THEN Len(old) - (n + 1) + 1 ELSE 0
        /\ \A i \in 1..(Len(old) - (n + 1) + 1) : rest[i] = old[(n + 1) + i - 1]
    <3>1. n + 1 \in Int /\ Len(old) \in Int
      BY <1>1
    <3> QED BY <2>1, <3>1, SubSeqProperties
  <2> HIDE DEF rest
  <2>3. Len(old) - (n + 1) + 1 = len - n
    BY <1>1
  <2>4. \A i \in 1..(len - n) : (n + 1) + i - 1 = n + i
    BY <1>1
  <2> QED BY <1>1, <2>2, <2>3, <2>4
<1>5. ASSUME NEW i \in 1..(len - n) PROVE left[i] = rest[i]
  <2>1. left[i] = b[s].buf[Wrap(s, new + (i - 1))]
    OBVIOUS
  <2>2. n + i \in 1..len /\ (n + i) - 1 = n + i - 1
    BY <1>1
  <2> HIDE DEF left, rest, old
  <2> QED BY <1>1, <1>3, <1>4, <2>1, <2>2
<1>6. left \in Seq(Byte) /\ Len(left) = len - n
  <2>1. \A i \in 1..(len - n) : rest[i] \in Byte
    <3> HIDE DEF rest, len
    <3> QED BY <1>1, <1>4, ElementOfSeq
  <2>2. left \in [1..(len - n) -> Byte]
    <3>1. left = [i \in 1..(len - n) |-> left[i]]
      OBVIOUS
    <3> HIDE DEF left, rest
    <3> QED BY <1>5, <2>1, <3>1
  <2>3. len - n \in Nat
    BY <1>1
  <2> HIDE DEF left
  <2> QED BY <2>2, <2>3
<1>7. left = rest
  <2> HIDE DEF left, rest, len
  <2> QED BY <1>4, <1>5, <1>6, SeqEqual
<1> QED BY <1>2, <1>7

\* Connected means connected on both sides.
LEMMA BothUp ==
  ASSUME IInv, NEW s \in Side
  PROVE  b[s].init <=> Up
  BY DEF IInv, Up

\* BIO_read and BIO_write of a BIO without a peer.
LEMMA UninitializedRefines ==
  ASSUME IInv, NEW s \in Side, Uninitialized(s)
  PROVE  Pipe!Refuse(s, "uninit")
<1>1. SameBytes
  BY DEF Uninitialized, SameBytes, Contents
<1>2. ~Up /\ Return(s, "uninit", <<>>)
  BY BothUp DEF Uninitialized
<1>3. "uninit" \in Pipe!Reason
  BY DEF Pipe!Reason
<1> QED BY <1>1, <1>2, <1>3, Refuses

\* bio_write is a write or a refusal.
LEMMA WriteRefines ==
  ASSUME IInv, IInv', NEW s \in Side, NEW data \in Data, bio_write(s, data)
  PROVE  Pipe!Write(s, data) \/ \E ret \in Pipe!Reason : Pipe!Refuse(s, ret)
<1> DEFINE n == Least(Len(data), Size[s] - b[s].len)
<1>1. /\ Half(s, b[s]) /\ Half(s, b'[s]) /\ data \in Seq(Byte) /\ Up
      /\ b = [t \in Side |-> b[t]] /\ b[s] \in BioBio(s)
  BY DataIsSeq, BothUp DEF IInv, Half, bio_write
<1>2. /\ Shut[s] = b[s].closed /\ Unread[s] = Contents(s)
      /\ Len(Contents(s)) = b[s].len
  BY <1>1, ContentsSeq DEF Shut, Unread
<1>3. {"zero", "broken", "retry_write"} \subseteq Pipe!Reason
  BY DEF Pipe!Reason
<1>4. CASE b' = b /\ Return(s, "zero", <<>>)
  <2>1. SameBytes
    BY <1>4 DEF SameBytes, Contents
  <2> QED BY <1>1, <1>3, <1>4, <2>1, Refuses
<1>5. CASE b[s].closed /\ b' = [b EXCEPT ![s].request = 0] /\ Return(s, "broken", <<>>)
  <2>1. SameBytes
    BY <1>5, RequestUnseen
  <2> QED BY <1>1, <1>2, <1>3, <1>5, <2>1, Refuses
<1>6. CASE /\ ~b[s].closed /\ b[s].len = Size[s]
           /\ b' = [b EXCEPT ![s].request = 0]
           /\ Return(s, "retry_write", <<>>)
  <2>1. SameBytes
    BY <1>6, RequestUnseen
  <2> QED BY <1>1, <1>2, <1>3, <1>6, <2>1, Refuses
<1>7. CASE /\ ~b[s].closed /\ n > 0
           /\ b' = [b EXCEPT ![s].request = 0, ![s].len = @ + n, ![s].buf = Fill(s, data, n)]
           /\ Return(s, "ok", SubSeq(data, 1, n))
  <2>1. n \in 1..Len(data) /\ b[s].len + n <= Size[s]
    BY <1>1, <1>7, Room
  <2>2. n = Pipe!Least(Len(data), Size[s] - Len(Unread[s]))
    BY <1>2 DEF Least, Pipe!Least
  <2> HIDE DEF n
  <2>3. /\ b'[s].len = b[s].len + n /\ b'[s].offset = b[s].offset
        /\ b'[s].buf = Fill(s, data, n)
        /\ b'[s].init = b[s].init /\ b'[s].closed = b[s].closed
        /\ \A t \in Side : t # s => b'[t] = b[t]
    BY <1>1, <1>7
  <2>4. Contents(s)' = Contents(s) \o SubSeq(data, 1, n)
    BY <1>1, <2>1, <2>3, Appends
  <2>5. \A t \in Side : t # s => Contents(t)' = Contents(t)
    BY <2>3 DEF Contents
  <2>6. Unread' = [Unread EXCEPT ![s] = Unread[s] \o SubSeq(data, 1, n)]
    BY <2>4, <2>5 DEF Unread
  <2>7. Up' = Up /\ Shut' = Shut
    BY <2>3 DEF Up, Shut
  <2>8. res' = [res EXCEPT ![s] = Pipe!Result("ok", SubSeq(data, 1, n))]
    BY <1>7 DEF Return, Result, Pipe!Result
  <2>9. ~Shut[s] /\ n > 0
    BY <1>2, <1>7
  <2>10. Pipe!Write(s, data)
    BY <1>1, <2>2, <2>6, <2>7, <2>8, <2>9 DEF Pipe!Write, Up, Shut, Unread
  <2> QED BY <2>10
<1> QED BY <1>4, <1>5, <1>6, <1>7 DEF bio_write

\* bio_read is a read or a refusal.
LEMMA ReadRefines ==
  ASSUME IInv, NEW s \in Side, NEW size \in 0..MaxLen, bio_read(s, size)
  PROVE  Pipe!Read(s, size) \/ \E ret \in Pipe!Reason : Pipe!Refuse(s, ret)
<1> DEFINE o == Other(s)
           n == Least(size, b[o].len)
<1>1. /\ o \in Side /\ Half(o, b[o]) /\ size \in Nat /\ Up
      /\ b = [t \in Side |-> b[t]] /\ b[o] \in BioBio(o)
  <2>1. b[s].init
    BY DEF bio_read
  <2>2. Up
    BY <2>1, BothUp
  <2> QED BY <2>2, TwoSides, PairAssumption DEF IInv, Half
<1>2. /\ Shut[o] = b[o].closed /\ Unread[o] = Contents(o)
      /\ Len(Contents(o)) = b[o].len /\ Contents(o) \in Seq(Byte)
  BY <1>1, ContentsSeq DEF Shut, Unread
<1>3. {"zero", "eof", "retry_read"} \subseteq Pipe!Reason
  BY DEF Pipe!Reason
<1>4. b[o].len = 0 => Unread[o] = <<>>
  BY <1>2
<1>5. CASE b' = [b EXCEPT ![o].request = 0] /\ Return(s, "zero", <<>>)
  <2>1. SameBytes
    BY <1>1, <1>5, RequestUnseen
  <2> QED BY <1>1, <1>3, <1>5, <2>1, Refuses
<1>6. CASE /\ b[o].len = 0 /\ b[o].closed
           /\ b' = [b EXCEPT ![o].request = 0]
           /\ Return(s, "eof", <<>>)
  <2>1. SameBytes
    BY <1>1, <1>6, RequestUnseen
  <2> QED BY <1>1, <1>2, <1>3, <1>4, <1>6, <2>1, Refuses
<1>7. CASE /\ b[o].len = 0 /\ ~b[o].closed
           /\ b' = [b EXCEPT ![o].request = Least(size, Size[o])]
           /\ Return(s, "retry_read", <<>>)
  <2>1. SameBytes
    BY <1>1, <1>7, RequestUnseen
  <2> QED BY <1>1, <1>2, <1>3, <1>4, <1>7, <2>1, Refuses
<1>8. CASE /\ n > 0
           /\ b' = [b EXCEPT ![o].request = 0, ![o].len = @ - n, ![o].offset = OffsetAfter(o, n)]
           /\ Return(s, "ok", Drain(o, n))
  <2>1. n \in 1..b[o].len
    BY <1>1, <1>8, Available
  <2>2. n = Pipe!Least(size, Len(Unread[o])) /\ o = Pipe!Other(s)
    BY <1>2 DEF Least, Pipe!Least, Other, Pipe!Other
  <2> HIDE DEF n, o
  <2>3. /\ b'[o].len = b[o].len - n /\ b'[o].offset = OffsetAfter(o, n)
        /\ b'[o].buf = b[o].buf
        /\ b'[o].init = b[o].init /\ b'[o].closed = b[o].closed
        /\ \A t \in Side : t # o => b'[t] = b[t]
    BY <1>1, <1>8
  <2>4. Contents(o)' = SubSeq(Contents(o), n + 1, Len(Contents(o)))
    BY <1>1, <2>1, <2>3, Removes
  <2>5. \A t \in Side : t # o => Contents(t)' = Contents(t)
    BY <2>3 DEF Contents
  <2>6. Unread' = [Unread EXCEPT ![o] = SubSeq(Unread[o], n + 1, Len(Unread[o]))]
    BY <2>4, <2>5 DEF Unread
  <2>8. Drain(o, n) = SubSeq(Unread[o], 1, n)
    BY <1>1, <1>2, <2>1, DrainTakes
  <2>9. res' = [res EXCEPT ![s] = Pipe!Result("ok", SubSeq(Unread[o], 1, n))]
    BY <1>8, <2>8 DEF Return, Result, Pipe!Result
  <2>10. Pipe!Read(s, size)
    BY <1>1, <1>8, <2>2, <2>6, <2>9 DEF Pipe!Read, Up, Unread
  <2> QED BY <2>10
<1> QED BY <1>5, <1>6, <1>7, <1>8 DEF bio_read

\* Shutting down one side.
LEMMA ShutdownRefines ==
  ASSUME IInv, NEW s \in Side, BIO_shutdown_wr(s)
  PROVE  Pipe!Close(s)
<1>1. b = [t \in Side |-> b[t]] /\ b[s] \in BioBio(s)
  BY DEF IInv, Half
<1>2. /\ \A t \in Side : /\ b'[t].init = b[t].init /\ b'[t].len = b[t].len
                         /\ b'[t].offset = b[t].offset /\ b'[t].buf = b[t].buf
                         /\ b'[t].closed = IF t = s THEN TRUE ELSE b[t].closed
      /\ res' = res
  BY <1>1 DEF BIO_shutdown_wr, BioBio
<1>3. Up' = Up
  BY <1>2 DEF Up
<1>4. Unread' = Unread
  BY <1>2, SameContents DEF Unread
<1>5. Shut' = [Shut EXCEPT ![s] = TRUE]
  BY <1>2 DEF Shut
<1> QED BY <1>2, <1>3, <1>4, <1>5 DEF Pipe!Close, Up, Shut, Unread

\* Taking the pair apart cuts the connection; doing so again changes nothing.
LEMMA DestroyRefines ==
  ASSUME IInv, NEW s \in Side, BIO_destroy_bio_pair(s) \/ BIO_free(s)
  PROVE  Pipe!Cut \/ UNCHANGED (Pipe!vars)
<1>1. b' = bio_destroy_pair(s) /\ res' = res
  BY DEF BIO_destroy_bio_pair, BIO_free
<1>2. CASE ~b[s].init
  <2>1. b' = b
    BY <1>1, <1>2 DEF bio_destroy_pair
  <2>2. SameBytes
    BY <2>1 DEF SameBytes, Contents
  <2>3. Up' = Up /\ Shut' = Shut /\ Unread' = Unread
    BY <2>2, SameView
  <2> QED BY <1>1, <2>3 DEF Pipe!vars, Up, Shut, Unread
<1>3. CASE b[s].init
  <2>1. \A t \in Side : b'[t].init = FALSE /\ b'[t].len = 0 /\ b'[t].closed = b[t].closed
    BY <1>1 DEF bio_destroy_pair, IInv, Half, BioBio
  <2>2. ~Up'
    BY <2>1 DEF Up
  <2>3. Shut' = Shut
    BY <2>1 DEF Shut
  <2>4. ASSUME NEW t \in Side PROVE Contents(t)' = <<>>
    BY <2>1 DEF Contents
  <2>5. Unread' = [t \in Side |-> <<>>]
    BY <2>4 DEF Unread
  <2> QED BY <1>1, <2>2, <2>3, <2>5 DEF Pipe!Cut, Up, Shut, Unread
<1> QED BY <1>2, <1>3

\* Whatever the wrap of the rings, the pair shows its users nothing but BytePipe:
\* reads return the bytes written on the other side, each once and in order, a write
\* takes what fits, and a call that moves nothing reports the true reason.
THEOREM PairImplementsPipe == Spec => PipeSpec
<1>1. ASSUME Init PROVE Pipe!Init
  <2>1. Up
    BY <1>1 DEF Init, Up
  <2>2. Shut = [s \in Side |-> FALSE]
    BY <1>1 DEF Init, Shut
  <2>3. ASSUME NEW s \in Side PROVE Contents(s) = <<>>
    BY <1>1 DEF Init, Contents
  <2>4. Unread = [s \in Side |-> <<>>]
    BY <2>3 DEF Unread
  <2>5. res = [s \in Side |-> Pipe!Result("none", <<>>)]
    BY <1>1 DEF Init, Result, Pipe!Result
  <2> QED BY <2>1, <2>2, <2>4, <2>5 DEF Pipe!Init, Up, Shut, Unread
<1>2. ASSUME IInv, IInv', [Next]_vars PROVE [Pipe!Next]_(Pipe!vars)
  <2>1. ASSUME NEW s \in Side, NEW data \in Data, BIO_write(s, data) PROVE Pipe!Next
    <3>1. data \in Pipe!Data /\ "uninit" \in Pipe!Reason
      BY DEF Data, Pipe!Data, Pipe!Reason
    <3>2. CASE bio_write(s, data)
      BY <1>2, <3>1, <3>2, WriteRefines DEF Pipe!Next
    <3>3. CASE Uninitialized(s)
      BY <1>2, <3>1, <3>3, UninitializedRefines DEF Pipe!Next
    <3> QED BY <2>1, <3>2, <3>3 DEF BIO_write
  <2>2. ASSUME NEW s \in Side, NEW n \in 0..MaxLen, BIO_read(s, n) PROVE Pipe!Next
    <3>1. "uninit" \in Pipe!Reason
      BY DEF Pipe!Reason
    <3>2. CASE bio_read(s, n)
      BY <1>2, <3>2, ReadRefines DEF Pipe!Next
    <3>3. CASE Uninitialized(s)
      BY <1>2, <3>1, <3>3, UninitializedRefines DEF Pipe!Next
    <3> QED BY <2>2, <3>2, <3>3 DEF BIO_read
  <2>3. ASSUME NEW s \in Side, BIO_shutdown_wr(s) PROVE Pipe!Next
    BY <1>2, <2>3, ShutdownRefines DEF Pipe!Next
  <2>4. ASSUME NEW s \in Side, BIO_destroy_bio_pair(s) \/ BIO_free(s)
        PROVE  Pipe!Next \/ UNCHANGED (Pipe!vars)
    BY <1>2, <2>4, DestroyRefines DEF Pipe!Next
  <2>5. ASSUME NEW s \in Side, BIO_reset_read_request(s) PROVE UNCHANGED (Pipe!vars)
    <3>1. SameBytes /\ res' = res
      BY <1>2, <2>5, RequestUnseen DEF BIO_reset_read_request
    <3>2. Up' = Up /\ Shut' = Shut /\ Unread' = Unread
      BY <3>1, SameView
    <3> QED BY <3>1, <3>2 DEF Pipe!vars, Up, Shut, Unread
  <2>6. CASE UNCHANGED vars
    <3>1. SameBytes /\ res' = res
      BY <2>6 DEF vars, SameBytes, Contents
    <3>2. Up' = Up /\ Shut' = Shut /\ Unread' = Unread
      BY <3>1, SameView
    <3> QED BY <3>1, <3>2 DEF Pipe!vars, Up, Shut, Unread
  <2> QED BY <1>2, <2>1, <2>2, <2>3, <2>4, <2>5, <2>6 DEF Next
<1> QED
  BY <1>1, <1>2, Inductive, PTL DEF Spec, PipeSpec, Pipe!Spec
=============================================================================
