---------------------------- MODULE ErrQueueProofs ----------------------------
(***************************************************************************)
(* Proofs about ErrQueue, for every size of the ring, every set of strings *)
(* and every depth of suppression.                                         *)
(***************************************************************************)
EXTENDS ErrQueue, FiniteSetTheorems, SequenceTheorems, TLAPS

-------------------------------------------------------------------------------
(* Arithmetic of the ring.                                                 *)

\* The remainder of a number below 2N, as the code's wrap computes it.
LEMMA Wrap ==
  ASSUME NEW a \in 0 .. 2 * N - 1
  PROVE  a % N = IF a < N THEN a ELSE a - N
<1>0. N \in Nat /\ N > 1
  BY ErrAssumption
<1>1. CASE a < N
  BY <1>0, <1>1, SMTT(20)
<1>2. CASE a >= N
  BY <1>0, <1>2, SMTT(20)
<1> QED
  BY <1>1, <1>2, <1>0

\* The slot after slot a.
LEMMA NextSlot ==
  ASSUME NEW a \in 0 .. N - 1
  PROVE  Next1(a) = IF a = N - 1 THEN 0 ELSE a + 1
<1>1. a + 1 \in 0 .. 2 * N - 1 /\ N \in Nat /\ N > 1
  BY ErrAssumption
<1>2. (a + 1) % N = IF a + 1 < N THEN a + 1 ELSE (a + 1) - N
  BY <1>1, Wrap
<1> QED
  BY <1>1, <1>2 DEF Next1

\* Position i of a queue that starts after slot b, and how far slot t is from b.
At(b, i) == IF b + i < N THEN b + i ELSE b + i - N
Dist(b, t) == IF t >= b THEN t - b ELSE t + N - b

\* The remainders of Slot and Length compute them.
LEMMA Ring ==
  ASSUME NEW b \in 0 .. N - 1, NEW t \in 0 .. N - 1
  PROVE  /\ (t + N - b) % N = Dist(b, t)
         /\ \A i \in 0 .. N - 1 : (b + i) % N = At(b, i)
<1>0. N \in Nat /\ N > 1
  BY ErrAssumption
<1>1. t + N - b \in 0 .. 2 * N - 1
  BY <1>0
<1>2. (t + N - b) % N = IF t + N - b < N THEN t + N - b ELSE (t + N - b) - N
  BY <1>1, Wrap
<1>3. (t + N - b) % N = Dist(b, t)
  BY <1>0, <1>2 DEF Dist
<1>4. ASSUME NEW i \in 0 .. N - 1 PROVE (b + i) % N = At(b, i)
  <2>1. b + i \in 0 .. 2 * N - 1
    BY <1>0
  <2>2. (b + i) % N = IF b + i < N THEN b + i ELSE (b + i) - N
    BY <2>1, Wrap
  <2> QED
    BY <2>2, <1>0 DEF At
<1> QED
  BY <1>3, <1>4

\* The positions of the queue are slots, each position another one; position 0 is
\* |bottom| and the last one |top|.
LEMMA Positions ==
  ASSUME NEW b \in 0 .. N - 1, NEW t \in 0 .. N - 1
  PROVE  /\ Dist(b, t) \in 0 .. N - 1
         /\ \A i \in 0 .. N - 1 : At(b, i) \in 0 .. N - 1
         /\ \A i, j \in 0 .. N - 1 : At(b, i) = At(b, j) => i = j
         /\ At(b, 0) = b /\ At(b, Dist(b, t)) = t
         /\ (Dist(b, t) = 0) <=> (t = b)
         /\ \A i \in 0 .. N - 1 : Dist(b, At(b, i)) = i
<1>0. N \in Nat /\ N > 1
  BY ErrAssumption
<1> QED
  BY <1>0 DEF At, Dist

-------------------------------------------------------------------------------
(* The inductive invariant.                                                *)

InSlot(s) == \E i \in 0 .. N - 1 : errors[i].data = s
InSaved(s) == \E i \in DOMAIN saved : saved[i].data = s

\* No string has two owners.
OwnInv ==
  /\ \A i, j \in 0 .. N - 1 : errors[i].data = errors[j].data /\ errors[i].data # Null => i = j
  /\ \A i, j \in DOMAIN saved : saved[i].data = saved[j].data /\ saved[i].data # Null => i = j
  /\ \A i \in 0 .. N - 1 : errors[i].data # Null => ~ InSaved(errors[i].data)
  /\ to_free # Null => ~ InSlot(to_free) /\ ~ InSaved(to_free)

\* What an owner points to has not been freed.
LiveInv ==
  /\ \A i \in 0 .. N - 1 : errors[i].data # Null => heap[errors[i].data] # NoText
  /\ \A i \in DOMAIN saved : saved[i].data # Null => heap[saved[i].data] # NoText
  /\ to_free # Null => heap[to_free] # NoText

\* What has not been freed has an owner.
LeakInv == \A s \in Str : heap[s] # NoText => InSlot(s) \/ InSaved(s) \/ to_free = s

\* The queue or to_free, never the saved state, owns what the caller was handed.
LentInv == lent # Null => InSlot(lent) \/ to_free = lent

\* A saved state has no marks.
SavedInv == \A i \in DOMAIN saved : saved[i].mark = FALSE

IInv == TypeOK /\ OwnInv /\ LiveInv /\ LeakInv /\ LentInv /\ SavedInv

\* The invariant gives each string its one owner.
LEMMA OneHolder ==
  ASSUME TypeOK, OwnInv, LiveInv, LeakInv
  PROVE  OneOwner
<1> SUFFICES ASSUME NEW s \in Str
             PROVE  Cardinality(Holders(s)) = IF heap[s] = NoText THEN 0 ELSE 1
  BY DEF OneOwner
<1>0. s # Null /\ DOMAIN errors = 0 .. N - 1
  BY ErrAssumption DEF TypeOK
<1> DEFINE A == {<<"slot", i>> : i \in {k \in DOMAIN errors : errors[k].data = s}}
           B == {<<"saved", i>> : i \in {k \in DOMAIN saved : saved[k].data = s}}
           C == IF to_free = s THEN {<<"to_free", 0>>} ELSE {}
<1>1. Holders(s) = A \cup B \cup C
  BY DEF Holders
<1>2. A = {} \/ \E i \in 0 .. N - 1 : errors[i].data = s /\ A = {<<"slot", i>>}
  <2>1. CASE InSlot(s)
    <3>1. PICK i \in 0 .. N - 1 : errors[i].data = s
      BY <2>1 DEF InSlot
    <3>2. {k \in DOMAIN errors : errors[k].data = s} = {i}
      BY <3>1, <1>0 DEF OwnInv
    <3>3. A = {<<"slot", i>>}
      BY <3>2
    <3> QED
      BY <3>1, <3>3
  <2>2. CASE ~ InSlot(s)
    BY <2>2, <1>0 DEF InSlot
  <2> QED
    BY <2>1, <2>2
<1>3. B = {} \/ \E i \in DOMAIN saved : saved[i].data = s /\ B = {<<"saved", i>>}
  <2>1. CASE InSaved(s)
    <3>1. PICK i \in DOMAIN saved : saved[i].data = s
      BY <2>1 DEF InSaved
    <3>2. {k \in DOMAIN saved : saved[k].data = s} = {i}
      BY <3>1, <1>0 DEF OwnInv
    <3>3. B = {<<"saved", i>>}
      BY <3>2
    <3> QED
      BY <3>1, <3>3
  <2>2. CASE ~ InSaved(s)
    BY <2>2, <1>0 DEF InSaved
  <2> QED
    BY <2>1, <2>2
<1>4. A # {} => InSlot(s)
  BY <1>0 DEF InSlot
<1>5. B # {} => InSaved(s)
  BY DEF InSaved
<1>6. ~ (InSlot(s) /\ InSaved(s)) /\ ~ (InSlot(s) /\ to_free = s) /\ ~ (InSaved(s) /\ to_free = s)
  BY <1>0 DEF OwnInv, InSlot, InSaved
<1>7. InSlot(s) \/ InSaved(s) \/ to_free = s => heap[s] # NoText
  BY <1>0 DEF LiveInv, InSlot, InSaved
<1>8. CASE heap[s] = NoText
  <2>1. Holders(s) = {}
    BY <1>8, <1>1, <1>4, <1>5, <1>7
  <2> QED
    BY <2>1, <1>8, FS_EmptySet
<1>9. CASE heap[s] # NoText
  <2>1. InSlot(s) \/ InSaved(s) \/ to_free = s
    BY <1>9 DEF LeakInv
  <2>2. \E x : Holders(s) = {x}
    <3>1. CASE InSlot(s)
      <4>1. A # {} /\ B = {} /\ C = {}
        BY <3>1, <1>0, <1>5, <1>6 DEF InSlot
      <4> QED
        BY <4>1, <1>1, <1>2
    <3>2. CASE InSaved(s)
      <4>1. B # {} /\ A = {} /\ C = {}
        BY <3>2, <1>4, <1>6 DEF InSaved
      <4> QED
        BY <4>1, <1>1, <1>3
    <3>3. CASE to_free = s
      <4>1. B = {} /\ A = {} /\ C = {<<"to_free", 0>>}
        BY <3>3, <1>4, <1>5, <1>6
      <4> QED
        BY <4>1, <1>1
    <3> QED
      BY <2>1, <3>1, <3>2, <3>3
  <2> QED
    BY <2>2, <1>9, FS_Singleton
<1> QED
  BY <1>8, <1>9

-------------------------------------------------------------------------------
(* Effects on the heap, string by string.                                  *)

\* Every string of S is free in D and the others are as in h.
Freed(D, h, S) == \A x \in Str : D[x] = IF x \in S THEN NoText ELSE h[x]

Heaps == [Str -> Text \cup {NoText}]

\* free() of a pointer that may be NULL.
LEMMA FreeForm ==
  ASSUME NEW h \in Heaps, NEW s \in Str \cup {Null}, NEW D, D = Free(h, s)
  PROVE  D \in Heaps /\ Freed(D, h, {s})
BY ErrAssumption DEF Free, Heaps, Freed

\* FreeAll leaves a heap in which the strings of S are free and the others are
\* as they were.
LEMMA FreeAllForm ==
  ASSUME NEW h \in Heaps, NEW S, NEW D, D = FreeAll(h, S)
  PROVE  D \in Heaps /\ Freed(D, h, S)
BY DEF FreeAll, Heaps, Freed

\* What a slot and a saved error hold.
LEMMA Types ==
  ASSUME TypeOK
  PROVE  /\ heap \in Heaps /\ DOMAIN errors = 0 .. N - 1
         /\ \A k \in 0 .. N - 1 :
              /\ errors[k] \in Slots /\ errors[k].data \in Str \cup {Null}
              /\ errors[k].packed \in Err \cup {0} /\ errors[k].mark \in BOOLEAN
         /\ Len(saved) \in 0 .. N - 1 /\ DOMAIN saved = 1 .. Len(saved)
         /\ \A k \in DOMAIN saved :
              /\ saved[k] \in Slots /\ saved[k].data \in Str \cup {Null}
              /\ saved[k].packed \in Err \cup {0} /\ saved[k].mark \in BOOLEAN
<1>1. Len(saved) \in Nat /\ DOMAIN saved = 1 .. Len(saved) /\ Len(saved) < N
  BY DEF TypeOK
<1>2. \A k \in DOMAIN saved : saved[k] \in Slots
  BY DEF TypeOK
<1>3. \A k \in 0 .. N - 1 : errors[k] \in Slots
  BY DEF TypeOK
<1> QED
  BY <1>1, <1>2, <1>3, ErrAssumption DEF TypeOK, Slots, Heaps

\* The slots of G lose their data, which is freed, and nothing else changes.
LEMMA Release ==
  ASSUME IInv, NEW G \in SUBSET (0 .. N - 1),
         \A k \in 0 .. N - 1 : (errors[k].data)' = IF k \in G THEN Null ELSE errors[k].data,
         Freed(heap', heap, {errors[k].data : k \in G}),
         UNCHANGED <<saved, to_free>>
  PROVE  OwnInv' /\ LiveInv' /\ LeakInv'
<1>0. TypeOK /\ OwnInv /\ LiveInv /\ LeakInv
  BY DEF IInv
<1>1. saved' = saved /\ to_free' = to_free
  OBVIOUS
<1>2. \A k \in 0 .. N - 1 : errors[k].data \in Str \cup {Null}
  BY <1>0 DEF TypeOK, Slots
<1>3. \A k \in DOMAIN saved : saved[k].data \in Str \cup {Null}
  BY <1>0, Types
<1>4. \A s \in Str : InSlot(s)' => InSlot(s)
  BY ErrAssumption DEF InSlot
<1>5. \A s : InSaved(s)' <=> InSaved(s)
  BY <1>1 DEF InSaved
<1>6. OwnInv'
  <2>1. \A i, j \in 0 .. N - 1 :
          (errors[i].data)' = (errors[j].data)' /\ (errors[i].data)' # Null => i = j
    BY <1>0 DEF OwnInv
  <2>2. \A i \in 0 .. N - 1 : (errors[i].data)' # Null => ~ InSaved((errors[i].data))'
    BY <1>0, <1>1 DEF OwnInv, InSaved
  <2>3. to_free # Null => ~ InSlot(to_free)'
    BY <1>0, <1>1, <1>4 DEF OwnInv, TypeOK
  <2> QED
    BY <1>0, <1>1, <1>5, <2>1, <2>2, <2>3 DEF OwnInv, InSaved, InSlot
<1>7. LiveInv'
  <2>1. ASSUME NEW k \in 0 .. N - 1, (errors[k].data)' # Null
        PROVE  heap'[(errors[k].data)'] # NoText
    <3>1. k \notin G /\ (errors[k].data)' = errors[k].data /\ errors[k].data \in Str
      BY <2>1, <1>2
    <3>2. errors[k].data \notin {errors[g].data : g \in G}
      BY <3>1, <2>1, <1>0 DEF OwnInv
    <3> QED
      BY <3>1, <3>2, <2>1, <1>0 DEF Freed, LiveInv
  <2>2. ASSUME NEW k \in DOMAIN saved, saved[k].data # Null
        PROVE  heap'[saved[k].data] # NoText
    <3>1. saved[k].data \in Str
      BY <2>2, <1>3
    <3>2. saved[k].data \notin {errors[g].data : g \in G}
      BY <2>2, <1>0 DEF OwnInv, InSaved
    <3> QED
      BY <3>1, <3>2, <2>2, <1>0 DEF Freed, LiveInv
  <2>3. to_free # Null => heap'[to_free] # NoText
    <3>1. to_free # Null => to_free \notin {errors[g].data : g \in G}
      BY <1>0 DEF OwnInv, InSlot
    <3> QED
      BY <3>1, <1>0 DEF Freed, LiveInv, TypeOK
  <2> QED
    BY <1>1, <2>1, <2>2, <2>3 DEF LiveInv
<1>8. LeakInv'
  <2> SUFFICES ASSUME NEW s \in Str, heap'[s] # NoText
               PROVE  InSlot(s)' \/ InSaved(s)' \/ to_free' = s
    BY DEF LeakInv
  <2>1. s \notin {errors[g].data : g \in G} /\ heap[s] # NoText
    BY DEF Freed
  <2>2. InSlot(s) => InSlot(s)'
    BY <2>1 DEF InSlot
  <2> QED
    BY <2>1, <2>2, <1>0, <1>1, <1>5 DEF LeakInv
<1> QED
  BY <1>6, <1>7, <1>8

-------------------------------------------------------------------------------
(* Every step keeps the invariant.                                         *)

\* The empty ring of a thread's first call satisfies the invariant.
LEMMA InitIInv == Init => IInv
<1> SUFFICES ASSUME Init PROVE IInv
  OBVIOUS
<1>0. N \in Nat /\ N > 1 /\ Null \notin Str
  BY ErrAssumption
<1>1. \A i \in 0 .. N - 1 : errors[i] = Blank /\ errors[i].data = Null
  BY DEF Init, Blank
<1>2. saved = <<>> /\ DOMAIN saved = {} /\ Len(saved) = 0 /\ saved \in Seq(Slots)
  BY DEF Init
<1>3. TypeOK
  <2>1. errors \in [0 .. N - 1 -> Slots]
    BY DEF Init, Blank, Slots
  <2> QED
    BY <1>0, <1>2, <2>1, ErrAssumption DEF Init, TypeOK
<1>4. OwnInv /\ LiveInv /\ SavedInv
  BY <1>1, <1>2 DEF Init, OwnInv, LiveInv, SavedInv
<1>5. LeakInv /\ LentInv
  BY DEF Init, LeakInv, LentInv
<1> QED
  BY <1>3, <1>4, <1>5 DEF IInv

\* A step that leaves the owners and the heap alone.
LEMMA Frame ==
  ASSUME IInv, TypeOK', LentInv',
         \A k \in 0 .. N - 1 : (errors[k].data)' = errors[k].data,
         UNCHANGED <<to_free, saved, heap>>
  PROVE  IInv'
<1>0. TypeOK /\ OwnInv /\ LiveInv /\ LeakInv /\ SavedInv
  BY DEF IInv
<1>1. saved' = saved /\ to_free' = to_free /\ heap' = heap
  OBVIOUS
<1>2. \A s : (InSaved(s)' <=> InSaved(s)) /\ (InSlot(s)' <=> InSlot(s))
  BY <1>1 DEF InSaved, InSlot
<1>3. OwnInv'
  <2>1. \A i \in 0 .. N - 1 : (errors[i].data)' # Null => ~ InSaved((errors[i].data))'
    BY <1>0, <1>1 DEF OwnInv, InSaved
  <2>2. to_free # Null => ~ InSlot(to_free)' /\ ~ InSaved(to_free)'
    BY <1>0, <1>2 DEF OwnInv
  <2>3. \A i, j \in 0 .. N - 1 :
          (errors[i].data)' = (errors[j].data)' /\ (errors[i].data)' # Null => i = j
    BY <1>0 DEF OwnInv
  <2> QED
    BY <1>0, <1>1, <2>1, <2>2, <2>3 DEF OwnInv, InSaved, InSlot
<1>4. LiveInv' /\ LeakInv' /\ SavedInv'
  BY <1>0, <1>1, <1>2 DEF LiveInv, LeakInv, SavedInv
<1> QED
  BY <1>3, <1>4 DEF IInv

\* ERR_put_error frees the data of the slot it overwrites, which nothing else
\* owns, and takes over a blank one.
LEMMA PutKeeps == ASSUME IInv, NEW e \in Err, ERR_put_error(e) PROVE IInv'
<1> DEFINE t == Next1(top)
<1>0. TypeOK /\ SavedInv
  BY DEF IInv
<1>1. t \in 0 .. N - 1 /\ BottomAfter(t) \in 0 .. N - 1
  <2>1. top \in 0 .. N - 1 /\ bottom \in 0 .. N - 1 /\ N \in Nat /\ N > 1
    BY <1>0, ErrAssumption DEF TypeOK
  <2>2. Next1(top) \in 0 .. N - 1
    BY <2>1, NextSlot
  <2>3. Next1(bottom) \in 0 .. N - 1
    BY <2>1, NextSlot
  <2> QED
    BY <2>1, <2>2, <2>3 DEF BottomAfter
<1> HIDE DEF t
<1>2. /\ top' = t /\ bottom' = BottomAfter(t) /\ heap' = Free(heap, errors[t].data)
      /\ errors' = [errors EXCEPT ![t] = [Blank EXCEPT !.packed = e]]
      /\ lent' = Null /\ to_free' = to_free /\ suppress' = suppress /\ saved' = saved /\ ret' = ret
  BY DEF ERR_put_error, t
<1>3. [Blank EXCEPT !.packed = e] \in Slots /\ [Blank EXCEPT !.packed = e].data = Null
  BY DEF Blank, Slots
<1>4. \A k \in 0 .. N - 1 : (errors[k].data)' = IF k \in {t} THEN Null ELSE errors[k].data
  BY <1>0, <1>1, <1>2, <1>3 DEF TypeOK
<1>5. heap' \in Heaps /\ Freed(heap', heap, {errors[k].data : k \in {t}})
  <2>1. {errors[k].data : k \in {t}} = {errors[t].data}
    OBVIOUS
  <2>2. heap \in Heaps /\ errors[t].data \in Str \cup {Null}
    BY <1>0, <1>1, Types
  <2> QED
    BY <2>1, <2>2, <1>2, FreeForm
<1>6. TypeOK'
  <2>1. errors' \in [0 .. N - 1 -> Slots]
    BY <1>0, <1>1, <1>2, <1>3 DEF TypeOK
  <2> QED
    BY <1>0, <1>1, <1>2, <1>5, <2>1 DEF TypeOK, Heaps
<1>7. OwnInv' /\ LiveInv' /\ LeakInv'
  <2>1. {t} \in SUBSET (0 .. N - 1) /\ UNCHANGED <<saved, to_free>>
    BY <1>1, <1>2
  <2> QED
    BY <2>1, <1>4, <1>5, Release
<1>8. LentInv' /\ SavedInv'
  BY <1>0, <1>2 DEF LentInv, SavedInv
<1> QED
  BY <1>6, <1>7, <1>8 DEF IInv

\* err_set_error_data gives the newest error a fresh string and frees the old
\* one.
LEMMA SetDataKeeps == ASSUME IInv, NEW x \in Text, err_set_error_data(x) PROVE IInv'
<1>0. TypeOK /\ OwnInv /\ LiveInv /\ LeakInv /\ SavedInv
  BY DEF IInv
<1>1. PICK s \in Str :
        /\ heap[s] = NoText
        /\ errors' = [errors EXCEPT ![top].data = s]
        /\ heap' = [Free(heap, errors[top].data) EXCEPT ![s] = x]
        /\ lent' = Null
        /\ UNCHANGED <<top, bottom, to_free, suppress, saved, ret>>
  BY DEF err_set_error_data
<1>2. s # Null /\ x # NoText
  BY ErrAssumption
<1>3. top \in 0 .. N - 1 /\ errors[top].data \in Str \cup {Null} /\ errors[top].data # s
  BY <1>0, <1>1, <1>2, Types DEF LiveInv, TypeOK
<1>4. \A k \in 0 .. N - 1 : (errors[k].data)' = IF k = top THEN s ELSE errors[k].data
  BY <1>0, <1>1, <1>3, Types
<1>5. heap' \in Heaps /\ \A y \in Str : heap'[y] = IF y = s THEN x
                                                  ELSE IF y = errors[top].data THEN NoText ELSE heap[y]
  <2>1. Free(heap, errors[top].data) \in Heaps
    BY <1>0, <1>3, FreeForm, Types
  <2>2. Freed(Free(heap, errors[top].data), heap, {errors[top].data})
    BY <1>0, <1>3, FreeForm, Types
  <2> HIDE DEF Free
  <2>3. \A y \in Str : Free(heap, errors[top].data)[y] = IF y = errors[top].data THEN NoText ELSE heap[y]
    BY <2>2 DEF Freed
  <2> QED
    BY <1>1, <1>2, <2>1, <2>3 DEF Heaps
<1>6. TypeOK'
  <2>1. errors' \in [0 .. N - 1 -> Slots]
    BY <1>0, <1>1, <1>3 DEF TypeOK, Slots
  <2> QED
    BY <1>0, <1>1, <1>5, <2>1 DEF TypeOK, Heaps
<1>7. saved' = saved /\ to_free' = to_free
  BY <1>1
<1>8. ~ InSlot(s) /\ ~ InSaved(s) /\ to_free # s
  BY <1>0, <1>1, <1>2 DEF LiveInv, InSlot, InSaved
<1>9. \A y \in Str : InSlot(y)' => InSlot(y) \/ y = s
  BY <1>4 DEF InSlot
<1>10. OwnInv'
  <2>1. \A i, j \in 0 .. N - 1 :
          (errors[i].data)' = (errors[j].data)' /\ (errors[i].data)' # Null => i = j
    BY <1>0, <1>4, <1>8 DEF OwnInv, InSlot
  <2>2. \A i \in 0 .. N - 1 : (errors[i].data)' # Null => ~ InSaved((errors[i].data))'
    BY <1>0, <1>4, <1>7, <1>8 DEF OwnInv, InSaved
  <2>3. to_free # Null => ~ InSlot(to_free)' /\ ~ InSaved(to_free)'
    BY <1>0, <1>7, <1>8, <1>9 DEF OwnInv, TypeOK, InSaved
  <2> QED
    BY <1>0, <1>7, <2>1, <2>2, <2>3 DEF OwnInv, InSaved, InSlot
<1>11. LiveInv'
  <2>1. ASSUME NEW k \in 0 .. N - 1, (errors[k].data)' # Null
        PROVE  heap'[(errors[k].data)'] # NoText
    <3>1. CASE k = top
      BY <3>1, <1>2, <1>4, <1>5
    <3>2. CASE k # top
      BY <3>2, <2>1, <1>0, <1>2, <1>3, <1>4, <1>5, Types DEF OwnInv, LiveInv
    <3> QED
      BY <3>1, <3>2
  <2>2. ASSUME NEW k \in DOMAIN saved, saved[k].data # Null
        PROVE  heap'[saved[k].data] # NoText
    <3>1. saved[k].data \in Str /\ saved[k].data # s /\ saved[k].data # errors[top].data
      BY <2>2, <1>0, <1>3, <1>8, Types DEF OwnInv, InSaved
    <3> QED
      BY <3>1, <2>2, <1>0, <1>5 DEF LiveInv
  <2>3. to_free # Null => heap'[to_free] # NoText
    BY <1>0, <1>3, <1>5, <1>8 DEF OwnInv, InSlot, LiveInv, TypeOK
  <2> QED
    BY <1>7, <2>1, <2>2, <2>3 DEF LiveInv
<1>12. LeakInv'
  <2> SUFFICES ASSUME NEW y \in Str, heap'[y] # NoText
               PROVE  InSlot(y)' \/ InSaved(y)' \/ to_free' = y
    BY DEF LeakInv
  <2>1. CASE y = s
    BY <2>1, <1>3, <1>4 DEF InSlot
  <2>2. CASE y # s
    <3>1. y # errors[top].data /\ heap[y] # NoText
      BY <2>2, <1>5
    <3>2. InSlot(y) => InSlot(y)'
      BY <3>1, <1>4 DEF InSlot
    <3> QED
      BY <3>1, <3>2, <1>0, <1>7 DEF LeakInv, InSaved
  <2> QED
    BY <2>1, <2>2
<1>13. LentInv' /\ SavedInv'
  BY <1>0, <1>1 DEF LentInv, SavedInv
<1> QED
  BY <1>6, <1>10, <1>11, <1>12, <1>13 DEF IInv

\* ERR_get_error and ERR_get_error_line_data hand the oldest error's data to
\* to_free or free it, and blank the slot.
LEMMA GetKeeps == ASSUME IInv, NEW w \in BOOLEAN, Get(w) PROVE IInv'
<1> DEFINE i == Next1(bottom)
           d == errors[i].data
<1>0. TypeOK /\ OwnInv /\ LiveInv /\ LeakInv /\ SavedInv
  BY DEF IInv
<1>1. i \in 0 .. N - 1
  <2>1. bottom \in 0 .. N - 1 /\ N \in Nat /\ N > 1
    BY <1>0, ErrAssumption DEF TypeOK
  <2> QED
    BY <2>1, NextSlot
<1>2. d \in Str \cup {Null} /\ errors[i].packed \in Err \cup {0}
  BY <1>0, <1>1, Types
<1>3. /\ ret' = errors[i].packed /\ heap' = HeapAfterGet(w, d)
      /\ to_free' = IF w /\ d # Null THEN d ELSE to_free
      /\ lent' = IF w THEN d ELSE Null
      /\ errors' = [errors EXCEPT ![i] = Blank] /\ bottom' = i
      /\ top' = top /\ suppress' = suppress /\ saved' = saved
  BY DEF Get
<1> HIDE DEF i
<1>4. \A k \in 0 .. N - 1 : (errors[k].data)' = IF k = i THEN Null ELSE errors[k].data
  BY <1>0, <1>1, <1>3, Types DEF Blank
<1> DEFINE gone == IF w /\ d # Null THEN to_free ELSE d
<1>5. gone \in Str \cup {Null} /\ heap' = Free(heap, gone) /\ heap \in Heaps
  BY <1>0, <1>2, <1>3, Types DEF HeapAfterGet, TypeOK
<1>6. heap' \in Heaps /\ Freed(heap', heap, {gone})
  BY <1>5, FreeForm
<1>7. TypeOK'
  <2>1. errors' \in [0 .. N - 1 -> Slots]
    BY <1>0, <1>1, <1>3 DEF TypeOK, Slots, Blank
  <2> QED
    BY <1>0, <1>1, <1>2, <1>3, <1>6, <2>1 DEF TypeOK, Heaps
<1>8. OwnInv' /\ LiveInv' /\ LeakInv'
  <2>1. CASE ~ (w /\ d # Null)
    <3>1. gone = d /\ UNCHANGED <<saved, to_free>>
      BY <2>1, <1>3
    <3>2. \A k \in 0 .. N - 1 : (errors[k].data)' = IF k \in {i} THEN Null ELSE errors[k].data
      BY <1>4
    <3>3. Freed(heap', heap, {errors[k].data : k \in {i}}) /\ {i} \in SUBSET (0 .. N - 1)
      <4>1. {errors[k].data : k \in {i}} = {d}
        OBVIOUS
      <4> QED
        BY <4>1, <3>1, <1>1, <1>6
    <3> QED
      BY <3>1, <3>2, <3>3, Release
  <2>2. CASE w /\ d # Null
    <3>1. gone = to_free /\ to_free' = d /\ d \in Str /\ d # to_free /\ saved' = saved
      BY <2>2, <1>0, <1>1, <1>2, <1>3 DEF OwnInv, InSlot
    <3>2. \A y \in Str : heap'[y] = IF y = to_free THEN NoText ELSE heap[y]
      BY <1>6, <3>1 DEF Freed
    <3>3. PICK c \in Str : c = errors[i].data /\ to_free' = c /\ c # Null
      BY <2>2, <3>1
    <3> HIDE DEF d, gone
    <3>4. ~ InSlot(c)'
      BY <3>1, <3>3, <1>0, <1>1, <1>4 DEF InSlot, OwnInv
    <3>5. ~ InSaved(c) /\ ~ InSaved(c)'
      BY <3>1, <3>3, <1>0, <1>1, <2>2 DEF OwnInv, InSaved
    <3>6. OwnInv'
      <4>1. \A j, k \in 0 .. N - 1 :
              (errors[j].data)' = (errors[k].data)' /\ (errors[j].data)' # Null => j = k
        BY <1>0, <1>4 DEF OwnInv
      <4>2. \A k \in 0 .. N - 1 : (errors[k].data)' # Null => ~ InSaved((errors[k].data))'
        BY <1>0, <1>4, <3>1 DEF OwnInv, InSaved
      <4> QED
        BY <1>0, <3>1, <3>3, <3>4, <3>5, <4>1, <4>2 DEF OwnInv, InSaved, InSlot
    <3>7. LiveInv'
      <4>1. ASSUME NEW k \in 0 .. N - 1, (errors[k].data)' # Null
            PROVE  heap'[(errors[k].data)'] # NoText
        <5>1. (errors[k].data)' = errors[k].data /\ errors[k].data \in Str
          BY <4>1, <1>0, <1>4, Types
        <5>2. errors[k].data # to_free
          BY <5>1, <4>1, <1>0 DEF OwnInv, InSlot
        <5> QED
          BY <5>1, <5>2, <4>1, <3>2, <1>0 DEF LiveInv
      <4>2. ASSUME NEW k \in DOMAIN saved, saved[k].data # Null
            PROVE  heap'[saved[k].data] # NoText
        <5>1. saved[k].data \in Str /\ saved[k].data # to_free
          BY <4>2, <1>0, Types DEF OwnInv, InSaved
        <5> QED
          BY <5>1, <4>2, <3>2, <1>0 DEF LiveInv
      <4>3. heap'[c] # NoText
        BY <3>1, <3>2, <3>3, <1>0, <1>1, <2>2 DEF LiveInv
      <4> QED
        BY <3>1, <3>3, <4>1, <4>2, <4>3 DEF LiveInv
    <3>8. LeakInv'
      <4> SUFFICES ASSUME NEW y \in Str, heap'[y] # NoText
                   PROVE  InSlot(y)' \/ InSaved(y)' \/ to_free' = y
        BY DEF LeakInv
      <4>1. y # to_free /\ heap[y] # NoText
        BY <3>2
      <4>2. InSlot(y) => InSlot(y)' \/ y = c
        BY <3>3, <1>4 DEF InSlot
      <4> QED
        BY <4>1, <4>2, <1>0, <3>1, <3>3 DEF LeakInv, InSaved
    <3> QED
      BY <3>6, <3>7, <3>8
  <2> QED
    BY <2>1, <2>2
<1>9. LentInv' /\ SavedInv'
  BY <1>0, <1>3 DEF LentInv, SavedInv
<1> QED
  BY <1>7, <1>8, <1>9 DEF IInv

\* Peeking lends a string that a slot of the queue still owns.
LEMMA PeekKeeps == ASSUME IInv, NEW w \in BOOLEAN, Peek(w) PROVE IInv'
<1>0. TypeOK /\ LentInv
  BY DEF IInv
<1>1. Next1(bottom) \in 0 .. N - 1 /\ top \in 0 .. N - 1
  BY <1>0, NextSlot, ErrAssumption DEF TypeOK
<1>2. PICK i \in 0 .. N - 1 : /\ ret' = errors[i].packed
                              /\ lent' = IF w THEN errors[i].data ELSE lent
  BY <1>1 DEF Peek
<1>3. UNCHANGED <<errors, top, bottom, to_free, suppress, saved, heap>>
  BY DEF Peek
<1>4. errors[i].packed \in Err \cup {0} /\ errors[i].data \in Str \cup {Null}
  BY <1>0, Types
<1>5. TypeOK'
  BY <1>0, <1>2, <1>3, <1>4 DEF TypeOK
<1>6. LentInv'
  BY <1>0, <1>2, <1>3 DEF LentInv, InSlot
<1> QED
  BY <1>3, <1>5, <1>6, Frame

\* A read of the empty queue changes nothing but what it returns.
LEMMA GetNothingKeeps == ASSUME IInv, GetNothing PROVE IInv'
<1>1. TypeOK /\ LentInv
  BY DEF IInv
<1>2. UNCHANGED <<errors, top, bottom, to_free, suppress, saved, heap, lent>> /\ ret' = 0
  BY DEF GetNothing
<1>3. TypeOK' /\ LentInv'
  BY <1>1, <1>2 DEF TypeOK, LentInv, InSlot
<1> QED
  BY <1>2, <1>3, Frame

\* ERR_set_mark changes one mark and no string.
LEMMA SetMarkKeeps == ASSUME IInv, ERR_set_mark PROVE IInv'
<1>1. TypeOK /\ LentInv
  BY DEF IInv
<1>2. /\ UNCHANGED <<top, bottom, to_free, suppress, saved, heap, lent>> /\ ret' = 1
      /\ errors' = [errors EXCEPT ![top].mark = TRUE] /\ top \in 0 .. N - 1
  BY <1>1 DEF ERR_set_mark, TypeOK
<1>3. \A k \in 0 .. N - 1 : (errors[k].data)' = errors[k].data
  BY <1>1, <1>2, Types
<1>4. errors' \in [0 .. N - 1 -> Slots]
  BY <1>1, <1>2 DEF TypeOK, Slots
<1>5. TypeOK' /\ LentInv'
  BY <1>1, <1>2, <1>3, <1>4 DEF TypeOK, LentInv, InSlot
<1> QED
  BY <1>2, <1>3, <1>5, Frame

\* A suppression scope opens or closes and the queue stays.
LEMMA SuppressKeeps ==
  ASSUME IInv, ERR_suppress_errors_begin \/ ERR_suppress_errors_end
  PROVE  IInv'
<1>1. TypeOK /\ LentInv /\ MaxDepth \in Nat
  BY ErrAssumption DEF IInv
<1>2. /\ UNCHANGED <<errors, top, bottom, to_free, saved, heap, lent>>
      /\ suppress' \in 0 .. MaxDepth /\ ret' \in {ret, 1}
  BY <1>1 DEF ERR_suppress_errors_begin, ERR_suppress_errors_end, TypeOK
<1>3. TypeOK' /\ LentInv'
  BY <1>1, <1>2 DEF TypeOK, LentInv, InSlot
<1> QED
  BY <1>2, <1>3, Frame

\* ERR_clear_error and err_state_free free every string of the ring and
\* to_free, and own none after it.
LEMMA ClearKeeps ==
  ASSUME IInv, ClearQueue, saved' = saved, ret' = ret, suppress' \in 0 .. MaxDepth
  PROVE  IInv'
<1>0. TypeOK /\ OwnInv /\ LiveInv /\ LeakInv /\ SavedInv /\ N \in Nat /\ N > 1
  BY ErrAssumption DEF IInv
<1>1. /\ heap' = FreeAll(heap, DataOf(errors) \cup {to_free})
      /\ errors' = [i \in 0 .. N - 1 |-> Blank]
      /\ to_free' = Null /\ top' = 0 /\ bottom' = 0 /\ lent' = Null
  BY DEF ClearQueue
<1>2. heap' \in Heaps /\ Freed(heap', heap, DataOf(errors) \cup {to_free})
  BY <1>0, <1>1, FreeAllForm, Types
<1>3. \A k \in 0 .. N - 1 : (errors[k].data)' = Null
  BY <1>1 DEF Blank
<1>4. TypeOK'
  <2>1. errors' \in [0 .. N - 1 -> Slots]
    BY <1>1 DEF Slots, Blank
  <2>2. top' \in 0 .. N - 1 /\ bottom' \in 0 .. N - 1
    BY <1>0, <1>1
  <2>3. /\ to_free' \in Str \cup {Null} /\ lent' \in Str \cup {Null}
        /\ heap' \in [Str -> Text \cup {NoText}]
    BY <1>1, <1>2 DEF Heaps
  <2>4. saved' \in Seq(Slots) /\ Len(saved') < N /\ ret' \in Err \cup {0, 1}
    BY <1>0 DEF TypeOK
  <2> QED
    BY <2>1, <2>2, <2>3, <2>4 DEF TypeOK
<1>5. OwnInv'
  BY <1>0, <1>1, <1>3 DEF OwnInv
<1>6. LiveInv'
  <2>1. ASSUME NEW k \in DOMAIN saved, saved[k].data # Null
        PROVE  heap'[saved[k].data] # NoText
    <3>1. saved[k].data \in Str /\ saved[k].data \notin DataOf(errors) \cup {to_free}
      BY <2>1, <1>0, Types DEF OwnInv, InSaved, DataOf
    <3> QED
      BY <3>1, <2>1, <1>0, <1>2 DEF LiveInv, Freed
  <2> QED
    BY <1>1, <1>3, <2>1 DEF LiveInv
<1>7. LeakInv'
  <2> SUFFICES ASSUME NEW y \in Str, heap'[y] # NoText PROVE InSaved(y)'
    BY DEF LeakInv
  <2>1. y \notin DataOf(errors) \cup {to_free} /\ heap[y] # NoText
    BY <1>2 DEF Freed
  <2>2. ~ InSlot(y)
    BY <2>1, <1>0, Types DEF InSlot, DataOf
  <2> QED
    BY <2>1, <2>2, <1>0 DEF LeakInv, InSaved
<1>8. LentInv' /\ SavedInv'
  BY <1>0, <1>1 DEF LentInv, SavedInv
<1> QED
  BY <1>4, <1>5, <1>6, <1>7, <1>8 DEF IInv

\* The positions of this queue.
LEMMA SlotRange ==
  ASSUME TypeOK
  PROVE  /\ Length \in 0 .. N - 1
         /\ \A j \in 0 .. N - 1 : Slot(j) \in 0 .. N - 1
         /\ \A i, j \in 0 .. N - 1 : Slot(i) = Slot(j) => i = j
         /\ Slot(Length) = top /\ Slot(1) = Next1(bottom)
         /\ Empty <=> Length = 0
<1>0. top \in 0 .. N - 1 /\ bottom \in 0 .. N - 1 /\ N \in Nat /\ N > 1
  BY ErrAssumption DEF TypeOK
<1>1. Length = Dist(bottom, top) /\ \A i \in 0 .. N - 1 : Slot(i) = At(bottom, i)
  BY <1>0, Ring DEF Length, Slot
<1>2. /\ Dist(bottom, top) \in 0 .. N - 1
      /\ \A i \in 0 .. N - 1 : At(bottom, i) \in 0 .. N - 1
      /\ \A i, j \in 0 .. N - 1 : At(bottom, i) = At(bottom, j) => i = j
      /\ At(bottom, Dist(bottom, top)) = top
      /\ (Dist(bottom, top) = 0) <=> (top = bottom)
  BY <1>0, Positions
<1>3. Slot(1) = Next1(bottom)
  BY DEF Slot, Next1
<1> QED
  BY <1>1, <1>2, <1>3 DEF Empty

\* ERR_pop_to_mark frees the data of the errors above the mark and blanks their
\* slots.
LEMMA PopToMarkKeeps == ASSUME IInv, ERR_pop_to_mark PROVE IInv'
<1>0. TypeOK /\ SavedInv /\ N \in Nat /\ N > 1
  BY ErrAssumption DEF IInv
<1>1. PICK i \in 0 .. Length :
        LET gone == {Slot(j) : j \in i + 1 .. Length}
        IN  /\ errors' = [k \in 0 .. N - 1 |->
                            IF k \in gone THEN Blank
                            ELSE IF i # 0 /\ k = Slot(i) THEN MarkTaken(i)
                            ELSE errors[k]]
            /\ heap' = FreeAll(heap, {errors[k].data : k \in gone})
            /\ top' = Slot(i)
            /\ ret' = IF i = 0 THEN 0 ELSE 1
            /\ lent' = Null
            /\ UNCHANGED <<bottom, to_free, suppress, saved>>
  BY DEF ERR_pop_to_mark
<1> DEFINE gone == {Slot(j) : j \in i + 1 .. Length}
<1>2. Length \in 0 .. N - 1 /\ \A j \in 0 .. N - 1 : Slot(j) \in 0 .. N - 1
  BY <1>0, SlotRange
<1>3. gone \in SUBSET (0 .. N - 1) /\ Slot(i) \in 0 .. N - 1
  BY <1>0, <1>2
<1>4. heap' \in Heaps /\ Freed(heap', heap, {errors[k].data : k \in gone})
  BY <1>0, <1>1, FreeAllForm, Types
<1> HIDE DEF gone
<1>5. errors[Slot(i)] \in Slots /\ MarkTaken(i) \in Slots
      /\ MarkTaken(i).data = errors[Slot(i)].data
  BY <1>0, <1>3, Types DEF MarkTaken, Slots
<1>6. errors' = [k \in 0 .. N - 1 |->
                    IF k \in gone THEN Blank
                    ELSE IF i # 0 /\ k = Slot(i) THEN MarkTaken(i)
                    ELSE errors[k]]
  BY <1>1 DEF gone
<1>7. Blank \in Slots /\ Blank.data = Null
  BY DEF Blank, Slots
<1>8. \A k \in 0 .. N - 1 : (errors[k].data)' = IF k \in gone THEN Null ELSE errors[k].data
  BY <1>5, <1>6, <1>7
<1>9. TypeOK'
  <2>1. errors' \in [0 .. N - 1 -> Slots]
    BY <1>0, <1>5, <1>6, <1>7, Types
  <2>2. top' \in 0 .. N - 1 /\ ret' \in {0, 1} /\ lent' = Null
    BY <1>1, <1>3
  <2>3. UNCHANGED <<bottom, to_free, suppress, saved>>
    BY <1>1
  <2> QED
    BY <1>0, <1>4, <2>1, <2>2, <2>3 DEF TypeOK, Heaps
<1>10. UNCHANGED <<saved, to_free>> /\ lent' = Null
  BY <1>1
<1>11. OwnInv' /\ LiveInv' /\ LeakInv'
  BY <1>3, <1>4, <1>8, <1>10, Release
<1>12. LentInv' /\ SavedInv'
  BY <1>0, <1>10 DEF LentInv, SavedInv
<1> QED
  BY <1>9, <1>11, <1>12 DEF IInv

\* What the duplicates of the strings src are: each is new, holds the text of its
\* original, and the rest of the heap is as before.
Copied(src, h, c, D) ==
  /\ \A i \in DOMAIN src : c[i] # Null =>
       /\ c[i] \in Str /\ h[c[i]] = NoText
       /\ src[i] # Null /\ D[c[i]] = heap[src[i]]
  /\ \A i, j \in DOMAIN src : c[i] = c[j] /\ c[i] # Null => i = j
  /\ \A s \in Str : (\A i \in DOMAIN src : c[i] # s) => D[s] = h[s]

\* The copies err_copy makes are fresh strings with the text of what they copy,
\* and no other string changes.
LEMMA CopyForm ==
  ASSUME NEW src, NEW h \in Heaps, NEW c \in Copies(src, h), heap \in Heaps,
         \A i \in DOMAIN src : src[i] \in Str \cup {Null},
         NEW D, D = Duplicated(h, src, c)
  PROVE  D \in Heaps /\ Copied(src, h, c, D) /\ \A i \in DOMAIN src : c[i] \in Str \cup {Null}
<1>0. Null \notin Str
  BY ErrAssumption
<1>1. \A i \in DOMAIN src : c[i] \in Str \cup {Null} /\ (c[i] # Null => h[c[i]] = NoText /\ src[i] # Null)
  BY DEF Copies
<1>2. \A i, j \in DOMAIN src : c[i] = c[j] /\ c[i] # Null => i = j
  BY DEF Copies
<1> DEFINE From(s) == CHOOSE i \in DOMAIN src : c[i] = s
<1>3. \A s \in Str : (\E i \in DOMAIN src : c[i] = s) =>
                     From(s) \in DOMAIN src /\ c[From(s)] = s
  OBVIOUS
<1>4. D = [s \in Str |-> IF \E i \in DOMAIN src : c[i] = s THEN heap[src[From(s)]] ELSE h[s]]
  BY DEF Duplicated
<1> HIDE DEF From
<1>5. \A i \in DOMAIN src : c[i] # Null => From(c[i]) = i /\ D[c[i]] = heap[src[i]]
  BY <1>1, <1>2, <1>3, <1>4
<1>6. \A s \in Str : (\A i \in DOMAIN src : c[i] # s) => D[s] = h[s]
  BY <1>4
<1>7. \A s \in Str : D[s] \in Text \cup {NoText}
  <2> SUFFICES ASSUME NEW s \in Str PROVE D[s] \in Text \cup {NoText}
    OBVIOUS
  <2>1. CASE \E i \in DOMAIN src : c[i] = s
    <3>1. PICK i \in DOMAIN src : c[i] = s
      BY <2>1
    <3>2. c[i] # Null /\ src[i] \in Str /\ D[s] = heap[src[i]]
      BY <3>1, <1>0, <1>1, <1>5
    <3> QED
      BY <3>2 DEF Heaps
  <2>2. CASE \A i \in DOMAIN src : c[i] # s
    BY <2>2, <1>6 DEF Heaps
  <2> QED
    BY <2>1, <2>2
<1>8. D \in Heaps
  BY <1>4, <1>7 DEF Heaps
<1> QED
  BY <1>1, <1>2, <1>5, <1>6, <1>8 DEF Copied

\* ERR_save_state: the saved errors own copies, none of them a string of the
\* ring.
LEMMA SaveKeeps == ASSUME IInv, ERR_save_state PROVE IInv'
<1> DEFINE src == [i \in 1 .. Length |-> errors[Slot(i)].data]
<1>0. TypeOK /\ OwnInv /\ LiveInv /\ LeakInv /\ LentInv /\ N \in Nat /\ Null \notin Str
  BY ErrAssumption DEF IInv
<1>1. Length \in 0 .. N - 1 /\ \A i \in 1 .. Length : Slot(i) \in 0 .. N - 1
  BY <1>0, SlotRange
<1>2. PICK c \in Copies(src, heap) :
        /\ saved' = [i \in 1 .. Length |-> err_copy(errors[Slot(i)], c[i])]
        /\ heap' = Duplicated(heap, src, c)
  BY DEF ERR_save_state
<1>3. /\ saved = <<>>
      /\ UNCHANGED <<errors, top, bottom, to_free, suppress, lent, ret>>
  BY DEF ERR_save_state
<1>4. DOMAIN src = 1 .. Length /\ \A i \in 1 .. Length : src[i] = errors[Slot(i)].data
  OBVIOUS
<1> HIDE DEF src
<1>5. \A i \in DOMAIN src : src[i] \in Str \cup {Null} /\ (src[i] # Null => heap[src[i]] # NoText)
  BY <1>0, <1>1, <1>4, Types DEF LiveInv
<1>6. heap' \in Heaps /\ Copied(src, heap, c, heap')
      /\ \A i \in DOMAIN src : c[i] \in Str \cup {Null}
  BY <1>0, <1>2, <1>5, Types, CopyForm
<1>7. \A i \in 1 .. Length :
        /\ saved'[i] \in Slots /\ (saved[i].data)' = c[i] /\ (saved[i].mark)' = FALSE
  BY <1>0, <1>1, <1>2, <1>4, <1>6, Types DEF err_copy, Slots
<1>8. DOMAIN saved' = 1 .. Length
  BY <1>2
<1>9. saved' \in Seq(Slots) /\ Len(saved') = Length
  BY <1>1, <1>2, <1>7
<1>10. TypeOK'
  BY <1>0, <1>1, <1>3, <1>6, <1>9 DEF TypeOK, Heaps
<1>11. \A s \in Str : heap[s] # NoText => heap'[s] = heap[s]
  BY <1>0, <1>6 DEF Copied
<1>12. \A i \in 1 .. Length : c[i] # Null => c[i] \in Str /\ heap[c[i]] = NoText /\ heap'[c[i]] # NoText
  BY <1>4, <1>5, <1>6 DEF Copied
<1>13. errors' = errors /\ to_free' = to_free /\ lent' = lent /\ DOMAIN saved = {}
  BY <1>3
<1>14. \A s \in Str : heap[s] # NoText => ~ InSaved(s)'
  BY <1>0, <1>7, <1>8, <1>12 DEF InSaved
<1>15. OwnInv'
  <2>1. \A i, j \in 1 .. Length : (saved[i].data)' = (saved[j].data)' /\ (saved[i].data)' # Null => i = j
    BY <1>4, <1>6, <1>7 DEF Copied
  <2>2. ASSUME NEW i \in 0 .. N - 1, errors[i].data # Null PROVE ~ InSaved((errors[i].data))'
    <3>1. errors[i].data \in Str /\ heap[errors[i].data] # NoText
      BY <2>2, <1>0, Types DEF LiveInv
    <3>2. \A k \in 1 .. Length : c[k] # errors[i].data
      BY <2>2, <3>1, <1>12
    <3> QED
      BY <3>2, <1>7, <1>8, <1>13 DEF InSaved
  <2>3. to_free # Null => ~ InSaved(to_free)' /\ ~ InSlot(to_free)'
    <3>1. to_free # Null => to_free \in Str /\ heap[to_free] # NoText
      BY <1>0 DEF LiveInv, TypeOK
    <3>2. to_free # Null => \A k \in 1 .. Length : c[k] # to_free
      BY <3>1, <1>12
    <3> QED
      BY <3>2, <1>0, <1>7, <1>8, <1>13 DEF InSaved, InSlot, OwnInv
  <2> QED
    BY <1>0, <1>8, <1>13, <2>1, <2>2, <2>3 DEF OwnInv, InSaved, InSlot
<1>16. LiveInv'
  <2>1. \A i \in 0 .. N - 1 : errors[i].data # Null => heap'[errors[i].data] # NoText
    BY <1>0, <1>11, Types DEF LiveInv
  <2>2. \A i \in 1 .. Length : (saved[i].data)' # Null => heap'[(saved[i].data)'] # NoText
    BY <1>7, <1>12
  <2>3. to_free # Null => heap'[to_free] # NoText
    BY <1>0, <1>11 DEF LiveInv, TypeOK
  <2> QED
    BY <1>8, <1>13, <2>1, <2>2, <2>3 DEF LiveInv
<1>17. LeakInv'
  <2> SUFFICES ASSUME NEW y \in Str, heap'[y] # NoText
               PROVE  InSlot(y)' \/ InSaved(y)' \/ to_free' = y
    BY DEF LeakInv
  <2>1. CASE heap[y] # NoText
    BY <2>1, <1>0, <1>13 DEF LeakInv, InSlot, InSaved
  <2>2. CASE heap[y] = NoText
    <3>1. \E i \in 1 .. Length : c[i] = y
      BY <2>2, <1>4, <1>6 DEF Copied
    <3> QED
      BY <3>1, <1>7, <1>8 DEF InSaved
  <2> QED
    BY <2>1, <2>2
<1>18. LentInv' /\ SavedInv'
  BY <1>0, <1>7, <1>8, <1>13 DEF LentInv, SavedInv, InSlot
<1> QED
  BY <1>10, <1>15, <1>16, <1>17, <1>18 DEF IInv

\* ERR_SAVE_STATE_free frees the saved strings and none of the ring's.
LEMMA FreeSavedKeeps == ASSUME IInv, ERR_SAVE_STATE_free PROVE IInv'
<1>0. TypeOK /\ OwnInv /\ LiveInv /\ LeakInv /\ LentInv /\ N \in Nat /\ N > 1
  BY ErrAssumption DEF IInv
<1>1. /\ heap' = FreeAll(heap, DataOf(saved)) /\ saved' = <<>>
      /\ UNCHANGED <<errors, top, bottom, to_free, suppress, lent, ret>>
  BY DEF ERR_SAVE_STATE_free
<1>2. heap' \in Heaps /\ Freed(heap', heap, DataOf(saved))
  BY <1>0, <1>1, FreeAllForm, Types
<1>3. errors' = errors /\ to_free' = to_free /\ lent' = lent /\ DOMAIN saved' = {}
  BY <1>1
<1>4. TypeOK'
  <2>1. saved' \in Seq(Slots) /\ Len(saved') = 0
    BY <1>1
  <2> QED
    BY <1>0, <1>1, <1>2, <2>1 DEF TypeOK, Heaps
<1>5. OwnInv'
  BY <1>0, <1>3 DEF OwnInv, InSlot, InSaved
<1>6. LiveInv'
  <2>1. ASSUME NEW k \in 0 .. N - 1, errors[k].data # Null
        PROVE  heap'[errors[k].data] # NoText
    <3>1. errors[k].data \in Str /\ errors[k].data \notin DataOf(saved)
      BY <2>1, <1>0, Types DEF OwnInv, InSaved, DataOf
    <3> QED
      BY <3>1, <2>1, <1>0, <1>2 DEF LiveInv, Freed
  <2>2. to_free # Null => heap'[to_free] # NoText
    <3>1. to_free # Null => to_free \in Str /\ to_free \notin DataOf(saved)
      BY <1>0 DEF OwnInv, InSaved, DataOf, TypeOK
    <3> QED
      BY <3>1, <1>0, <1>2 DEF LiveInv, Freed
  <2> QED
    BY <1>3, <2>1, <2>2 DEF LiveInv
<1>7. LeakInv'
  <2> SUFFICES ASSUME NEW y \in Str, heap'[y] # NoText PROVE InSlot(y)' \/ to_free' = y
    BY DEF LeakInv
  <2>1. y \notin DataOf(saved) /\ heap[y] # NoText
    BY <1>2 DEF Freed
  <2>2. ~ InSaved(y)
    BY <2>1 DEF InSaved, DataOf
  <2> QED
    BY <2>1, <2>2, <1>0, <1>3 DEF LeakInv, InSlot
<1>8. LentInv' /\ SavedInv'
  BY <1>0, <1>3 DEF LentInv, SavedInv, InSlot
<1> QED
  BY <1>4, <1>5, <1>6, <1>7, <1>8 DEF IInv

\* The copies c of the first n saved strings and what the ring and the heap are
\* with them.
Restores(n, c) ==
  /\ heap' \in Heaps
  /\ \A k \in 0 .. N - 1 :
       errors'[k] = IF k < n THEN err_copy(saved[k + 1], c[k + 1]) ELSE errors[k]
  /\ \A i \in 1 .. n : c[i] # Null =>
       /\ saved[i].data # Null
       /\ heap[c[i]] = NoText \/ \E k \in 0 .. n - 1 : errors[k].data = c[i]
       /\ heap'[c[i]] = heap[saved[i].data]
  /\ \A i, j \in 1 .. n : c[i] = c[j] /\ c[i] # Null => i = j
  /\ \A s \in Str : (\A i \in 1 .. n : c[i] # s) =>
       heap'[s] = IF \E k \in 0 .. n - 1 : errors[k].data = s THEN NoText ELSE heap[s]

\* What ERR_restore_state does with a saved state: the slots below n lose their data
\* and get copies of the saved errors.
LEMMA RestoreForm ==
  ASSUME IInv, ERR_restore_state, saved # <<>>, NEW n, n = Len(saved)
  PROVE  /\ n \in 1 .. N - 1 /\ DOMAIN saved = 1 .. n
         /\ \E c \in [1 .. n -> Str \cup {Null}] : Restores(n, c)
         /\ errors' \in [0 .. N - 1 -> Slots]
         /\ top' = n - 1 /\ bottom' = N - 1 /\ lent' = Null
         /\ UNCHANGED <<to_free, suppress, saved, ret>>
<1> DEFINE src == [i \in DOMAIN saved |-> saved[i].data]
           S == {errors[i - 1].data : i \in DOMAIN saved}
           h == FreeAll(heap, S)
<1>0. TypeOK /\ N \in Nat /\ N > 1 /\ Null \notin Str
  BY ErrAssumption DEF IInv
<1>1. n \in 1 .. N - 1 /\ DOMAIN saved = 1 .. n
  BY <1>0, Types DEF TypeOK
<1>2. PICK c \in Copies(src, h) :
        /\ errors' = [k \in 0 .. N - 1 |->
                        IF k + 1 \in DOMAIN saved
                        THEN err_copy(saved[k + 1], c[k + 1]) ELSE errors[k]]
        /\ heap' = Duplicated(h, src, c)
  BY DEF ERR_restore_state
<1>3. /\ top' = n - 1 /\ bottom' = N - 1 /\ lent' = Null
      /\ UNCHANGED <<to_free, suppress, saved, ret>>
  BY DEF ERR_restore_state
<1>4. DOMAIN src = 1 .. n /\ \A i \in 1 .. n : src[i] = saved[i].data
  BY <1>1
<1>5. h \in Heaps /\ Freed(h, heap, S)
  BY <1>0, FreeAllForm, Types
<1>6. \A s : s \in S <=> \E k \in 0 .. n - 1 : errors[k].data = s
  <2>1. ASSUME NEW s, s \in S PROVE \E k \in 0 .. n - 1 : errors[k].data = s
    <3>1. PICK i \in 1 .. n : errors[i - 1].data = s
      BY <2>1, <1>1
    <3>2. i - 1 \in 0 .. n - 1
      BY <1>1
    <3> QED
      BY <3>1, <3>2
  <2>2. ASSUME NEW s, NEW k \in 0 .. n - 1, errors[k].data = s PROVE s \in S
    <3>1. k + 1 \in 1 .. n /\ (k + 1) - 1 = k
      BY <1>1
    <3> QED
      BY <3>1, <2>2, <1>1
  <2> QED
    BY <2>1, <2>2
<1> HIDE DEF src, S, h
<1>7. \A i \in DOMAIN src : src[i] \in Str \cup {Null}
  BY <1>0, <1>1, <1>4, Types
<1>8. heap' \in Heaps /\ Copied(src, h, c, heap') /\ \A i \in 1 .. n : c[i] \in Str \cup {Null}
  BY <1>0, <1>2, <1>4, <1>5, <1>7, Types, CopyForm
<1>9. c \in [1 .. n -> Str \cup {Null}]
  BY <1>2, <1>4, <1>8 DEF Copies
<1>10. \A k \in 0 .. N - 1 : errors'[k] = IF k < n THEN err_copy(saved[k + 1], c[k + 1]) ELSE errors[k]
  BY <1>1, <1>2
<1>11. \A i \in 1 .. n : c[i] # Null =>
         /\ saved[i].data # Null
         /\ heap[c[i]] = NoText \/ \E k \in 0 .. n - 1 : errors[k].data = c[i]
         /\ heap'[c[i]] = heap[saved[i].data]
  <2> SUFFICES ASSUME NEW i \in 1 .. n, c[i] # Null
               PROVE  /\ saved[i].data # Null
                      /\ heap[c[i]] = NoText \/ c[i] \in S
                      /\ heap'[c[i]] = heap[saved[i].data]
    BY <1>6
  <2>1. c[i] \in Str /\ h[c[i]] = NoText /\ src[i] # Null /\ heap'[c[i]] = heap[src[i]]
    BY <1>4, <1>8 DEF Copied
  <2> QED
    BY <2>1, <1>4, <1>5 DEF Freed
<1>12. \A i, j \in 1 .. n : c[i] = c[j] /\ c[i] # Null => i = j
  BY <1>4, <1>8 DEF Copied
<1>13. \A s \in Str : (\A i \in 1 .. n : c[i] # s) =>
         heap'[s] = IF \E k \in 0 .. n - 1 : errors[k].data = s THEN NoText ELSE heap[s]
  <2> SUFFICES ASSUME NEW s \in Str, \A i \in 1 .. n : c[i] # s
               PROVE  heap'[s] = IF s \in S THEN NoText ELSE heap[s]
    BY <1>6
  <2>1. heap'[s] = h[s]
    BY <1>4, <1>8 DEF Copied
  <2> QED
    BY <2>1, <1>5 DEF Freed
<1>14. errors' \in [0 .. N - 1 -> Slots]
  <2>1. ASSUME NEW k \in 0 .. N - 1 PROVE errors'[k] \in Slots
    <3>1. CASE k < n
      <4>1. k + 1 \in 1 .. n
        BY <3>1, <1>1
      <4>2. saved[k + 1].packed \in Err \cup {0} /\ c[k + 1] \in Str \cup {Null}
        BY <4>1, <1>0, <1>1, <1>8, Types
      <4>3. err_copy(saved[k + 1], c[k + 1]) \in Slots
        BY <4>2 DEF err_copy, Slots
      <4> QED
        BY <3>1, <4>3, <1>10
    <3>2. CASE ~ (k < n)
      BY <3>2, <1>0, <1>10, Types
    <3> QED
      BY <3>1, <3>2
  <2> QED
    BY <2>1, <1>2
<1> QED
  <2>1. Restores(n, c)
    <3>1. heap' \in Heaps
      BY <1>8
    <3> QED
      BY <3>1, <1>10, <1>11, <1>12, <1>13 DEF Restores
  <2> QED
    BY <1>1, <1>3, <1>9, <1>14, <2>1

\* ERR_restore_state overwrites the first slots with copies of the saved errors,
\* which keep their own strings; the data of those slots is freed first.
LEMMA RestoreKeeps == ASSUME IInv, ERR_restore_state PROVE IInv'
<1>0. TypeOK /\ OwnInv /\ LiveInv /\ LeakInv /\ SavedInv /\ N \in Nat /\ N > 1 /\ Null \notin Str
  BY ErrAssumption DEF IInv
<1>1. CASE saved = <<>>
  <2>1. ClearQueue /\ saved' = saved /\ ret' = ret /\ suppress' \in 0 .. MaxDepth
    BY <1>0, <1>1 DEF ERR_restore_state, TypeOK
  <2> QED
    BY <2>1, ClearKeeps
<1>2. CASE saved # <<>>
  <2>1. PICK n : n = Len(saved)
    OBVIOUS
  <2>2. /\ n \in 1 .. N - 1 /\ DOMAIN saved = 1 .. n
        /\ errors' \in [0 .. N - 1 -> Slots]
        /\ top' = n - 1 /\ bottom' = N - 1 /\ lent' = Null
        /\ UNCHANGED <<to_free, suppress, saved, ret>>
    BY <1>2, <2>1, RestoreForm
  <2>c. PICK c \in [1 .. n -> Str \cup {Null}] : Restores(n, c)
    BY <1>2, <2>1, RestoreForm
  <2>3. /\ heap' \in Heaps
        /\ \A k \in 0 .. N - 1 :
             errors'[k] = IF k < n THEN err_copy(saved[k + 1], c[k + 1]) ELSE errors[k]
        /\ \A i \in 1 .. n : c[i] # Null =>
             /\ saved[i].data # Null
             /\ heap[c[i]] = NoText \/ \E k \in 0 .. n - 1 : errors[k].data = c[i]
             /\ heap'[c[i]] = heap[saved[i].data]
        /\ \A i, j \in 1 .. n : c[i] = c[j] /\ c[i] # Null => i = j
        /\ \A s \in Str : (\A i \in 1 .. n : c[i] # s) =>
             heap'[s] = IF \E k \in 0 .. n - 1 : errors[k].data = s THEN NoText ELSE heap[s]
    BY <2>c DEF Restores
  <2>4. TypeOK'
    BY <1>0, <2>2, <2>3 DEF TypeOK, Heaps
  <2>5. saved' = saved /\ to_free' = to_free /\ lent' = Null
    BY <2>2
  <2>6. \A k \in 0 .. N - 1 : (errors[k].data)' = IF k < n THEN c[k + 1] ELSE errors[k].data
    <3>1. \A e, d : err_copy(e, d).data = d
      BY DEF err_copy
    <3>2. ASSUME NEW k \in 0 .. N - 1
          PROVE  (errors[k].data)' = IF k < n THEN c[k + 1] ELSE errors[k].data
      <4>1. errors'[k] = IF k < n THEN err_copy(saved[k + 1], c[k + 1]) ELSE errors[k]
        BY <2>3
      <4> QED
        BY <4>1, <3>1
    <3> QED
      BY <3>2
  <2>7. \A i \in 1 .. n : c[i] # Null =>
          /\ c[i] \in Str /\ heap'[c[i]] # NoText
          /\ ~ InSaved(c[i]) /\ c[i] # to_free
          /\ \A k \in n .. N - 1 : errors[k].data # c[i]
    <3> SUFFICES ASSUME NEW i \in 1 .. n, c[i] # Null
                 PROVE  /\ c[i] \in Str /\ heap'[c[i]] # NoText
                        /\ ~ InSaved(c[i]) /\ c[i] # to_free
                        /\ \A k \in n .. N - 1 : errors[k].data # c[i]
      OBVIOUS
    <3>1. c[i] \in Str /\ heap'[c[i]] # NoText
      <4>1. /\ c[i] \in Str \cup {Null} /\ i \in DOMAIN saved /\ saved[i].data # Null
            /\ heap'[c[i]] = heap[saved[i].data]
        BY <2>2, <2>3
      <4>2. heap[saved[i].data] # NoText
        BY <4>1, <1>0 DEF LiveInv
      <4> QED
        BY <4>1, <4>2
    <3>2. CASE heap[c[i]] = NoText
      <4>1. ~ InSaved(c[i]) /\ c[i] # to_free /\ ~ InSlot(c[i])
        BY <3>1, <3>2, <1>0 DEF LiveInv, InSaved, InSlot
      <4>2. \A k \in n .. N - 1 : k \in 0 .. N - 1
        BY <2>2
      <4> QED
        BY <3>1, <4>1, <4>2 DEF InSlot
    <3>3. CASE heap[c[i]] # NoText
      <4>1. PICK k \in 0 .. n - 1 : errors[k].data = c[i]
        BY <2>3, <3>3
      <4>2. k \in 0 .. N - 1 /\ \A m \in n .. N - 1 : m \in 0 .. N - 1 /\ m # k
        BY <2>2
      <4>3. \A m \in n .. N - 1 : errors[m].data # c[i]
        BY <4>1, <4>2, <1>0 DEF OwnInv
      <4>4. ~ InSaved(c[i]) /\ c[i] # to_free
        BY <4>1, <4>2, <1>0 DEF OwnInv, InSaved, InSlot
      <4> QED
        BY <3>1, <4>3, <4>4
    <3> QED
      BY <3>2, <3>3
  <2>8. \A k \in 0 .. N - 1 : k < n => k + 1 \in 1 .. n
    BY <2>2
  <2>9. \A k \in 0 .. N - 1 : ~ (k < n) => k \in n .. N - 1
    BY <2>2
  <2>10. OwnInv'
    <3>1. ASSUME NEW i \in 0 .. N - 1, NEW j \in 0 .. N - 1,
                 (errors[i].data)' = (errors[j].data)', (errors[i].data)' # Null
          PROVE  i = j
      <4>1. CASE i < n /\ j < n
        <5>1. c[i + 1] = c[j + 1] /\ c[i + 1] # Null /\ i + 1 \in 1 .. n /\ j + 1 \in 1 .. n
          BY <4>1, <3>1, <2>6, <2>8
        <5>2. i + 1 = j + 1
          BY <5>1, <2>3
        <5> QED
          BY <5>2
      <4>2. CASE i < n /\ ~ (j < n)
        BY <4>2, <3>1, <2>6, <2>7, <2>8, <2>9
      <4>3. CASE ~ (i < n) /\ j < n
        BY <4>3, <3>1, <2>6, <2>7, <2>8, <2>9
      <4>4. CASE ~ (i < n) /\ ~ (j < n)
        BY <4>4, <3>1, <2>6, <1>0 DEF OwnInv
      <4> QED
        BY <4>1, <4>2, <4>3, <4>4
    <3>2. ASSUME NEW i \in 0 .. N - 1, (errors[i].data)' # Null
          PROVE  \A k \in DOMAIN saved : saved[k].data # (errors[i].data)'
      BY <3>2, <2>6, <2>7, <2>8, <1>0 DEF OwnInv, InSaved
    <3>3. \A i \in 0 .. N - 1 : (errors[i].data)' # Null => ~ InSaved((errors[i].data))'
      BY <3>2, <2>5 DEF InSaved
    <3>4. to_free # Null => ~ InSlot(to_free)' /\ ~ InSaved(to_free)'
      <4>1. to_free # Null => \A k \in 0 .. N - 1 : (errors[k].data)' # to_free
        BY <2>6, <2>7, <2>8, <1>0 DEF OwnInv, InSlot
      <4> QED
        BY <4>1, <2>5, <1>0 DEF OwnInv, InSlot, InSaved
    <3> QED
      BY <1>0, <2>5, <3>1, <3>3, <3>4 DEF OwnInv, InSaved, InSlot
  <2>11. LiveInv'
    <3>1. ASSUME NEW k \in 0 .. N - 1, (errors[k].data)' # Null
          PROVE  heap'[(errors[k].data)'] # NoText
      <4>1. CASE k < n
        BY <4>1, <3>1, <2>6, <2>7, <2>8
      <4>2. CASE ~ (k < n)
        <5>1. (errors[k].data)' = errors[k].data /\ errors[k].data \in Str
          BY <4>2, <3>1, <2>6, <1>0, Types
        <5>2. \A i \in 1 .. n : c[i] # errors[k].data
          BY <4>2, <5>1, <3>1, <2>7, <2>9
        <5>3. \A m \in 0 .. n - 1 : m \in 0 .. N - 1 /\ m # k
          BY <2>2, <4>2
        <5>4. ~ \E m \in 0 .. n - 1 : errors[m].data = errors[k].data
          BY <5>1, <5>3, <3>1, <1>0 DEF OwnInv
        <5>5. heap'[errors[k].data] = heap[errors[k].data]
          BY <5>1, <5>2, <5>4, <2>3
        <5> QED
          BY <5>1, <5>5, <3>1, <1>0 DEF LiveInv
      <4> QED
        BY <4>1, <4>2
    <3>2. \A m \in 0 .. n - 1 : m \in 0 .. N - 1
      BY <2>2
    <3>3. ASSUME NEW k \in DOMAIN saved, saved[k].data # Null
          PROVE  heap'[saved[k].data] # NoText
      <4>1. saved[k].data \in Str /\ \A i \in 1 .. n : c[i] # saved[k].data
        BY <3>3, <2>7, <1>0, Types DEF InSaved
      <4>2. ~ \E m \in 0 .. n - 1 : errors[m].data = saved[k].data
        BY <3>2, <3>3, <1>0 DEF OwnInv, InSaved
      <4> QED
        BY <4>1, <4>2, <3>3, <2>3, <1>0 DEF LiveInv
    <3>4. ASSUME to_free # Null PROVE heap'[to_free] # NoText
      <4>1. to_free \in Str /\ \A i \in 1 .. n : c[i] # to_free
        BY <3>4, <2>7, <1>0 DEF TypeOK
      <4>2. ~ \E m \in 0 .. n - 1 : errors[m].data = to_free
        BY <3>2, <3>4, <1>0 DEF OwnInv, InSlot
      <4> QED
        BY <4>1, <4>2, <3>4, <2>3, <1>0 DEF LiveInv
    <3> QED
      BY <2>5, <3>1, <3>3, <3>4 DEF LiveInv
  <2>12. LeakInv'
    <3> SUFFICES ASSUME NEW y \in Str, heap'[y] # NoText
                 PROVE  InSlot(y)' \/ InSaved(y)' \/ to_free' = y
      BY DEF LeakInv
    <3>1. CASE \E i \in 1 .. n : c[i] = y
      <4>1. PICK i \in 1 .. n : c[i] = y
        BY <3>1
      <4>2. i - 1 \in 0 .. N - 1 /\ i - 1 < n /\ (i - 1) + 1 = i
        BY <2>2
      <4>3. (errors[i - 1].data)' = c[i]
        BY <4>2, <2>6
      <4> QED
        BY <4>1, <4>2, <4>3 DEF InSlot
    <3>2. CASE \A i \in 1 .. n : c[i] # y
      <4>1. heap[y] # NoText /\ ~ \E k \in 0 .. n - 1 : errors[k].data = y
        BY <3>2, <2>3
      <4>2. \A k \in 0 .. N - 1 : k < n => k \in 0 .. n - 1
        BY <2>2
      <4>3. InSlot(y) => InSlot(y)'
        BY <4>1, <4>2, <2>6 DEF InSlot
      <4> QED
        BY <4>1, <4>3, <2>5, <1>0 DEF LeakInv, InSaved
    <3> QED
      BY <3>1, <3>2
  <2>13. LentInv' /\ SavedInv'
    BY <1>0, <2>5 DEF LentInv, SavedInv
  <2> QED
    BY <2>4, <2>10, <2>11, <2>12, <2>13 DEF IInv
<1> QED
  BY <1>1, <1>2

-------------------------------------------------------------------------------
(* The theorems.                                                           *)

\* Every call keeps the invariant.
LEMMA NextKeeps == IInv /\ [Next]_vars => IInv'
<1> SUFFICES ASSUME IInv, [Next]_vars PROVE IInv'
  OBVIOUS
<1>1. CASE UNCHANGED vars
  BY <1>1 DEF vars, IInv, TypeOK, OwnInv, LiveInv, LeakInv, LentInv, SavedInv, InSlot, InSaved
<1>2. CASE ERR_clear_error \/ err_state_free
  <2>1. ClearQueue /\ saved' = saved /\ ret' = ret /\ suppress' \in 0 .. MaxDepth
    BY <1>2, ErrAssumption DEF ERR_clear_error, err_state_free, IInv, TypeOK
  <2> QED
    BY <2>1, ClearKeeps
<1>3. CASE Next
  BY <1>2, <1>3, PutKeeps, SetDataKeeps, GetKeeps, PeekKeeps, GetNothingKeeps, SetMarkKeeps,
     PopToMarkKeeps, SaveKeeps, FreeSavedKeeps, RestoreKeeps, SuppressKeeps
  DEF Next
<1> QED
  BY <1>1, <1>3

\* The invariant that gives every string one owner, which has not been freed, and
\* keeps what the caller was handed out of the saved state, holds after any calls.
THEOREM Inductive == Spec => []IInv
<1>1. IInv /\ [Next]_vars => IInv'
  BY NextKeeps
<1> QED
  BY <1>1, InitIInv, PTL DEF Spec

\* Through eviction, restore, pop and thread exit every string has exactly one owner
\* until it is freed, and the indices stay in the ring.
THEOREM EachStringOwnedOnce == Spec => []OneOwner
<1>1. IInv => OneOwner
  BY OneHolder DEF IInv
<1> QED
  BY <1>1, Inductive, PTL

\* The data pointer the caller has is valid until the next call that affects the
\* queue.
THEOREM LentDataValid == Spec => []LentValid
<1>1. ASSUME IInv PROVE LentValid
  <2>1. LentInv /\ LiveInv
    BY <1>1 DEF IInv
  <2> QED
    BY <2>1 DEF LentInv, LiveInv, LentValid, InSlot
<1> QED
  BY <1>1, Inductive, PTL

-------------------------------------------------------------------------------
(* The ring as ErrLog sees it.                                             *)

\* An error, with the text its data points to in the heap h.
View(e, h) == [packed |-> e.packed, mark |-> e.mark,
               text |-> IF e.data = Null THEN NoText ELSE h[e.data]]
Views == [packed : Err \cup {0}, mark : BOOLEAN, text : Text \cup {NoText}]
LogView(E, b, t, h) == [i \in 1 .. Dist(b, t) |-> View(E[At(b, i)], h)]
Rings == [0 .. N - 1 -> Slots]
SavedView(S, h) == [i \in DOMAIN S |-> View(S[i], h)]

\* What a reader sees of a slot is an entry of the log.
LEMMA ViewType ==
  ASSUME NEW e \in Slots, NEW h \in Heaps
  PROVE  View(e, h) \in Views
BY ErrAssumption DEF View, Views, Slots, Heaps

\* L lists the errors of the ring E from position 1 on.
Lists(L, E, b, t, h) ==
  /\ Dist(b, t) \in 0 .. N - 1
  /\ L \in Seq(Views) /\ Len(L) = Dist(b, t)
  /\ \A i \in 1 .. Dist(b, t) : At(b, i) \in 0 .. N - 1 /\ L[i] = View(E[At(b, i)], h)

\* LogView lists the errors of the ring from the oldest to the newest.
LEMMA LogViewForm ==
  ASSUME NEW E \in Rings, NEW h \in Heaps,
         NEW b \in 0 .. N - 1, NEW t \in 0 .. N - 1, NEW L, L = LogView(E, b, t, h)
  PROVE  Lists(L, E, b, t, h)
<1>0. N \in Nat /\ N > 1
  BY ErrAssumption
<1>1. Dist(b, t) \in 0 .. N - 1 /\ \A i \in 0 .. N - 1 : At(b, i) \in 0 .. N - 1
  BY Positions
<1>2. \A i \in 1 .. Dist(b, t) : At(b, i) \in 0 .. N - 1
  BY <1>0, <1>1
<1> DEFINE n == Dist(b, t)
<1>3. L = [i \in 1 .. n |-> View(E[At(b, i)], h)] /\ n \in Nat
  BY <1>0, <1>1 DEF LogView
<1>4. \A i \in 1 .. n : View(E[At(b, i)], h) \in Views
  BY <1>2, ViewType DEF Rings
<1> HIDE DEF n
<1>5. L \in Seq(Views) /\ Len(L) = n /\ DOMAIN L = 1 .. n
  BY <1>3, <1>4
<1>6. \A i \in 1 .. n : L[i] = View(E[At(b, i)], h)
  BY <1>3
<1> QED
  BY <1>1, <1>2, <1>5, <1>6 DEF n, Lists

\* LogOf and SavedOf, before and after a step.
LEMMA LogNow == ASSUME TypeOK PROVE LogOf = LogView(errors, bottom, top, heap)
<1>0. top \in 0 .. N - 1 /\ bottom \in 0 .. N - 1 /\ N \in Nat /\ N > 1
  BY ErrAssumption DEF TypeOK
<1>1. Length = Dist(bottom, top) /\ \A i \in 0 .. N - 1 : Slot(i) = At(bottom, i)
  BY <1>0, Ring DEF Length, Slot
<1>2. Dist(bottom, top) \in 0 .. N - 1
  BY <1>0, Positions
<1>3. \A i \in 1 .. Length : Slot(i) = At(bottom, i)
  BY <1>0, <1>1, <1>2
<1> HIDE DEF Length, Slot
<1> QED
  BY <1>1, <1>3 DEF LogOf, LogView, View

\* The log after a step, by the ring after it.
LEMMA LogThen == ASSUME TypeOK' PROVE LogOf' = LogView(errors', bottom', top', heap')
<1>0. top' \in 0 .. N - 1 /\ bottom' \in 0 .. N - 1 /\ N \in Nat /\ N > 1
  BY ErrAssumption DEF TypeOK
<1>1. Length' = Dist(bottom', top') /\ \A i \in 0 .. N - 1 : Slot(i)' = At(bottom', i)
  BY <1>0, Ring DEF Length, Slot
<1>2. Dist(bottom', top') \in 0 .. N - 1
  BY <1>0, Positions
<1>3. \A i \in 1 .. Length' : Slot(i)' = At(bottom', i)
  BY <1>0, <1>1, <1>2
<1> QED
  BY <1>1, <1>3 DEF LogOf, LogView, View

\* The saved log before and after a step, by the saved errors and the heap.
LEMMA SavedNow ==
  SavedOf = SavedView(saved, heap) /\ SavedOf' = SavedView(saved', heap')
BY DEF SavedOf, SavedView, View

\* Errors whose text is not touched look the same.
LEMMA SameSaved ==
  ASSUME saved' = saved,
         \A i \in DOMAIN saved : saved[i].data # Null => heap'[saved[i].data] = heap[saved[i].data]
  PROVE  SavedOf' = SavedOf
<1>1. \A i \in DOMAIN saved : View(saved[i], heap') = View(saved[i], heap)
  BY DEF View
<1> QED
  BY <1>1, SavedNow DEF SavedView

\* The log before and after a step, error by error.
LEMMA BothLogs ==
  ASSUME TypeOK, TypeOK', NEW L, L = LogOf, NEW M, M = LogOf'
  PROVE  /\ Dist(bottom, top) \in 0 .. N - 1 /\ Dist(bottom', top') \in 0 .. N - 1
         /\ L \in Seq(Views) /\ Len(L) = Dist(bottom, top)
         /\ \A i \in 1 .. Dist(bottom, top) :
              At(bottom, i) \in 0 .. N - 1 /\ L[i] = View(errors[At(bottom, i)], heap)
         /\ M \in Seq(Views) /\ Len(M) = Dist(bottom', top')
         /\ \A i \in 1 .. Dist(bottom', top') :
              At(bottom', i) \in 0 .. N - 1 /\ M[i] = View(errors'[At(bottom', i)], heap')
<1>1. errors \in Rings /\ heap \in Heaps /\ bottom \in 0 .. N - 1 /\ top \in 0 .. N - 1
  BY DEF TypeOK, Heaps, Rings
<1>2. errors' \in Rings /\ heap' \in Heaps /\ bottom' \in 0 .. N - 1 /\ top' \in 0 .. N - 1
  BY DEF TypeOK, Heaps, Rings
<1>3. L = LogView(errors, bottom, top, heap)
  BY LogNow
<1>4. M = LogView(errors', bottom', top', heap')
  BY LogThen
<1>5. Lists(L, errors, bottom, top, heap)
  BY <1>1, <1>3, LogViewForm
<1>6. Lists(M, errors', bottom', top', heap')
  BY <1>2, <1>4, LogViewForm
<1> QED
  BY <1>5, <1>6 DEF Lists

\* Where the positions are after an error went into slot t, the one after the last
\* of n: it is the next position, or takes the place of the first.
Grows(b, t, n) ==
  /\ n + 1 <= N - 1 /\ Dist(b, t) = n + 1 /\ At(b, n + 1) = t
  /\ \A i \in 1 .. n : At(b, i) # t
Evicts(b, t, n) ==
  /\ n = N - 1 /\ Next1(b) \in 0 .. N - 1 /\ Dist(Next1(b), t) = N - 1
  /\ At(Next1(b), N - 1) = t
  /\ \A i \in 1 .. N - 2 : At(Next1(b), i) = At(b, i + 1) /\ At(b, i + 1) # t

\* Where the positions of the queue are after one more error: the queue grows,
\* or it was full and its oldest error is evicted.
LEMMA PutPositions ==
  ASSUME NEW b \in 0 .. N - 1, NEW u \in 0 .. N - 1, NEW t, t = Next1(u),
         NEW n, n = Dist(b, u)
  PROVE  /\ n \in 0 .. N - 1 /\ t \in 0 .. N - 1
         /\ t # b => Grows(b, t, n)
         /\ t = b => Evicts(b, t, n)
<1>0. N \in Nat /\ N > 1
  BY ErrAssumption
<1>1. t = IF u = N - 1 THEN 0 ELSE u + 1
  BY NextSlot
<1>2. Next1(b) = IF b = N - 1 THEN 0 ELSE b + 1
  BY NextSlot
<1>3. n \in 0 .. N - 1 /\ t \in 0 .. N - 1 /\ Next1(b) \in 0 .. N - 1
  BY <1>0, <1>1, <1>2 DEF Dist
<1>4. ASSUME t # b
      PROVE  /\ n + 1 <= N - 1 /\ Dist(b, t) = n + 1 /\ At(b, n + 1) = t
             /\ \A i \in 1 .. n : At(b, i) # t
  BY <1>0, <1>1, <1>4 DEF Dist, At
<1>5. ASSUME t = b
      PROVE  /\ n = N - 1 /\ Dist(Next1(b), t) = N - 1 /\ At(Next1(b), N - 1) = t
             /\ \A i \in 1 .. N - 2 : At(Next1(b), i) = At(b, i + 1) /\ At(b, i + 1) # t
  BY <1>0, <1>1, <1>2, <1>5 DEF Dist, At
<1> QED
  BY <1>3, <1>4, <1>5 DEF Grows, Evicts

\* ERR_put_error appends to the log and forgets the oldest entry of a full one.
LEMMA PutLogs == ASSUME IInv, NEW e \in Err, ERR_put_error(e) PROVE Log!Put(e)
<1> DEFINE t == Next1(top)
           n == Dist(bottom, top)
           new == [packed |-> e, text |-> NoText, mark |-> FALSE]
<1>0. TypeOK /\ TypeOK' /\ OwnInv /\ N \in Nat /\ N > 1 /\ Null \notin Str
  BY PutKeeps, ErrAssumption DEF IInv
<1>1. PICK L : L = LogOf
  OBVIOUS
<1>2. PICK M : M = LogOf'
  OBVIOUS
<1>3. /\ top' = t /\ bottom' = BottomAfter(t) /\ heap' = Free(heap, errors[t].data)
      /\ errors' = [errors EXCEPT ![t] = [Blank EXCEPT !.packed = e]]
      /\ suppress = 0 /\ suppress' = suppress /\ saved' = saved /\ ret' = ret
  BY DEF ERR_put_error
<1>4. /\ n \in 0 .. N - 1 /\ t \in 0 .. N - 1
      /\ t # bottom => /\ n + 1 <= N - 1 /\ Dist(bottom, t) = n + 1 /\ At(bottom, n + 1) = t
                       /\ \A i \in 1 .. n : At(bottom, i) # t
      /\ t = bottom => /\ n = N - 1 /\ Next1(bottom) \in 0 .. N - 1
                       /\ Dist(Next1(bottom), t) = N - 1
                       /\ At(Next1(bottom), N - 1) = t
                       /\ \A i \in 1 .. N - 2 : /\ At(Next1(bottom), i) = At(bottom, i + 1)
                                                /\ At(bottom, i + 1) # t
  <2>1. t = Next1(top) /\ n = Dist(bottom, top)
    OBVIOUS
  <2> HIDE DEF t, n
  <2>2. bottom \in 0 .. N - 1 /\ top \in 0 .. N - 1
    BY <1>0 DEF TypeOK
  <2>3. n \in 0 .. N - 1 /\ t \in 0 .. N - 1 /\ (t # bottom => Grows(bottom, t, n))
        /\ (t = bottom => Evicts(bottom, t, n))
    BY <2>1, <2>2, PutPositions
  <2> QED
    BY <2>3 DEF Grows, Evicts
<1> HIDE DEF t, n
<1>5. Freed(heap', heap, {errors[t].data})
  BY <1>0, <1>3, <1>4, FreeForm, Types
<1>6. \A k \in 0 .. N - 1 : k # t =>
        errors'[k] = errors[k] /\ View(errors'[k], heap') = View(errors[k], heap)
  <2> SUFFICES ASSUME NEW k \in 0 .. N - 1, k # t
               PROVE  errors'[k] = errors[k] /\ View(errors'[k], heap') = View(errors[k], heap)
    OBVIOUS
  <2>1. errors'[k] = errors[k]
    BY <1>0, <1>3, <1>4, Types
  <2>2. errors[k].data # Null => errors[k].data \in Str /\ errors[k].data # errors[t].data
    BY <1>0, <1>4, Types DEF OwnInv
  <2>3. errors[k].data # Null => heap'[errors[k].data] = heap[errors[k].data]
    BY <2>2, <1>5 DEF Freed
  <2> QED
    BY <2>1, <2>3 DEF View
<1>7. View(errors'[t], heap') = new
  <2>1. errors'[t] = [packed |-> e, data |-> Null, mark |-> FALSE]
    BY <1>0, <1>3, <1>4, Types DEF Blank
  <2> QED
    BY <2>1 DEF View
<1>8. /\ L \in Seq(Views) /\ Len(L) = n
      /\ \A i \in 1 .. n : At(bottom, i) \in 0 .. N - 1 /\ L[i] = View(errors[At(bottom, i)], heap)
      /\ M \in Seq(Views) /\ Len(M) = Dist(bottom', t)
      /\ \A i \in 1 .. Dist(bottom', t) :
           At(bottom', i) \in 0 .. N - 1 /\ M[i] = View(errors'[At(bottom', i)], heap')
  BY <1>0, <1>1, <1>2, <1>3, BothLogs DEF n
<1>9. new \in Views
  BY DEF Views
<1>10. /\ Append(L, new) \in Seq(Views) /\ Len(Append(L, new)) = n + 1
       /\ \A i \in 1 .. n : Append(L, new)[i] = L[i]
       /\ Append(L, new)[n + 1] = new
  BY <1>8, <1>9
<1>11. M = Log!LastN(Append(L, new), N - 1)
  <2>1. CASE t # bottom
    <3>1. bottom' = bottom /\ Len(M) = n + 1
      BY <2>1, <1>3, <1>4, <1>8 DEF BottomAfter
    <3>2. \A i \in 1 .. n : M[i] = L[i]
      <4> SUFFICES ASSUME NEW i \in 1 .. n PROVE M[i] = L[i]
        OBVIOUS
      <4>1. At(bottom, i) # t /\ At(bottom, i) \in 0 .. N - 1
            /\ L[i] = View(errors[At(bottom, i)], heap)
        BY <2>1, <1>4, <1>8
      <4>2. i \in 1 .. Dist(bottom', t)
        BY <2>1, <3>1, <1>4
      <4>3. M[i] = View(errors'[At(bottom, i)], heap')
        BY <4>2, <3>1, <1>8
      <4> QED
        BY <4>1, <4>3, <1>6
    <3>3. M[n + 1] = new
      <4>1. n + 1 \in 1 .. Dist(bottom', t) /\ At(bottom', n + 1) = t
        BY <2>1, <3>1, <1>4
      <4> QED
        BY <4>1, <1>7, <1>8
    <3>4. M = Append(L, new)
      BY <3>1, <3>2, <3>3, <1>4, <1>8, <1>10, SeqEqual
    <3> QED
      BY <2>1, <3>4, <1>4, <1>10 DEF Log!LastN
  <2>2. CASE t = bottom
    <3> DEFINE b == Next1(bottom)
               A == Append(L, new)
    <3>1. bottom' = b /\ Len(M) = N - 1 /\ n = N - 1
      BY <2>2, <1>3, <1>4, <1>8 DEF BottomAfter
    <3> HIDE DEF b
    <3>2. \A i \in 1 .. N - 2 : M[i] = L[i + 1]
      <4> SUFFICES ASSUME NEW i \in 1 .. N - 2 PROVE M[i] = L[i + 1]
        OBVIOUS
      <4>1. i \in 1 .. Dist(bottom', t) /\ i + 1 \in 1 .. n
        BY <2>2, <3>1, <1>0, <1>4, <1>8
      <4>2. At(bottom', i) = At(bottom, i + 1) /\ At(bottom, i + 1) # t
        BY <2>2, <3>1, <1>4 DEF b
      <4>3. M[i] = View(errors'[At(bottom, i + 1)], heap') /\ At(bottom, i + 1) \in 0 .. N - 1
        BY <4>1, <4>2, <1>8
      <4>4. L[i + 1] = View(errors[At(bottom, i + 1)], heap)
        BY <4>1, <1>8
      <4> QED
        BY <4>2, <4>3, <4>4, <1>6
    <3>3. M[N - 1] = new
      <4>1. N - 1 \in 1 .. Dist(bottom', t) /\ At(bottom', N - 1) = t
        BY <2>2, <3>1, <1>0, <1>4, <1>8 DEF b
      <4> QED
        BY <4>1, <1>7, <1>8
    <3>4. A \in Seq(Views) /\ Len(A) = N /\ A[N] = new /\ \A i \in 1 .. N - 1 : A[i] = L[i]
      BY <3>1, <1>0, <1>10
    <3> HIDE DEF A
    <3>5. Log!LastN(A, N - 1) = SubSeq(A, 2, N)
      BY <3>4, <1>0 DEF Log!LastN
    <3>6. /\ SubSeq(A, 2, N) \in Seq(Views) /\ Len(SubSeq(A, 2, N)) = N - 1
          /\ \A i \in 1 .. N - 1 : SubSeq(A, 2, N)[i] = A[i + 1]
      BY <3>4, <1>0
    <3>7. \A i \in 1 .. N - 1 : M[i] = A[i + 1]
      <4> SUFFICES ASSUME NEW i \in 1 .. N - 1 PROVE M[i] = A[i + 1]
        OBVIOUS
      <4>1. CASE i = N - 1
        BY <4>1, <3>3, <3>4, <1>0
      <4>2. CASE i # N - 1
        <5>1. i \in 1 .. N - 2 /\ i + 1 \in 1 .. N - 1
          BY <4>2, <1>0
        <5> QED
          BY <5>1, <3>2, <3>4
      <4> QED
        BY <4>1, <4>2
    <3>8. M = SubSeq(A, 2, N)
      BY <3>1, <3>6, <3>7, <1>8, SeqEqual
    <3> QED
      BY <3>5, <3>8 DEF A
  <2> QED
    BY <2>1, <2>2
<1>12. SavedOf' = SavedOf
  <2>1. \A i \in DOMAIN saved : saved[i].data # Null =>
          saved[i].data \in Str /\ saved[i].data # errors[t].data
    BY <1>0, <1>4, Types DEF OwnInv, InSaved
  <2> QED
    BY <2>1, <1>3, <1>5, SameSaved DEF Freed
<1> QED
  BY <1>1, <1>2, <1>3, <1>11, <1>12 DEF Log!Put

\* A step that leaves the ring and its texts alone.
LEMMA SameLog ==
  ASSUME TypeOK, TypeOK', errors' = errors, top' = top, bottom' = bottom,
         \A k \in 0 .. N - 1 : errors[k].data # Null => heap'[errors[k].data] = heap[errors[k].data]
  PROVE  LogOf' = LogOf
<1>1. PICK L : L = LogOf
  OBVIOUS
<1>2. PICK M : M = LogOf'
  OBVIOUS
<1>3. \A k \in 0 .. N - 1 : View(errors[k], heap') = View(errors[k], heap)
  BY DEF View
<1>4. /\ L \in Seq(Views) /\ Len(L) = Dist(bottom, top)
      /\ \A i \in 1 .. Dist(bottom, top) :
           At(bottom, i) \in 0 .. N - 1 /\ L[i] = View(errors[At(bottom, i)], heap)
      /\ M \in Seq(Views) /\ Len(M) = Dist(bottom, top)
      /\ \A i \in 1 .. Dist(bottom, top) : M[i] = View(errors[At(bottom, i)], heap')
  BY <1>1, <1>2, BothLogs
<1>5. \A i \in 1 .. Len(L) : L[i] = M[i]
  BY <1>3, <1>4
<1>6. L = M
  BY <1>4, <1>5, SeqEqual
<1> QED
  BY <1>1, <1>2, <1>6

\* Where the last position is, and that a queue with errors has one.
LEMMA LastPosition ==
  ASSUME TypeOK, NEW n, n = Dist(bottom, top)
  PROVE  /\ n \in 0 .. N - 1 /\ Length = n /\ At(bottom, n) = top
         /\ (Empty <=> n = 0) /\ (n # 0 => At(bottom, 1) = Next1(bottom))
         /\ \A i \in 1 .. n : i # n => At(bottom, i) # top
         /\ \A i \in 0 .. n : Slot(i) = At(bottom, i)
<1>0. top \in 0 .. N - 1 /\ bottom \in 0 .. N - 1 /\ N \in Nat /\ N > 1
  BY ErrAssumption DEF TypeOK
<1>1. Length = n /\ \A i \in 0 .. N - 1 : Slot(i) = At(bottom, i)
  BY <1>0, Ring DEF Length, Slot
<1>2. n \in 0 .. N - 1 /\ At(bottom, n) = top /\ (n = 0 <=> top = bottom)
  BY <1>0, Positions
<1>3. \A i \in 1 .. n : i # n => At(bottom, i) # top
  <2>1. \A i, j \in 0 .. N - 1 : At(bottom, i) = At(bottom, j) => i = j
    BY <1>0, Positions
  <2>2. \A i \in 1 .. n : i \in 0 .. N - 1
    BY <1>0, <1>2
  <2> QED
    BY <2>1, <2>2, <1>2
<1>4. Slot(1) = Next1(bottom) /\ 1 \in 0 .. N - 1
  BY <1>0 DEF Slot, Next1
<1>5. \A i \in 0 .. n : i \in 0 .. N - 1
  BY <1>0, <1>2
<1> QED
  BY <1>1, <1>2, <1>3, <1>4, <1>5 DEF Empty

\* err_set_error_data changes the text of the last entry.
LEMMA SetTextLogs == ASSUME IInv, NEW x \in Text, err_set_error_data(x) PROVE Log!SetText(x)
<1>0. TypeOK /\ TypeOK' /\ OwnInv /\ LiveInv /\ N \in Nat /\ N > 1 /\ Null \notin Str
  BY SetDataKeeps, ErrAssumption DEF IInv
<1>1. PICK s \in Str :
        /\ heap[s] = NoText /\ ~ Empty /\ suppress = 0
        /\ errors' = [errors EXCEPT ![top].data = s]
        /\ heap' = [Free(heap, errors[top].data) EXCEPT ![s] = x]
        /\ UNCHANGED <<top, bottom, to_free, suppress, saved, ret>>
  BY DEF err_set_error_data
<1>2. PICK L : L = LogOf
  OBVIOUS
<1>3. PICK M : M = LogOf'
  OBVIOUS
<1>4. PICK n : n = Dist(bottom, top)
  OBVIOUS
<1>5. /\ n \in 0 .. N - 1 /\ At(bottom, n) = top /\ n # 0
      /\ \A i \in 1 .. n : i # n => At(bottom, i) # top
  BY <1>0, <1>1, <1>4, LastPosition
<1>6. /\ L \in Seq(Views) /\ Len(L) = n
      /\ \A i \in 1 .. n : At(bottom, i) \in 0 .. N - 1 /\ L[i] = View(errors[At(bottom, i)], heap)
      /\ M \in Seq(Views) /\ Len(M) = n
      /\ \A i \in 1 .. n : M[i] = View(errors'[At(bottom, i)], heap')
  BY <1>0, <1>1, <1>2, <1>3, <1>4, BothLogs
<1>7. top \in 0 .. N - 1 /\ errors[top].data \in Str \cup {Null} /\ errors[top] \in Slots
  BY <1>0, Types DEF TypeOK
<1>8. \A y \in Str : heap'[y] = IF y = s THEN x
                               ELSE IF y = errors[top].data THEN NoText ELSE heap[y]
  <2>1. Free(heap, errors[top].data) \in Heaps
    BY <1>0, <1>7, FreeForm, Types
  <2>2. Freed(Free(heap, errors[top].data), heap, {errors[top].data})
    BY <1>0, <1>7, FreeForm, Types
  <2>3. \A y \in Str : Free(heap, errors[top].data)[y] = IF y = errors[top].data THEN NoText ELSE heap[y]
    BY <2>2 DEF Freed
  <2> QED
    BY <1>1, <2>1, <2>3 DEF Heaps
<1>9. \A k \in 0 .. N - 1 : k # top => View(errors'[k], heap') = View(errors[k], heap)
  <2> SUFFICES ASSUME NEW k \in 0 .. N - 1, k # top
               PROVE  View(errors'[k], heap') = View(errors[k], heap)
    OBVIOUS
  <2>1. errors'[k] = errors[k]
    BY <1>0, <1>1, <1>7, Types
  <2>2. errors[k].data # Null => /\ errors[k].data \in Str /\ errors[k].data # errors[top].data
                                 /\ errors[k].data # s
    BY <1>0, <1>1, <1>7, Types DEF OwnInv, LiveInv
  <2>3. errors[k].data # Null => heap'[errors[k].data] = heap[errors[k].data]
    BY <2>2, <1>8
  <2> QED
    BY <2>1, <2>3 DEF View
<1>10. View(errors'[top], heap') = [View(errors[top], heap) EXCEPT !.text = x]
  <2>1. /\ errors'[top].packed = errors[top].packed /\ errors'[top].mark = errors[top].mark
        /\ errors'[top].data = s
    BY <1>0, <1>1, <1>7, Types DEF Slots
  <2>2. heap'[s] = x /\ s # Null
    BY <1>0, <1>8
  <2> QED
    BY <2>1, <2>2 DEF View
<1>11. M = [L EXCEPT ![Len(L)].text = x]
  <2> DEFINE R == [L EXCEPT ![Len(L)].text = x]
  <2>1. n \in 1 .. n /\ n \in Nat
    BY <1>5, <1>0
  <2>2. L[n] \in Views /\ [L[n] EXCEPT !.text = x] \in Views
    <3>1. L[n] \in Views
      BY <2>1, <1>6
    <3> QED
      BY <3>1 DEF Views
  <2>3. R \in Seq(Views) /\ Len(R) = n /\ R[n] = [L[n] EXCEPT !.text = x]
        /\ \A i \in 1 .. n : i # n => R[i] = L[i]
    BY <2>1, <2>2, <1>6
  <2> HIDE DEF R
  <2>4. \A i \in 1 .. n : M[i] = R[i]
    <3> SUFFICES ASSUME NEW i \in 1 .. n PROVE M[i] = R[i]
      OBVIOUS
    <3>1. CASE i = n
      <4>1. M[n] = View(errors'[top], heap') /\ L[n] = View(errors[top], heap)
        BY <2>1, <1>5, <1>6
      <4> QED
        BY <3>1, <4>1, <2>3, <1>10
    <3>2. CASE i # n
      <4>1. At(bottom, i) # top /\ At(bottom, i) \in 0 .. N - 1 /\ R[i] = L[i]
        BY <3>2, <2>3, <1>5, <1>6
      <4> QED
        BY <4>1, <1>6, <1>9
    <3> QED
      BY <3>1, <3>2
  <2>5. M = R
    BY <2>3, <2>4, <1>6, SeqEqual
  <2> QED
    BY <2>5 DEF R
<1>12. L # <<>>
  BY <1>5, <1>6
<1>13. SavedOf' = SavedOf
  <2>1. \A i \in DOMAIN saved : saved[i].data # Null =>
          /\ saved[i].data \in Str /\ saved[i].data # errors[top].data /\ saved[i].data # s
    BY <1>0, <1>1, <1>7, Types DEF OwnInv, InSaved, LiveInv
  <2>2. saved' = saved
    BY <1>1
  <2>3. \A i \in DOMAIN saved : saved[i].data # Null => heap'[saved[i].data] = heap[saved[i].data]
    BY <2>1, <1>8
  <2> QED
    BY <2>2, <2>3, SameSaved
<1> QED
  BY <1>1, <1>2, <1>3, <1>11, <1>12, <1>13 DEF Log!SetText

\* The positions after the first error is gone.
LEMMA GetPositions ==
  ASSUME NEW b \in 0 .. N - 1, NEW t \in 0 .. N - 1, NEW n, n = Dist(b, t), n # 0,
         NEW f, f = Next1(b)
  PROVE  /\ f \in 0 .. N - 1 /\ n \in 1 .. N - 1 /\ Dist(f, t) = n - 1 /\ At(b, 1) = f
         /\ \A i \in 1 .. n - 1 : At(f, i) = At(b, i + 1) /\ At(b, i + 1) # f
<1>0. N \in Nat /\ N > 1
  BY ErrAssumption
<1>1. f = IF b = N - 1 THEN 0 ELSE b + 1
  BY NextSlot
<1>2. f \in 0 .. N - 1 /\ n \in 1 .. N - 1 /\ Dist(f, t) = n - 1 /\ At(b, 1) = f
  BY <1>0, <1>1 DEF Dist, At
<1>3. \A i \in 1 .. n - 1 : At(f, i) = At(b, i + 1) /\ At(b, i + 1) # f
  BY <1>0, <1>1, <1>2 DEF At
<1> QED
  BY <1>2, <1>3

\* ERR_get_error returns the first entry of the log and removes it.
LEMMA GetLogs == ASSUME IInv, NEW w \in BOOLEAN, Get(w) PROVE Log!Get
<1> DEFINE f == Next1(bottom)
           d == errors[f].data
           gone == IF w /\ d # Null THEN to_free ELSE d
<1>0. TypeOK /\ TypeOK' /\ OwnInv /\ N \in Nat /\ N > 1 /\ Null \notin Str
  BY GetKeeps, ErrAssumption DEF IInv
<1>1. /\ ~ Empty /\ ret' = errors[f].packed /\ heap' = HeapAfterGet(w, d)
      /\ errors' = [errors EXCEPT ![f] = Blank] /\ bottom' = f
      /\ top' = top /\ suppress' = suppress /\ saved' = saved
  BY DEF Get
<1>2. PICK L : L = LogOf
  OBVIOUS
<1>3. PICK M : M = LogOf'
  OBVIOUS
<1>4. PICK n : n = Dist(bottom, top)
  OBVIOUS
<1>5. n # 0 /\ f = Next1(bottom)
  BY <1>0, <1>1, <1>4, LastPosition
<1> HIDE DEF f
<1>6. /\ f \in 0 .. N - 1 /\ n \in 1 .. N - 1 /\ Dist(f, top) = n - 1 /\ At(bottom, 1) = f
      /\ \A i \in 1 .. n - 1 : At(f, i) = At(bottom, i + 1) /\ At(bottom, i + 1) # f
  <2>1. bottom \in 0 .. N - 1 /\ top \in 0 .. N - 1
    BY <1>0 DEF TypeOK
  <2> QED
    BY <2>1, <1>4, <1>5, GetPositions
<1>7. /\ L \in Seq(Views) /\ Len(L) = n
      /\ \A i \in 1 .. n : At(bottom, i) \in 0 .. N - 1 /\ L[i] = View(errors[At(bottom, i)], heap)
      /\ M \in Seq(Views) /\ Len(M) = n - 1
      /\ \A i \in 1 .. n - 1 : M[i] = View(errors'[At(f, i)], heap')
  <2>1. Dist(bottom', top') = n - 1
    BY <1>1, <1>6
  <2> QED
    BY <2>1, <1>0, <1>1, <1>2, <1>3, <1>4, BothLogs
<1>8. Freed(heap', heap, {gone})
  <2>1. gone \in Str \cup {Null} /\ heap' = Free(heap, gone) /\ heap \in Heaps
    BY <1>0, <1>1, <1>6, Types DEF HeapAfterGet, TypeOK
  <2> QED
    BY <2>1, FreeForm
<1>9. \A k \in 0 .. N - 1 : k # f => View(errors'[k], heap') = View(errors[k], heap)
  <2> SUFFICES ASSUME NEW k \in 0 .. N - 1, k # f
               PROVE  View(errors'[k], heap') = View(errors[k], heap)
    OBVIOUS
  <2>1. errors'[k] = errors[k]
    BY <1>0, <1>1, <1>6, Types
  <2>2. errors[k].data # Null => errors[k].data \in Str /\ errors[k].data # gone
    BY <1>0, <1>6, Types DEF OwnInv, InSlot
  <2>3. errors[k].data # Null => heap'[errors[k].data] = heap[errors[k].data]
    BY <2>2, <1>8 DEF Freed
  <2> QED
    BY <2>1, <2>3 DEF View
<1>10. M = Tail(L)
  <2>1. /\ Tail(L) \in Seq(Views) /\ Len(Tail(L)) = n - 1
        /\ \A i \in 1 .. n - 1 : Tail(L)[i] = L[i + 1]
    BY <1>6, <1>7
  <2>2. \A i \in 1 .. n - 1 : M[i] = L[i + 1]
    <3> SUFFICES ASSUME NEW i \in 1 .. n - 1 PROVE M[i] = L[i + 1]
      OBVIOUS
    <3>1. i + 1 \in 1 .. n /\ At(f, i) = At(bottom, i + 1) /\ At(bottom, i + 1) # f
      BY <1>6
    <3>2. At(bottom, i + 1) \in 0 .. N - 1 /\ L[i + 1] = View(errors[At(bottom, i + 1)], heap)
      BY <3>1, <1>7
    <3> QED
      BY <3>1, <3>2, <1>7, <1>9
  <2> QED
    BY <2>1, <2>2, <1>7, SeqEqual
<1>11. L # <<>> /\ ret' = Head(L).packed
  <2>1. 1 \in 1 .. n /\ L # <<>> /\ Head(L) = L[1]
    BY <1>6, <1>7
  <2>2. L[1] = View(errors[f], heap)
    BY <2>1, <1>6, <1>7
  <2> QED
    BY <2>1, <2>2, <1>1 DEF View
<1>12. SavedOf' = SavedOf
  <2>1. \A i \in DOMAIN saved : saved[i].data # Null =>
          saved[i].data \in Str /\ saved[i].data # gone
    BY <1>0, <1>6, Types DEF OwnInv, InSaved
  <2>2. \A i \in DOMAIN saved : saved[i].data # Null => heap'[saved[i].data] = heap[saved[i].data]
    BY <2>1, <1>8 DEF Freed
  <2> QED
    BY <2>2, <1>1, SameSaved
<1> QED
  BY <1>1, <1>2, <1>3, <1>10, <1>11, <1>12 DEF Log!Get

\* ERR_peek_error and ERR_peek_last_error return the first or the last entry.
LEMMA PeekLogs ==
  ASSUME IInv, NEW w \in BOOLEAN, Peek(w)
  PROVE  /\ \E i \in {1, Length} : Log!Peek(i)
         /\ \E i \in DOMAIN LogOf : Log!Peek(i)
<1>0. TypeOK /\ TypeOK' /\ N \in Nat /\ N > 1
  BY PeekKeeps, ErrAssumption DEF IInv
<1>1. UNCHANGED <<errors, top, bottom, to_free, suppress, saved, heap>> /\ ~ Empty
  BY DEF Peek
<1>2. PICK L : L = LogOf
  OBVIOUS
<1>3. PICK n : n = Dist(bottom, top)
  OBVIOUS
<1>4. /\ n \in 0 .. N - 1 /\ At(bottom, n) = top /\ n # 0 /\ Length = n
      /\ At(bottom, 1) = Next1(bottom)
  BY <1>0, <1>1, <1>3, LastPosition
<1>5. LogOf' = L /\ SavedOf' = SavedOf
  <2>1. LogOf' = LogOf
    BY <1>0, <1>1, SameLog
  <2>2. SavedOf' = SavedOf
    BY <1>1, SameSaved
  <2> QED
    BY <2>1, <2>2, <1>2
<1>6. /\ Len(L) = n /\ DOMAIN L = 1 .. n
      /\ \A i \in 1 .. n : L[i] = View(errors[At(bottom, i)], heap)
  BY <1>0, <1>2, <1>3, <1>5, BothLogs
<1>7. PICK i \in {1, n} : ret' = errors[At(bottom, i)].packed
  BY <1>4 DEF Peek
<1>8. i \in DOMAIN L /\ ret' = L[i].packed
  <2>1. i \in 1 .. n
    BY <1>0, <1>4
  <2> QED
    BY <2>1, <1>6, <1>7 DEF View
<1>9. Log!Peek(i)
  BY <1>1, <1>2, <1>5, <1>8 DEF Log!Peek
<1> QED
  BY <1>2, <1>4, <1>8, <1>9

\* A read of the empty ring is a read of the empty log.
LEMMA GetNothingLogs == ASSUME IInv, GetNothing PROVE Log!GetNothing
<1>0. TypeOK /\ TypeOK'
  BY GetNothingKeeps DEF IInv
<1>1. UNCHANGED <<errors, top, bottom, to_free, suppress, saved, heap, lent>> /\ Empty /\ ret' = 0
  BY DEF GetNothing
<1>2. LogOf' = LogOf /\ SavedOf' = SavedOf
  BY <1>0, <1>1, SameLog, SameSaved
<1>3. LogOf = <<>>
  <2>1. PICK L : L = LogOf
    OBVIOUS
  <2>2. Dist(bottom, top) = 0
    BY <1>0, <1>1, LastPosition
  <2>3. L \in Seq(Views) /\ Len(L) = Dist(bottom, top)
    BY <1>0, <1>2, <2>1, BothLogs
  <2>4. L = <<>>
    BY <2>2, <2>3
  <2> QED
    BY <2>1, <2>4
<1> QED
  BY <1>1, <1>2, <1>3 DEF Log!GetNothing

\* Opening and closing a suppression scope leaves the log.
LEMMA SuppressLogs ==
  ASSUME IInv
  PROVE  /\ ERR_suppress_errors_begin => Log!Begin
         /\ ERR_suppress_errors_end => Log!End
<1> SUFFICES ASSUME ERR_suppress_errors_begin \/ ERR_suppress_errors_end
             PROVE  LogOf' = LogOf /\ SavedOf' = SavedOf
  BY DEF ERR_suppress_errors_begin, ERR_suppress_errors_end, Log!Begin, Log!End
<1>0. TypeOK /\ TypeOK'
  BY SuppressKeeps DEF IInv
<1>1. UNCHANGED <<errors, top, bottom, to_free, saved, heap, lent>>
  BY DEF ERR_suppress_errors_begin, ERR_suppress_errors_end
<1> QED
  BY <1>0, <1>1, SameLog, SameSaved

\* Clearing the ring empties the log and leaves the saved one.
LEMMA ClearLogs ==
  ASSUME IInv, ClearQueue, saved' = saved, ret' = ret, suppress' \in 0 .. MaxDepth
  PROVE  LogOf' = <<>> /\ SavedOf' = SavedOf
<1>0. TypeOK /\ TypeOK' /\ OwnInv /\ N \in Nat /\ N > 1
  BY ClearKeeps, ErrAssumption DEF IInv
<1>1. heap' = FreeAll(heap, DataOf(errors) \cup {to_free}) /\ top' = 0 /\ bottom' = 0
  BY DEF ClearQueue
<1>2. Freed(heap', heap, DataOf(errors) \cup {to_free})
  BY <1>0, <1>1, FreeAllForm, Types
<1>3. LogOf' = <<>>
  <2>1. PICK M : M = LogOf'
    OBVIOUS
  <2>2. Dist(0, 0) = 0
    BY <1>0 DEF Dist
  <2>3. M \in Seq(Views) /\ Len(M) = Dist(bottom', top')
    BY <1>0, <2>1, BothLogs
  <2>4. M = <<>>
    BY <2>2, <2>3, <1>1
  <2> QED
    BY <2>1, <2>4
<1>4. \A i \in DOMAIN saved : saved[i].data # Null =>
        saved[i].data \in Str /\ saved[i].data \notin DataOf(errors) \cup {to_free}
  BY <1>0, Types DEF OwnInv, InSaved, DataOf
<1>5. \A i \in DOMAIN saved : saved[i].data # Null => heap'[saved[i].data] = heap[saved[i].data]
  BY <1>2, <1>4 DEF Freed
<1> QED
  BY <1>3, <1>5, SameSaved

\* The mark of an entry is set on its own.
LEMMA MarkField ==
  ASSUME NEW p, NEW m, NEW x, NEW b
  PROVE  [[packed |-> p, mark |-> m, text |-> x] EXCEPT !.mark = b]
           = [packed |-> p, mark |-> b, text |-> x]
<1> DEFINE q == [[packed |-> p, mark |-> m, text |-> x] EXCEPT !.mark = b]
           r == [packed |-> p, mark |-> b, text |-> x]
<1>1. q \in [packed : {p}, mark : {b}, text : {x}]
  OBVIOUS
<1>2. r \in [packed : {p}, mark : {b}, text : {x}]
  OBVIOUS
<1>3. q = r
  <2> HIDE DEF q, r
  <2> QED
    BY <1>1, <1>2
<1> QED
  BY <1>3

\* What a reader sees of an error after only its mark changed.
LEMMA ViewMarked ==
  ASSUME NEW e, NEW f, NEW h, NEW b,
         f.packed = e.packed, f.data = e.data, f.mark = b
  PROVE  View(f, h) = [View(e, h) EXCEPT !.mark = b]
<1>1. PICK p : p = e.packed
  OBVIOUS
<1>2. PICK m : m = e.mark
  OBVIOUS
<1>3. PICK x : x = IF e.data = Null THEN NoText ELSE h[e.data]
  OBVIOUS
<1>4. View(e, h) = [packed |-> p, mark |-> m, text |-> x]
  BY <1>1, <1>2, <1>3, Zenon DEF View
<1>5. View(f, h) = [packed |-> p, mark |-> b, text |-> x]
  BY <1>1, <1>3, Zenon DEF View
<1>6. [[packed |-> p, mark |-> m, text |-> x] EXCEPT !.mark = b] = [packed |-> p, mark |-> b, text |-> x]
  BY MarkField
<1> QED
  BY <1>4, <1>5, <1>6, Zenon

\* ERR_set_mark marks the last entry.
LEMMA MarkLogs == ASSUME IInv, ERR_set_mark PROVE Log!Mark
<1>0. TypeOK /\ TypeOK' /\ N \in Nat /\ N > 1
  BY SetMarkKeeps, ErrAssumption DEF IInv
<1>1. /\ UNCHANGED <<top, bottom, to_free, suppress, saved, heap, lent>> /\ ret' = 1 /\ ~ Empty
      /\ errors' = [errors EXCEPT ![top].mark = TRUE] /\ top \in 0 .. N - 1
  BY <1>0 DEF ERR_set_mark, TypeOK
<1>2. PICK L : L = LogOf
  OBVIOUS
<1>3. PICK M : M = LogOf'
  OBVIOUS
<1>4. PICK n : n = Dist(bottom, top)
  OBVIOUS
<1>5. /\ n \in 0 .. N - 1 /\ At(bottom, n) = top /\ n # 0
      /\ \A i \in 1 .. n : i # n => At(bottom, i) # top
  BY <1>0, <1>1, <1>4, LastPosition
<1>6. /\ L \in Seq(Views) /\ Len(L) = n
      /\ \A i \in 1 .. n : At(bottom, i) \in 0 .. N - 1 /\ L[i] = View(errors[At(bottom, i)], heap)
      /\ M \in Seq(Views) /\ Len(M) = n
      /\ \A i \in 1 .. n : M[i] = View(errors'[At(bottom, i)], heap)
  BY <1>0, <1>1, <1>2, <1>3, <1>4, BothLogs
<1>7. \A k \in 0 .. N - 1 : k # top => errors'[k] = errors[k]
  BY <1>0, <1>1, Types
<1>8. View(errors'[top], heap) = [View(errors[top], heap) EXCEPT !.mark = TRUE]
  <2>1. /\ errors'[top].packed = errors[top].packed /\ errors'[top].mark = TRUE
        /\ errors'[top].data = errors[top].data
    BY <1>0, <1>1, Types DEF Slots
  <2>2. PICK e : e = errors[top]
    OBVIOUS
  <2>3. PICK f : f = errors'[top]
    OBVIOUS
  <2>4. f.packed = e.packed /\ f.data = e.data /\ f.mark = TRUE
    BY <2>1, <2>2, <2>3, Zenon
  <2>5. View(f, heap) = [View(e, heap) EXCEPT !.mark = TRUE]
    BY <2>4, ViewMarked
  <2> QED
    BY <2>2, <2>3, <2>5, Zenon
<1>9. M = [L EXCEPT ![Len(L)].mark = TRUE]
  <2> DEFINE R == [L EXCEPT ![Len(L)].mark = TRUE]
  <2>1. n \in 1 .. n /\ n \in Nat
    BY <1>5, <1>0
  <2>2. L[n] \in Views /\ [L[n] EXCEPT !.mark = TRUE] \in Views
    <3>1. L[n] \in Views
      BY <2>1, <1>6
    <3> QED
      BY <3>1 DEF Views
  <2>3. R \in Seq(Views) /\ Len(R) = n /\ R[n] = [L[n] EXCEPT !.mark = TRUE]
        /\ \A i \in 1 .. n : i # n => R[i] = L[i]
    BY <2>1, <2>2, <1>6
  <2> HIDE DEF R
  <2>4. \A i \in 1 .. n : M[i] = R[i]
    <3> SUFFICES ASSUME NEW i \in 1 .. n PROVE M[i] = R[i]
      OBVIOUS
    <3>1. CASE i = n
      <4>1. M[n] = View(errors'[top], heap) /\ L[n] = View(errors[top], heap)
        BY <2>1, <1>5, <1>6
      <4> QED
        BY <3>1, <4>1, <2>3, <1>8
    <3>2. CASE i # n
      <4>1. At(bottom, i) # top /\ At(bottom, i) \in 0 .. N - 1 /\ R[i] = L[i]
        BY <3>2, <2>3, <1>5, <1>6
      <4> QED
        BY <4>1, <1>6, <1>7
    <3> QED
      BY <3>1, <3>2
  <2>5. M = R
    BY <2>3, <2>4, <1>6, SeqEqual
  <2> QED
    BY <2>5 DEF R
<1>10. L # <<>>
  BY <1>5, <1>6
<1>11. SavedOf' = SavedOf
  BY <1>1, SameSaved
<1> QED
  BY <1>1, <1>2, <1>3, <1>9, <1>10, <1>11 DEF Log!Mark

\* ERR_pop_to_mark cuts the log after its last marked entry and takes that mark.
LEMMA PopToMarkLogs == ASSUME IInv, ERR_pop_to_mark PROVE Log!PopToMark
<1>0. TypeOK /\ TypeOK' /\ OwnInv /\ N \in Nat /\ N > 1 /\ Null \notin Str
  BY PopToMarkKeeps, ErrAssumption DEF IInv
<1>1. PICK i \in 0 .. Length :
        LET gone == {Slot(j) : j \in i + 1 .. Length}
        IN  /\ i # 0 => errors[Slot(i)].mark
            /\ \A j \in i + 1 .. Length : ~ errors[Slot(j)].mark
            /\ errors' = [k \in 0 .. N - 1 |->
                            IF k \in gone THEN Blank
                            ELSE IF i # 0 /\ k = Slot(i) THEN MarkTaken(i)
                            ELSE errors[k]]
            /\ heap' = FreeAll(heap, {errors[k].data : k \in gone})
            /\ top' = Slot(i)
            /\ ret' = IF i = 0 THEN 0 ELSE 1
            /\ UNCHANGED <<bottom, to_free, suppress, saved>>
  BY DEF ERR_pop_to_mark
<1> DEFINE gone == {Slot(j) : j \in i + 1 .. Length}
<1>2. PICK n : n = Dist(bottom, top)
  OBVIOUS
<1>3. n \in 0 .. N - 1 /\ Length = n /\ \A j \in 0 .. n : Slot(j) = At(bottom, j)
  BY <1>0, <1>2, LastPosition
<1>4. i \in 0 .. n /\ gone = {At(bottom, j) : j \in i + 1 .. n} /\ Slot(i) = At(bottom, i)
  <2>1. i \in 0 .. n /\ Slot(i) = At(bottom, i)
    BY <1>3
  <2>2. \A j \in i + 1 .. n : Slot(j) = At(bottom, j)
    BY <2>1, <1>3
  <2> QED
    BY <2>1, <2>2, <1>3
<1>5. /\ \A j \in 0 .. n : At(bottom, j) \in 0 .. N - 1
      /\ \A j, k \in 0 .. n : At(bottom, j) = At(bottom, k) => j = k
      /\ Dist(bottom, At(bottom, i)) = i
  <2>1. \A j \in 0 .. n : j \in 0 .. N - 1
    BY <1>0, <1>3
  <2>2. bottom \in 0 .. N - 1
    BY <1>0 DEF TypeOK
  <2>3. /\ \A j \in 0 .. N - 1 : At(bottom, j) \in 0 .. N - 1
        /\ \A j, k \in 0 .. N - 1 : At(bottom, j) = At(bottom, k) => j = k
        /\ \A j \in 0 .. N - 1 : Dist(bottom, At(bottom, j)) = j
    BY <2>2, Positions
  <2> QED
    BY <2>1, <2>3, <1>4
<1>6. PICK S : S = gone
  OBVIOUS
<1>7. /\ i # 0 => errors[At(bottom, i)].mark
      /\ \A j \in i + 1 .. n : ~ errors[At(bottom, j)].mark
      /\ \A k \in 0 .. N - 1 :
           errors'[k] = IF k \in S THEN Blank
                        ELSE IF i # 0 /\ k = At(bottom, i) THEN MarkTaken(i)
                        ELSE errors[k]
      /\ heap' = FreeAll(heap, {errors[k].data : k \in S})
      /\ top' = At(bottom, i) /\ bottom' = bottom
      /\ ret' = IF i = 0 THEN 0 ELSE 1
      /\ suppress' = suppress /\ saved' = saved
  <2>1. \A j \in i + 1 .. n : j \in 0 .. n /\ j \in i + 1 .. Length
    BY <1>3, <1>4
  <2>2. \A j \in i + 1 .. n : ~ errors[At(bottom, j)].mark
    BY <2>1, <1>1, <1>3
  <2> QED
    BY <2>2, <1>1, <1>4, <1>6
<1>8. \A k : k \in S <=> \E j \in i + 1 .. n : k = At(bottom, j)
  BY <1>4, <1>6
<1> HIDE DEF gone
<1>9. S \in SUBSET (0 .. N - 1) /\ \A j \in 1 .. i : At(bottom, j) \notin S
  <2>1. \A j \in i + 1 .. n : j \in 0 .. n
    BY <1>4, <1>3
  <2>2. \A j \in 1 .. i, k \in i + 1 .. n : j \in 0 .. n /\ j # k
    BY <1>4, <1>3
  <2> QED
    BY <2>1, <2>2, <1>5, <1>8
<1>10. Freed(heap', heap, {errors[k].data : k \in S})
  BY <1>0, <1>7, FreeAllForm, Types
<1>11. \A k \in 0 .. N - 1 : k \notin S => View(errors[k], heap') = View(errors[k], heap)
  <2> SUFFICES ASSUME NEW k \in 0 .. N - 1, k \notin S
               PROVE  View(errors[k], heap') = View(errors[k], heap)
    OBVIOUS
  <2>1. errors[k].data # Null => errors[k].data \in Str /\ errors[k].data \notin {errors[g].data : g \in S}
    BY <1>0, <1>9, Types DEF OwnInv
  <2>2. errors[k].data # Null => heap'[errors[k].data] = heap[errors[k].data]
    BY <2>1, <1>10 DEF Freed
  <2> QED
    BY <2>2 DEF View
<1>12. SavedOf' = SavedOf
  <2>1. \A j \in DOMAIN saved : saved[j].data # Null =>
          saved[j].data \in Str /\ saved[j].data \notin {errors[g].data : g \in S}
    BY <1>0, <1>9, Types DEF OwnInv, InSaved
  <2>2. \A j \in DOMAIN saved : saved[j].data # Null => heap'[saved[j].data] = heap[saved[j].data]
    BY <2>1, <1>10 DEF Freed
  <2> QED
    BY <2>2, <1>7, SameSaved
<1>13. PICK L : L = LogOf
  OBVIOUS
<1>14. PICK M : M = LogOf'
  OBVIOUS
<1>15. /\ L \in Seq(Views) /\ Len(L) = n
       /\ \A j \in 1 .. n : At(bottom, j) \in 0 .. N - 1 /\ L[j] = View(errors[At(bottom, j)], heap)
       /\ M \in Seq(Views) /\ Len(M) = i
       /\ \A j \in 1 .. i : M[j] = View(errors'[At(bottom, j)], heap')
  <2>1. Dist(bottom', top') = i /\ bottom' = bottom
    BY <1>5, <1>7
  <2> QED
    BY <2>1, <1>0, <1>2, <1>13, <1>14, BothLogs
<1>16. \A j \in i + 1 .. n : ~ L[j].mark
  <2>1. \A j \in i + 1 .. n : j \in 1 .. n
    BY <1>3, <1>4
  <2>2. \A j \in 1 .. n : L[j].mark = errors[At(bottom, j)].mark
    BY <1>15 DEF View
  <2> QED
    BY <2>1, <2>2, <1>7, Zenon
<1>17. CASE i = 0
  <2>1. M = <<>> /\ ret' = 0
    BY <1>7, <1>15, <1>17
  <2>2. \A j \in DOMAIN L : ~ L[j].mark
    <3>1. \A j \in DOMAIN L : j \in i + 1 .. n
      BY <1>3, <1>15, <1>17
    <3> QED
      BY <3>1, <1>16
  <2> QED
    BY <2>1, <2>2, <1>7, <1>12, <1>13, <1>14 DEF Log!PopToMark
<1>18. CASE i # 0
  <2>1. i \in 1 .. n /\ i \in 1 .. i /\ i \in DOMAIN L /\ i \in Nat
    BY <1>3, <1>4, <1>15, <1>18
  <2>2. L[i].mark
    <3>1. L[i].mark = errors[At(bottom, i)].mark
      BY <2>1, <1>15 DEF View
    <3> QED
      BY <3>1, <1>7, <1>18, Zenon
  <2>3. \A j \in 1 .. i : j # i => M[j] = L[j]
    <3> SUFFICES ASSUME NEW j \in 1 .. i, j # i PROVE M[j] = L[j]
      OBVIOUS
    <3>1. j \in 1 .. n /\ j \in 0 .. n /\ i \in 0 .. n
      BY <1>3, <1>4
    <3>2. At(bottom, j) \in 0 .. N - 1 /\ At(bottom, j) \notin S /\ At(bottom, j) # At(bottom, i)
      BY <3>1, <1>5, <1>9
    <3>3. errors'[At(bottom, j)] = errors[At(bottom, j)]
      BY <3>2, <1>7
    <3> QED
      BY <3>1, <3>2, <3>3, <1>11, <1>15
  <2>4. M[i] = Log!Unmarked(L[i])
    <3> DEFINE k == At(bottom, i)
    <3>1. k \in 0 .. N - 1 /\ k \notin S /\ M[i] = View(errors'[k], heap')
          /\ L[i] = View(errors[k], heap)
      BY <2>1, <1>5, <1>9, <1>15
    <3>2. errors'[k] = MarkTaken(i) /\ MarkTaken(i) = [errors[k] EXCEPT !.mark = FALSE]
      BY <3>1, <1>4, <1>7, <1>18 DEF MarkTaken
    <3>3. View(errors[k], heap') = View(errors[k], heap) /\ errors[k] \in Slots
      BY <3>1, <1>0, <1>11, Types
    <3> HIDE DEF k
    <3>4. /\ errors'[k].packed = errors[k].packed /\ errors'[k].mark = FALSE
          /\ errors'[k].data = errors[k].data
      BY <3>2, <3>3 DEF Slots
    <3>5. View(errors'[k], heap') = [View(errors[k], heap') EXCEPT !.mark = FALSE]
      <4>1. PICK e : e = errors[k]
        OBVIOUS
      <4>2. PICK f : f = errors'[k]
        OBVIOUS
      <4>3. f.packed = e.packed /\ f.data = e.data /\ f.mark = FALSE
        BY <3>4, <4>1, <4>2, Zenon
      <4>4. View(f, heap') = [View(e, heap') EXCEPT !.mark = FALSE]
        BY <4>3, ViewMarked
      <4> QED
        BY <4>1, <4>2, <4>4, Zenon
    <3>8. M[i] = [L[i] EXCEPT !.mark = FALSE]
      BY <3>1, <3>3, <3>5, Zenon
    <3> QED
      BY <3>8, Zenon DEF Log!Unmarked
  <2> DEFINE P == SubSeq(L, 1, i)
             R == [P EXCEPT ![i] = Log!Unmarked(@)]
  <2>5. P \in Seq(Views) /\ Len(P) = i /\ \A j \in 1 .. i : P[j] = L[j]
    BY <2>1, <1>15
  <2> HIDE DEF P
  <2>6. M[i] \in Views /\ Log!Unmarked(P[i]) = M[i]
    BY <2>1, <2>4, <2>5, <1>15
  <2> HIDE DEF Log!Unmarked
  <2>7. /\ R \in Seq(Views) /\ Len(R) = i /\ R[i] = M[i]
        /\ \A j \in 1 .. i : j # i => R[j] = P[j]
    BY <2>1, <2>5, <2>6
  <2>8. M = R
    <3> HIDE DEF R
    <3>1. \A j \in 1 .. Len(M) : M[j] = R[j]
      BY <2>3, <2>5, <2>7, <1>15
    <3> QED
      BY <3>1, <2>7, <1>15, SeqEqual
  <2>9. ret' = 1
    BY <1>7, <1>18
  <2> QED
    BY <2>1, <2>2, <2>8, <2>9, <1>7, <1>12, <1>13, <1>14, <1>15, <1>16 DEF Log!PopToMark, P
<1> QED
  BY <1>17, <1>18

\* SavedOf, error by error.
LEMMA SavedForm ==
  ASSUME TypeOK, NEW V, V = SavedOf
  PROVE  /\ V \in Seq(Views) /\ Len(V) = Len(saved) /\ DOMAIN V = 1 .. Len(saved)
         /\ \A i \in 1 .. Len(saved) : V[i] = View(saved[i], heap)
<1>1. Len(saved) \in Nat /\ DOMAIN saved = 1 .. Len(saved)
  BY DEF TypeOK
<1>2. \A i \in 1 .. Len(saved) : View(saved[i], heap) \in Views
  BY <1>1, Types, ViewType
<1>3. V = [i \in 1 .. Len(saved) |-> View(saved[i], heap)]
  BY <1>1, SavedNow DEF SavedView
<1> QED
  BY <1>1, <1>2, <1>3

\* ERR_SAVE_STATE_free forgets the saved log.
LEMMA FreeSavedLogs == ASSUME IInv, ERR_SAVE_STATE_free PROVE Log!FreeSaved
<1>0. TypeOK /\ TypeOK' /\ OwnInv
  BY FreeSavedKeeps DEF IInv
<1>1. /\ heap' = FreeAll(heap, DataOf(saved)) /\ saved' = <<>>
      /\ UNCHANGED <<errors, top, bottom, to_free, suppress, lent, ret>>
  BY DEF ERR_SAVE_STATE_free
<1>2. Freed(heap', heap, DataOf(saved))
  BY <1>0, <1>1, FreeAllForm, Types
<1>3. \A k \in 0 .. N - 1 : errors[k].data # Null =>
        errors[k].data \in Str /\ errors[k].data \notin DataOf(saved)
  BY <1>0, Types DEF OwnInv, InSaved, DataOf
<1>4. \A k \in 0 .. N - 1 : errors[k].data # Null => heap'[errors[k].data] = heap[errors[k].data]
  BY <1>2, <1>3 DEF Freed
<1>5. LogOf' = LogOf
  BY <1>0, <1>1, <1>4, SameLog
<1>6. SavedOf' = <<>>
  <2>1. SavedOf' = [i \in {} |-> View(saved'[i], heap')]
    BY <1>1, SavedNow DEF SavedView
  <2> QED
    BY <2>1
<1> QED
  BY <1>1, <1>5, <1>6 DEF Log!FreeSaved

\* ERR_save_state saves the log without its marks; a text that could not be
\* copied is lost.
LEMMA SaveLogs == ASSUME IInv, ERR_save_state PROVE Log!Save
<1> DEFINE src == [i \in 1 .. Length |-> errors[Slot(i)].data]
<1>0. TypeOK /\ TypeOK' /\ OwnInv /\ LiveInv /\ N \in Nat /\ N > 1 /\ Null \notin Str
  BY SaveKeeps, ErrAssumption DEF IInv
<1>1. PICK n : n = Dist(bottom, top)
  OBVIOUS
<1>2. n \in 0 .. N - 1 /\ Length = n /\ \A j \in 1 .. n : Slot(j) = At(bottom, j)
  <2>1. n \in 0 .. N - 1 /\ Length = n /\ \A j \in 0 .. n : Slot(j) = At(bottom, j)
    BY <1>0, <1>1, LastPosition
  <2> QED
    BY <2>1
<1>3. PICK c \in Copies(src, heap) :
        /\ saved' = [i \in 1 .. Length |-> err_copy(errors[Slot(i)], c[i])]
        /\ heap' = Duplicated(heap, src, c)
  BY DEF ERR_save_state
<1>4. UNCHANGED <<errors, top, bottom, to_free, suppress, lent, ret>>
  BY DEF ERR_save_state
<1>5. DOMAIN src = 1 .. n /\ \A i \in 1 .. n : src[i] = errors[At(bottom, i)].data
  BY <1>2
<1> HIDE DEF src
<1>6. PICK L : L = LogOf
  OBVIOUS
<1>7. PICK V : V = SavedOf'
  OBVIOUS
<1>8. /\ L \in Seq(Views) /\ Len(L) = n
      /\ \A i \in 1 .. n : At(bottom, i) \in 0 .. N - 1 /\ L[i] = View(errors[At(bottom, i)], heap)
  BY <1>0, <1>1, <1>6, BothLogs
<1>9. \A i \in DOMAIN src : src[i] \in Str \cup {Null}
  BY <1>0, <1>5, <1>8, Types
<1>10. Copied(src, heap, c, heap')
  BY <1>0, <1>3, <1>9, Types, CopyForm
<1>11. saved' = [i \in 1 .. n |-> err_copy(errors[At(bottom, i)], c[i])]
  BY <1>2, <1>3
<1>12. V = [i \in 1 .. n |-> View(err_copy(errors[At(bottom, i)], c[i]), heap')]
  BY <1>7, <1>11, SavedNow DEF SavedView
<1>13. \A i \in 1 .. n :
         V[i] \in {[packed |-> L[i].packed, text |-> x, mark |-> FALSE] : x \in {L[i].text, NoText}}
  <2> SUFFICES ASSUME NEW i \in 1 .. n
               PROVE  \E x \in {L[i].text, NoText} :
                        V[i] = [packed |-> L[i].packed, text |-> x, mark |-> FALSE]
    OBVIOUS
  <2> DEFINE e == errors[At(bottom, i)]
             x == IF c[i] = Null THEN NoText ELSE heap'[c[i]]
  <2>1. L[i] = View(e, heap) /\ V[i] = View(err_copy(e, c[i]), heap') /\ src[i] = e.data
    BY <1>5, <1>8, <1>12
  <2> HIDE DEF e
  <2>2. L[i].packed = e.packed /\ L[i].text = IF e.data = Null THEN NoText ELSE heap[e.data]
    BY <2>1 DEF View
  <2>3. x \in {L[i].text, NoText}
    <3>1. c[i] # Null => e.data # Null /\ heap'[c[i]] = heap[e.data]
      BY <2>1, <1>5, <1>10 DEF Copied
    <3> QED
      BY <3>1, <2>2
  <2>4. V[i] = [packed |-> e.packed, mark |-> FALSE, text |-> x]
    BY <2>1, Zenon DEF View, err_copy
  <2> HIDE DEF x
  <2>5. V[i] = [packed |-> L[i].packed, text |-> x, mark |-> FALSE]
    BY <2>2, <2>4
  <2> QED
    BY <2>3, <2>5
<1>14. Len(V) = n
  BY <1>2, <1>12
<1>15. LogOf' = LogOf
  <2>1. \A k \in 0 .. N - 1 : errors[k].data # Null =>
          /\ errors[k].data \in Str /\ heap[errors[k].data] # NoText
    BY <1>0, Types DEF LiveInv
  <2>2. \A k \in 0 .. N - 1 : errors[k].data # Null => heap'[errors[k].data] = heap[errors[k].data]
    BY <2>1, <1>0, <1>10 DEF Copied
  <2> QED
    BY <2>2, <1>0, <1>4, SameLog
<1>16. Len(V) = Len(L) /\ DOMAIN L = 1 .. n
  BY <1>8, <1>14
<1> QED
  BY <1>4, <1>6, <1>7, <1>13, <1>15, <1>16 DEF Log!Save

\* And so is its text.
LEMMA TextField ==
  ASSUME NEW p, NEW m, NEW x, NEW y
  PROVE  [[packed |-> p, mark |-> m, text |-> y] EXCEPT !.text = x]
           = [packed |-> p, mark |-> m, text |-> x]
<1> DEFINE q == [[packed |-> p, mark |-> m, text |-> y] EXCEPT !.text = x]
           r == [packed |-> p, mark |-> m, text |-> x]
<1>1. q \in [packed : {p}, mark : {m}, text : {x}]
  OBVIOUS
<1>2. r \in [packed : {p}, mark : {m}, text : {x}]
  OBVIOUS
<1>3. q = r
  <2> HIDE DEF q, r
  <2> QED
    BY <1>1, <1>2
<1> QED
  BY <1>3

\* ERR_restore_state makes the log the saved one again, less the texts that could
\* not be copied.
LEMMA RestoreLogs == ASSUME IInv, ERR_restore_state PROVE Log!Restore
<1>0. TypeOK /\ TypeOK' /\ OwnInv /\ LiveInv /\ SavedInv /\ N \in Nat /\ N > 1 /\ Null \notin Str
  BY RestoreKeeps, ErrAssumption DEF IInv
<1>1. PICK V : V = SavedOf
  OBVIOUS
<1>2. /\ V \in Seq(Views) /\ Len(V) = Len(saved) /\ DOMAIN V = 1 .. Len(saved)
      /\ \A i \in 1 .. Len(saved) : V[i] = View(saved[i], heap)
  BY <1>0, <1>1, SavedForm
<1>3. CASE saved = <<>>
  <2>1. ClearQueue /\ saved' = saved /\ ret' = ret /\ suppress' = suppress
    BY <1>3 DEF ERR_restore_state
  <2>2. suppress' \in 0 .. MaxDepth
    BY <2>1, <1>0 DEF TypeOK
  <2>3. LogOf' = <<>> /\ SavedOf' = SavedOf
    BY <2>1, <2>2, ClearLogs
  <2>4. Len(V) = 0 /\ DOMAIN V = {}
    BY <1>2, <1>3
  <2>5. \A M : M = <<>> => Len(M) = Len(V)
    BY <2>4
  <2> QED
    BY <2>1, <2>3, <2>4, <2>5, <1>1 DEF Log!Restore
<1>4. CASE saved # <<>>
  <2>1. PICK n : n = Len(saved)
    OBVIOUS
  <2>2. /\ n \in 1 .. N - 1 /\ DOMAIN saved = 1 .. n
        /\ top' = n - 1 /\ bottom' = N - 1
        /\ UNCHANGED <<to_free, suppress, saved, ret>>
    BY <1>4, <2>1, RestoreForm
  <2>c. PICK c \in [1 .. n -> Str \cup {Null}] : Restores(n, c)
    BY <1>4, <2>1, RestoreForm
  <2>3. /\ \A k \in 0 .. N - 1 :
             errors'[k] = IF k < n THEN err_copy(saved[k + 1], c[k + 1]) ELSE errors[k]
        /\ \A i \in 1 .. n : c[i] # Null =>
             /\ saved[i].data # Null
             /\ heap[c[i]] = NoText \/ \E k \in 0 .. n - 1 : errors[k].data = c[i]
             /\ heap'[c[i]] = heap[saved[i].data]
        /\ \A s \in Str : (\A i \in 1 .. n : c[i] # s) =>
             heap'[s] = IF \E k \in 0 .. n - 1 : errors[k].data = s THEN NoText ELSE heap[s]
    BY <2>c DEF Restores
  <2>4. Dist(N - 1, n - 1) = n /\ \A i \in 1 .. n : At(N - 1, i) = i - 1
    BY <1>0, <2>2 DEF Dist, At
  <2>5. PICK M : M = LogOf'
    OBVIOUS
  <2>6. M \in Seq(Views) /\ Len(M) = n /\ \A i \in 1 .. n : M[i] = View(errors'[i - 1], heap')
    <3>1. /\ M \in Seq(Views) /\ Len(M) = Dist(bottom', top')
          /\ \A i \in 1 .. Dist(bottom', top') : M[i] = View(errors'[At(bottom', i)], heap')
      BY <1>0, <2>5, BothLogs
    <3> QED
      BY <3>1, <2>2, <2>4
  <2>7. \A i \in 1 .. n : M[i] \in {[V[i] EXCEPT !.text = x] : x \in {V[i].text, NoText}}
    <3> SUFFICES ASSUME NEW i \in 1 .. n
                 PROVE  \E x \in {V[i].text, NoText} : M[i] = [V[i] EXCEPT !.text = x]
      OBVIOUS
    <3> DEFINE e == saved[i]
               x == IF c[i] = Null THEN NoText ELSE heap'[c[i]]
               y == IF e.data = Null THEN NoText ELSE heap[e.data]
    <3>1. i - 1 \in 0 .. N - 1 /\ i - 1 < n /\ (i - 1) + 1 = i
      BY <2>2
    <3>2. errors'[i - 1] = err_copy(e, c[i])
      BY <3>1, <2>3
    <3>3. V[i] = View(e, heap) /\ M[i] = View(err_copy(e, c[i]), heap')
      BY <3>2, <2>1, <2>6, <1>2
    <3>4. e.mark = FALSE
      BY <1>0, <2>2, Zenon DEF SavedInv
    <3>5. c[i] # Null => e.data # Null /\ heap'[c[i]] = heap[e.data]
      BY <2>3
    <3> HIDE DEF e
    <3>6. V[i] = [packed |-> e.packed, mark |-> FALSE, text |-> y]
      BY <3>3, <3>4, Zenon DEF View
    <3>7. M[i] = [packed |-> e.packed, mark |-> FALSE, text |-> x]
      BY <3>3, Zenon DEF View, err_copy
    <3>8. x \in {y, NoText}
      BY <3>5
    <3> HIDE DEF x, y
    <3>9. V[i].text = y
      BY <3>6
    <3>10. [[packed |-> e.packed, mark |-> FALSE, text |-> y] EXCEPT !.text = x]
             = [packed |-> e.packed, mark |-> FALSE, text |-> x]
      BY TextField, Zenon
    <3>11. M[i] = [V[i] EXCEPT !.text = x]
      BY <3>6, <3>7, <3>10, Zenon
    <3> QED
      BY <3>8, <3>9, <3>11
  <2>8. SavedOf' = SavedOf
    <3>1. \A m \in 0 .. n - 1 : m \in 0 .. N - 1
      BY <2>2
    <3>2. ASSUME NEW k \in DOMAIN saved, saved[k].data # Null
          PROVE  heap'[saved[k].data] = heap[saved[k].data]
      <4>1. saved[k].data \in Str /\ heap[saved[k].data] # NoText
        BY <3>2, <1>0, Types DEF LiveInv
      <4>2. ~ \E m \in 0 .. n - 1 : errors[m].data = saved[k].data
        BY <3>1, <3>2, <1>0 DEF OwnInv, InSaved
      <4>3. \A i \in 1 .. n : c[i] # saved[k].data
        BY <4>1, <4>2, <2>3, <3>2
      <4> QED
        BY <4>1, <4>2, <4>3, <2>3
    <3> QED
      BY <3>2, <2>2, SameSaved
  <2>9. Len(M) = Len(V) /\ DOMAIN V = 1 .. n
    BY <2>1, <2>6, <1>2
  <2> QED
    BY <2>2, <2>5, <2>7, <2>8, <2>9, <1>1 DEF Log!Restore
<1> QED
  BY <1>3, <1>4

\* Every call is the call of that name on the log.
CallByCall ==
  /\ \A e \in Err : ERR_put_error(e) => Log!Put(e)
  /\ \A x \in Text : err_set_error_data(x) => Log!SetText(x)
  /\ \A w \in BOOLEAN : /\ Get(w) => Log!Get
                        /\ Peek(w) => \E i \in {1, Length} : Log!Peek(i)
  /\ GetNothing => Log!GetNothing
  /\ ERR_set_mark => Log!Mark
  /\ ERR_pop_to_mark => Log!PopToMark
  /\ ERR_save_state => Log!Save
  /\ ERR_SAVE_STATE_free => Log!FreeSaved
  /\ ERR_restore_state => Log!Restore
  /\ ERR_suppress_errors_begin => Log!Begin
  /\ ERR_suppress_errors_end => Log!End
  /\ ERR_clear_error => Log!Clear
  /\ err_state_free => Log!Exit

\* Every call on the ring is the call of that name on the log.
LEMMA CallsMatch == ASSUME IInv PROVE CallByCall
<1>1. ERR_clear_error => Log!Clear
  <2> SUFFICES ASSUME ERR_clear_error PROVE Log!Clear
    OBVIOUS
  <2>1. ClearQueue /\ saved' = saved /\ ret' = ret /\ suppress' = suppress
    BY DEF ERR_clear_error
  <2>2. suppress' \in 0 .. MaxDepth
    BY <2>1 DEF IInv, TypeOK
  <2> QED
    BY <2>1, <2>2, ClearLogs DEF Log!Clear
<1>2. err_state_free => Log!Exit
  <2> SUFFICES ASSUME err_state_free PROVE Log!Exit
    OBVIOUS
  <2>1. ClearQueue /\ saved' = saved /\ ret' = ret /\ suppress' = 0
    BY DEF err_state_free
  <2>2. suppress' \in 0 .. MaxDepth
    BY <2>1, ErrAssumption
  <2> QED
    BY <2>1, <2>2, ClearLogs DEF Log!Exit
<1> QED
  BY <1>1, <1>2, PutLogs, SetTextLogs, GetLogs, PeekLogs, GetNothingLogs, MarkLogs, PopToMarkLogs,
     SaveLogs, FreeSavedLogs, RestoreLogs, SuppressLogs
  DEF CallByCall

\* The empty ring is the empty log.
LEMMA InitLogs == Init => Log!LogInit
<1> SUFFICES ASSUME Init PROVE Log!LogInit
  OBVIOUS
<1>0. TypeOK /\ N \in Nat /\ N > 1
  BY InitIInv, ErrAssumption DEF IInv
<1>1. LogOf = <<>>
  <2>1. Length = 0
    BY <1>0, LastPosition DEF Init, Empty
  <2> QED
    BY <2>1 DEF LogOf
<1>2. SavedOf = <<>>
  <2>1. DOMAIN saved = {}
    BY DEF Init
  <2> QED
    BY <2>1 DEF SavedOf
<1> QED
  BY <1>1, <1>2 DEF Init, Log!LogInit

\* Every step of the ring is a step of the log or leaves it.
LEMMA StepLogs == IInv /\ [Next]_vars => [Log!LogNext]_(Log!logVars)
<1> SUFFICES ASSUME IInv, [Next]_vars PROVE [Log!LogNext]_(Log!logVars)
  OBVIOUS
<1>1. CASE UNCHANGED vars
  <2>1. LogOf' = LogOf
    BY <1>1 DEF vars, LogOf, Length, Slot
  <2>2. SavedOf' = SavedOf
    BY <1>1 DEF vars, SavedOf
  <2> QED
    BY <1>1, <2>1, <2>2 DEF vars, Log!logVars
<1>2. CASE Next
  <2>1. CallByCall
    BY CallsMatch
  <2>2. \A w \in BOOLEAN : Peek(w) => \E i \in DOMAIN LogOf : Log!Peek(i)
    BY PeekLogs
  <2> QED
    BY <1>2, <2>1, <2>2 DEF Next, CallByCall, Log!LogNext
<1> QED
  BY <1>1, <1>2

\* Every call on the ring is the call of that name on the log of the last N - 1
\* errors, whatever the size of the ring, so ErrQueue implements ErrLog.
THEOREM RingImplementsLog == Spec => LogSteps
<1>1. IInv /\ [Next]_vars => [CallByCall]_vars
  BY CallsMatch
<1>2. IInv /\ [Next]_vars => [Log!LogNext]_(Log!logVars)
  BY StepLogs
<1>3. Spec => Log!LogSpec
  BY <1>2, InitLogs, Inductive, PTL DEF Spec, Log!LogSpec
<1>4. Spec => [][CallByCall]_vars
  BY <1>1, Inductive, PTL DEF Spec
<1> QED
  BY <1>3, <1>4, PTL DEF LogSteps, CallByCall
===============================================================================
