--------------------------- MODULE BufferPoolProofs ---------------------------
(***************************************************************************)
(* Proofs about BufferPool, for any number of threads, addresses, contents *)
(* and any saturation point of the reference count.                        *)
(***************************************************************************)
EXTENDS BufferPool, FiniteSetTheorems, TLAPS

-------------------------------------------------------------------------------
(* The inductive invariant.                                                *)

\* Who holds the pool's lock.
LockInv ==
  /\ readers = {t \in Threads : pc[t] = "new_found"}
  /\ \A t \in Threads : pc[t] = "free_remove" <=> writer = t
  /\ writer # NoThread => readers = {}

\* b is known to thread t alone: allocated here, not in the table.
Private(t, b) ==
  /\ live[b] /\ pooled[b]
  /\ refs[b] = 1
  /\ owned[b] = 0
  /\ Holders(b) = {t}
  /\ contents[b] = want[t].data
  /\ isStatic[b] = want[t].static
  /\ \A d \in Data : bufs[d] # b

\* Thread t saw the count of b reach zero and destroys it.
Dying(t, b) ==
  /\ live[b]
  /\ refs[b] = 0
  /\ owned[b] = 0
  /\ Holders(b) = {}
  /\ Destroyers(b) = {t}

\* What a thread's program counter says about its locals.
ThreadInv(t) ==
  /\ pc[t] \in NewPCs => want[t].data \in Data
  /\ pc[t] \in NewPCs \ {"new_alloc"} => want[t].pool
  /\ pc[t] \in NewPCs /\ want[t].pool => poolUp
  /\ pc[t] = "new_found" => dup[t] = FindDuplicate(t)
  /\ pc[t] \notin {"new_found", "new_discard"} => dup[t] = NoBuf
  /\ pc[t] \in {"new_insert", "new_discard"} => ptr[t] \in Bufs /\ Private(t, ptr[t])
  /\ pc[t] = "new_discard" /\ dup[t] # NoBuf =>
       dup[t] # ptr[t] /\ contents[dup[t]] = want[t].data
  /\ pc[t] \in FreePCs => ptr[t] \in Bufs
  /\ pc[t] = "free_dec" => ~pooled[ptr[t]]
  /\ pc[t] \in {"free_lock", "free_remove"} => pooled[ptr[t]]
  /\ pc[t] \in {"free_remove", "free_object"} => Dying(t, ptr[t])
  /\ pc[t] = "free_object" => \A d \in Data : bufs[d] # ptr[t]

\* What the heap says about an address.
BufInv(b) ==
  /\ ~live[b] => owned[b] = 0 /\ Holders(b) = {} /\ Destroyers(b) = {}
  /\ live[b] => /\ refs[b] = RefMax \/ refs[b] = owned[b] + Cardinality(Holders(b))
                /\ refs[b] = 0 => Destroyers(b) # {}
                /\ contents[b] \in Data
                /\ pooled[b] => poolUp

\* An entry of the table is allocated, filed correctly, and referenced unless
\* the thread that holds the lock for writing is about to remove it.
EntryInv(d) ==
  bufs[d] # NoBuf =>
    /\ live[bufs[d]] /\ pooled[bufs[d]]
    /\ contents[bufs[d]] = d
    /\ refs[bufs[d]] > 0 \/ \E t \in Threads : pc[t] = "free_remove" /\ ptr[t] = bufs[d]

\* A static buffer stays in the table from its insertion to its removal.
StaticInv(b) ==
  /\ live[b] /\ pooled[b] /\ isStatic[b]
  /\ \A t \in Threads : ptr[t] = b => pc[t] \notin {"new_insert", "new_discard", "free_object"}
  => bufs[contents[b]] = b

IInv ==
  /\ TypeOK
  /\ LockInv
  /\ \A t \in Threads : ThreadInv(t)
  /\ \A b \in Bufs : BufInv(b)
  /\ \A d \in Data : EntryInv(d)
  /\ \A b \in Bufs : StaticInv(b)

-------------------------------------------------------------------------------
(* The initial states.                                                     *)

\* The invariant holds initially.
LEMMA InitIInv == Init => IInv
<1> SUFFICES ASSUME Init PROVE IInv
  OBVIOUS
<1> USE NullAssumption, RefMaxAssumption DEF Init
<1>1. TypeOK
  BY DEF TypeOK, NoCall, Calls
<1>2. \A b \in Bufs : Holders(b) = {} /\ Destroyers(b) = {}
  BY DEF Holders, Destroyers
<1>3. LockInv
  BY DEF LockInv
<1>4. \A t \in Threads : ThreadInv(t)
  BY DEF ThreadInv, NewPCs, FreePCs
<1>5. \A b \in Bufs : BufInv(b)
  BY <1>2 DEF BufInv
<1>6. \A d \in Data : EntryInv(d)
  BY DEF EntryInv
<1>7. \A b \in Bufs : StaticInv(b)
  BY DEF StaticInv
<1> QED
  BY <1>1, <1>3, <1>4, <1>5, <1>6, <1>7 DEF IInv

-------------------------------------------------------------------------------
(* One lemma per action.                                                   *)

\* CRYPTO_BUFFER_new, CRYPTO_BUFFER_alloc: a call begins.
LEMMA NewStarts ==
  ASSUME IInv, NEW t \in Threads, NEW d \in Data, NEW s \in BOOLEAN, NEW p \in BOOLEAN,
         CRYPTO_BUFFER_new(t, d, s, p)
  PROVE  IInv'
<1> USE NullAssumption DEF CRYPTO_BUFFER_new, Goto, heap, lock
<1>1. TypeOK /\ LockInv
  BY DEF IInv
<1>2. TypeOK'
  BY <1>1 DEF TypeOK, Calls, NewPCs
<1>3. \A b \in Bufs : Holders(b)' = Holders(b) /\ Destroyers(b)' = Destroyers(b)
  BY <1>1 DEF Holders, Destroyers, TypeOK
<1>4. LockInv'
  BY <1>1 DEF LockInv, TypeOK
<1>5. ASSUME NEW u \in Threads PROVE ThreadInv(u)'
  <2>1. ThreadInv(u)
    BY DEF IInv
  <2>2. CASE u = t
    BY <1>1, <2>1, <2>2 DEF ThreadInv, TypeOK, NewPCs, FreePCs, Calls
  <2>3. CASE u # t
    BY <1>1, <1>3, <2>1, <2>3
    DEF ThreadInv, TypeOK, NewPCs, FreePCs, Calls, Private, Dying, FindDuplicate
  <2> QED BY <2>2, <2>3
<1>6. \A b \in Bufs : BufInv(b)'
  BY <1>3 DEF IInv, BufInv
<1>7. \A c \in Data : EntryInv(c)'
  BY <1>1 DEF IInv, EntryInv, TypeOK
<1>8. \A b \in Bufs : StaticInv(b)'
  BY <1>1 DEF IInv, StaticInv, TypeOK
<1> QED
  BY <1>2, <1>4, <1>5, <1>6, <1>7, <1>8 DEF IInv

\* NewLookup: the lookup under the read lock.
LEMMA LookupKeeps ==
  ASSUME IInv, NEW t \in Threads, NewLookup(t)
  PROVE  IInv'
<1> USE NullAssumption DEF NewLookup, Goto, heap, CanLockRead
<1>1. TypeOK /\ LockInv /\ ThreadInv(t)
  BY DEF IInv
<1>2. FindDuplicate(t) \in Bufs \cup {NoBuf}
  BY <1>1 DEF FindDuplicate, ThreadInv, TypeOK, NewPCs
<1>3. TypeOK'
  BY <1>1, <1>2 DEF TypeOK, NewPCs
<1>4. \A b \in Bufs : Holders(b)' = Holders(b) /\ Destroyers(b)' = Destroyers(b)
  BY <1>1 DEF Holders, Destroyers, TypeOK
<1>5. LockInv'
  BY <1>1 DEF LockInv, TypeOK
<1>6. ASSUME NEW u \in Threads PROVE ThreadInv(u)'
  <2>1. ThreadInv(u)
    BY DEF IInv
  <2>2. CASE u = t
    BY <1>1, <2>1, <2>2 DEF ThreadInv, TypeOK, NewPCs, FreePCs, Calls, FindDuplicate
  <2>3. CASE u # t
    BY <1>1, <1>4, <2>1, <2>3
    DEF ThreadInv, TypeOK, NewPCs, FreePCs, Calls, Private, Dying, FindDuplicate
  <2> QED BY <2>2, <2>3
<1>7. \A b \in Bufs : BufInv(b)'
  BY <1>4 DEF IInv, BufInv
<1>8. \A c \in Data : EntryInv(c)'
  BY <1>1 DEF IInv, EntryInv, TypeOK
<1>9. \A b \in Bufs : StaticInv(b)'
  BY <1>1 DEF IInv, StaticInv, TypeOK
<1> QED
  BY <1>3, <1>5, <1>6, <1>7, <1>8, <1>9 DEF IInv

\* The references that running calls hold can be counted.
LEMMA HoldersCount ==
  ASSUME NEW b \in Bufs
  PROVE  IsFiniteSet(Holders(b)) /\ Cardinality(Holders(b)) \in Nat
BY ThreadsFinite, FS_Subset, FS_CardinalityType DEF Holders

\* What a lookup finds while the pool is locked and not being pruned is
\* allocated, referenced, and has the contents asked for.
LEMMA LookupFinds ==
  ASSUME IInv, NEW t \in Threads, want[t].data \in Data, writer = NoThread,
         FindDuplicate(t) # NoBuf
  PROVE  /\ FindDuplicate(t) \in Bufs
         /\ FindDuplicate(t) = bufs[want[t].data]
         /\ live[FindDuplicate(t)] /\ pooled[FindDuplicate(t)]
         /\ contents[FindDuplicate(t)] = want[t].data
         /\ refs[FindDuplicate(t)] > 0
<1>1. FindDuplicate(t) = bufs[want[t].data]
  BY DEF FindDuplicate
<1>2. EntryInv(want[t].data) /\ LockInv /\ TypeOK
  BY DEF IInv
<1> QED
  BY <1>1, <1>2, NullAssumption DEF EntryInv, LockInv, TypeOK

\* NewFound: a new reference under the read lock.
LEMMA FoundKeeps ==
  ASSUME IInv, NEW t \in Threads, NewFound(t)
  PROVE  IInv'
<1> USE NullAssumption, RefMaxAssumption DEF NewFound, Goto, Finish, Give
<1>1. TypeOK /\ LockInv /\ ThreadInv(t)
  BY DEF IInv
<1> DEFINE f == dup[t]
<1>2. /\ f \in Bufs /\ f = bufs[want[t].data] /\ want[t].data \in Data
      /\ live[f] /\ pooled[f] /\ refs[f] > 0 /\ contents[f] = want[t].data
  <2>1. writer = NoThread
    BY <1>1 DEF LockInv
  <2>2. want[t].data \in Data /\ f = FindDuplicate(t)
    BY <1>1 DEF ThreadInv, NewPCs
  <2> QED BY <2>1, <2>2, LookupFinds
<1>3. CRYPTO_refcount_inc(refs[f]) \in 1..RefMax /\ refs[f] \in 0..RefMax
  BY <1>1, <1>2 DEF CRYPTO_refcount_inc, TypeOK
<1>4. TypeOK'
  BY <1>1, <1>3 DEF TypeOK, NewPCs, NoCall, Calls
<1>5. \A b \in Bufs : Holders(b)' = Holders(b) /\ Destroyers(b)' = Destroyers(b)
  BY <1>1 DEF Holders, Destroyers, TypeOK
<1>6. LockInv'
  BY <1>1 DEF LockInv, TypeOK
<1>7. ASSUME NEW u \in Threads PROVE ThreadInv(u)'
  <2>1. ThreadInv(u)
    BY DEF IInv
  <2>2. CASE u = t
    BY <1>1, <2>1, <2>2 DEF ThreadInv, TypeOK, NewPCs, FreePCs, Calls, NoCall
  <2>3. CASE u # t
    BY <1>1, <1>2, <1>5, <2>1, <2>3
    DEF ThreadInv, TypeOK, NewPCs, FreePCs, Calls, Private, Dying, FindDuplicate
  <2> QED BY <2>2, <2>3
<1>8. ASSUME NEW b \in Bufs PROVE BufInv(b)'
  <2>1. BufInv(b) /\ Cardinality(Holders(b)) \in Nat /\ owned[b] \in Nat
    BY <1>1, HoldersCount DEF IInv, TypeOK
  <2>2. CASE b = f
    BY <1>1, <1>2, <1>3, <1>5, <2>1, <2>2 DEF BufInv, TypeOK, CRYPTO_refcount_inc
  <2>3. CASE b # f
    BY <1>1, <1>5, <2>1, <2>3 DEF BufInv, TypeOK
  <2> QED BY <2>2, <2>3
<1>9. \A c \in Data : EntryInv(c)'
  BY <1>1, <1>2, <1>3 DEF IInv, EntryInv, TypeOK
<1>10. \A b \in Bufs : StaticInv(b)'
  BY <1>1 DEF IInv, StaticInv, TypeOK
<1> QED
  BY <1>4, <1>6, <1>7, <1>8, <1>9, <1>10 DEF IInv

\* NewMissed: the lookup found nothing.
LEMMA MissedKeeps ==
  ASSUME IInv, NEW t \in Threads, NewMissed(t)
  PROVE  IInv'
<1> USE NullAssumption DEF NewMissed, Goto, heap
<1>1. TypeOK /\ LockInv
  BY DEF IInv
<1>2. TypeOK'
  BY <1>1 DEF TypeOK, NewPCs
<1>3. \A b \in Bufs : Holders(b)' = Holders(b) /\ Destroyers(b)' = Destroyers(b)
  BY <1>1 DEF Holders, Destroyers, TypeOK
<1>4. LockInv'
  BY <1>1 DEF LockInv, TypeOK
<1>5. ASSUME NEW u \in Threads PROVE ThreadInv(u)'
  <2>1. ThreadInv(u)
    BY DEF IInv
  <2>2. CASE u = t
    BY <1>1, <2>1, <2>2 DEF ThreadInv, TypeOK, NewPCs, FreePCs
  <2>3. CASE u # t
    BY <1>1, <1>3, <2>1, <2>3
    DEF ThreadInv, TypeOK, NewPCs, FreePCs, Private, Dying, FindDuplicate
  <2> QED BY <2>2, <2>3
<1>6. \A b \in Bufs : BufInv(b)'
  BY <1>3 DEF IInv, BufInv
<1>7. \A c \in Data : EntryInv(c)'
  BY <1>1 DEF IInv, EntryInv, TypeOK
<1>8. \A b \in Bufs : StaticInv(b)'
  BY <1>1 DEF IInv, StaticInv, TypeOK
<1> QED
  BY <1>2, <1>4, <1>5, <1>6, <1>7, <1>8 DEF IInv

\* NewAlloc: a fresh object, private to the thread if it is meant for the pool.
LEMMA AllocKeeps ==
  ASSUME IInv, NEW t \in Threads, NEW a \in Bufs, NewAlloc(t, a)
  PROVE  IInv'
<1> USE NullAssumption, RefMaxAssumption DEF NewAlloc, Goto, Finish, Give, lock
<1>1. TypeOK /\ LockInv /\ ThreadInv(t) /\ want[t].data \in Data
  BY DEF IInv, ThreadInv, NewPCs
<1>2. /\ owned[a] = 0 /\ Holders(a) = {} /\ Destroyers(a) = {}
      /\ \A c \in Data : bufs[c] # a
  BY DEF IInv, BufInv, EntryInv
<1>3. TypeOK'
  <2>1. want[t].static \in BOOLEAN /\ want[t].pool \in BOOLEAN /\ 1 \in 0..RefMax
    BY <1>1 DEF TypeOK, Calls
  <2>2. CASE want[t].pool
    BY <1>1, <2>1, <2>2 DEF TypeOK, NewPCs
  <2>3. CASE ~want[t].pool
    <3>1. NoCall \in Calls /\ owned[a] + 1 \in Nat
      BY <1>1 DEF NoCall, Calls, TypeOK
    <3> QED BY <1>1, <2>1, <2>3, <3>1 DEF TypeOK, NewPCs
  <2> QED BY <2>2, <2>3
<1>4. \A b \in Bufs :
        /\ Destroyers(b)' = Destroyers(b)
        /\ Holders(b)' = IF b = a /\ want[t].pool THEN {t} ELSE Holders(b)
  <2>1. CASE want[t].pool
    BY <1>1, <1>2, <2>1 DEF Holders, Destroyers, TypeOK
  <2>2. CASE ~want[t].pool
    BY <1>1, <1>2, <2>2 DEF Holders, Destroyers, TypeOK
  <2> QED BY <2>1, <2>2
<1>5. LockInv'
  BY <1>1 DEF LockInv, TypeOK
<1>6. ASSUME NEW u \in Threads PROVE ThreadInv(u)'
  <2>1. ThreadInv(u)
    BY DEF IInv
  <2>2. CASE u = t
    BY <1>1, <1>2, <1>4, <2>1, <2>2
    DEF ThreadInv, TypeOK, NewPCs, FreePCs, Calls, NoCall, Private
  <2>3. CASE u # t
    <3>1. pc[u] \in FreePCs \cup {"new_insert", "new_discard"} => ptr[u] \in Bufs \ {a}
      BY <1>1, <1>2, <2>1 DEF ThreadInv, Holders, Destroyers, FreePCs
    <3>2. pc[u] = "new_discard" => dup[u] # a
      BY <1>2 DEF Holders
    <3>3. pc[u] \in NewPCs => want[u].data \in Data
      BY <2>1 DEF ThreadInv
    <3>4. FindDuplicate(u)' = FindDuplicate(u) \/ pc[u] # "new_found"
      BY <1>1, <1>2, <2>3, <3>3 DEF FindDuplicate, TypeOK, NewPCs
    <3> QED
      BY <1>1, <1>2, <1>4, <2>1, <2>3, <3>1, <3>2, <3>3, <3>4
      DEF ThreadInv, TypeOK, NewPCs, FreePCs, Calls, Private, Dying
  <2> QED BY <2>2, <2>3
<1>7. ASSUME NEW b \in Bufs PROVE BufInv(b)'
  <2>1. BufInv(b)
    BY DEF IInv
  <2>2. CASE b = a
    <3>1. Cardinality({t}) = 1 /\ Cardinality({}) = 0
      BY FS_Singleton, FS_EmptySet
    <3>2. /\ live'[b] /\ refs'[b] = 1 /\ contents'[b] \in Data /\ (pooled'[b] => poolUp')
          /\ owned'[b] = IF want[t].pool THEN 0 ELSE 1
      BY <1>1, <1>2, <2>2 DEF TypeOK, ThreadInv, NewPCs
    <3>3. CASE want[t].pool
      <4>1. Holders(b)' = {t}
        BY <1>4, <2>2, <3>3
      <4> QED BY <3>1, <3>2, <3>3, <4>1 DEF BufInv
    <3>4. CASE ~want[t].pool
      <4>1. Holders(b)' = {}
        BY <1>2, <1>4, <2>2, <3>4
      <4> QED BY <3>1, <3>2, <3>4, <4>1 DEF BufInv
    <3> QED BY <3>3, <3>4
  <2>3. CASE b # a
    BY <1>1, <1>4, <2>1, <2>3 DEF BufInv, TypeOK
  <2> QED BY <2>2, <2>3
<1>8. \A c \in Data : EntryInv(c)'
  BY <1>1, <1>2 DEF IInv, EntryInv, TypeOK
<1>9. ASSUME NEW b \in Bufs PROVE StaticInv(b)'
  <2>1. CASE b = a
    BY <1>1, <2>1 DEF StaticInv, TypeOK
  <2>2. CASE b # a
    <3>1. StaticInv(b)
      BY DEF IInv
    <3> QED
      BY <1>1, <2>2, <3>1 DEF StaticInv, TypeOK
  <2> QED BY <2>1, <2>2
<1> QED
  BY <1>3, <1>5, <1>6, <1>7, <1>8, <1>9 DEF IInv

\* NewAllocFails: out of memory.
LEMMA AllocFailsKeeps ==
  ASSUME IInv, NEW t \in Threads, NewAllocFails(t)
  PROVE  IInv'
<1> USE NullAssumption DEF NewAllocFails, Goto, Finish, heap, lock
<1>1. TypeOK /\ LockInv
  BY DEF IInv
<1>2. TypeOK'
  BY <1>1 DEF TypeOK, NewPCs, NoCall, Calls
<1>3. \A b \in Bufs : Holders(b)' = Holders(b) /\ Destroyers(b)' = Destroyers(b)
  BY <1>1 DEF Holders, Destroyers, TypeOK
<1>4. LockInv'
  BY <1>1 DEF LockInv, TypeOK
<1>5. ASSUME NEW u \in Threads PROVE ThreadInv(u)'
  <2>1. ThreadInv(u)
    BY DEF IInv
  <2>2. CASE u = t
    BY <1>1, <2>1, <2>2 DEF ThreadInv, TypeOK, NewPCs, FreePCs
  <2>3. CASE u # t
    BY <1>1, <1>3, <2>1, <2>3
    DEF ThreadInv, TypeOK, NewPCs, FreePCs, Private, Dying, FindDuplicate
  <2> QED BY <2>2, <2>3
<1>6. \A b \in Bufs : BufInv(b)'
  BY <1>3 DEF IInv, BufInv
<1>7. \A c \in Data : EntryInv(c)'
  BY <1>1 DEF IInv, EntryInv, TypeOK
<1>8. \A b \in Bufs : StaticInv(b)'
  BY <1>1 DEF IInv, StaticInv, TypeOK
<1> QED
  BY <1>2, <1>4, <1>5, <1>6, <1>7, <1>8 DEF IInv

\* NewInsertFails: the hash table is out of memory.
LEMMA InsertFailsKeeps ==
  ASSUME IInv, NEW t \in Threads, NewInsertFails(t)
  PROVE  IInv'
<1> USE NullAssumption DEF NewInsertFails, Goto, heap, lock
<1>1. TypeOK /\ LockInv
  BY DEF IInv
<1>2. TypeOK'
  BY <1>1 DEF TypeOK, NewPCs
<1>3. \A b \in Bufs : Holders(b)' = Holders(b) /\ Destroyers(b)' = Destroyers(b)
  <2>1. dup[t] = NoBuf
    BY DEF IInv, ThreadInv
  <2> QED BY <1>1, <2>1 DEF Holders, Destroyers, TypeOK
<1>4. LockInv'
  BY <1>1 DEF LockInv, TypeOK
<1>5. ASSUME NEW u \in Threads PROVE ThreadInv(u)'
  <2>1. ThreadInv(u)
    BY DEF IInv
  <2>2. CASE u = t
    BY <1>1, <1>3, <2>1, <2>2 DEF ThreadInv, TypeOK, NewPCs, FreePCs, Private
  <2>3. CASE u # t
    BY <1>1, <1>3, <2>1, <2>3
    DEF ThreadInv, TypeOK, NewPCs, FreePCs, Private, Dying, FindDuplicate
  <2> QED BY <2>2, <2>3
<1>6. \A b \in Bufs : BufInv(b)'
  BY <1>3 DEF IInv, BufInv
<1>7. \A c \in Data : EntryInv(c)'
  BY <1>1 DEF IInv, EntryInv, TypeOK
<1>8. \A b \in Bufs : StaticInv(b)'
  BY <1>1 DEF IInv, StaticInv, TypeOK
<1> QED
  BY <1>2, <1>4, <1>5, <1>6, <1>7, <1>8 DEF IInv

\* Publishing a private buffer: it becomes the entry for its contents.
LEMMA InsertKeeps ==
  ASSUME IInv, NEW t \in Threads, NewInsert(t)
  PROVE  IInv'
<1> USE NullAssumption, RefMaxAssumption DEF NewInsert, Goto, Finish, Give, heap, lock
<1>1. TypeOK /\ LockInv /\ ThreadInv(t)
  BY DEF IInv
<1> DEFINE a == ptr[t]
<1> DEFINE d == want[t].data
<1>2. a \in Bufs /\ d \in Data /\ Private(t, a)
  BY <1>1 DEF ThreadInv, NewPCs
<1>3. writer = NoThread /\ readers = {}
  BY DEF CanLockWrite
<1>4. TypeOK'
  BY <1>1, <1>2 DEF TypeOK, NewPCs, NoCall, Calls
<1>5. \A b \in Bufs :
        /\ Destroyers(b)' = Destroyers(b)
        /\ Holders(b)' = IF b = a THEN {} ELSE Holders(b)
  <2>1. Holders(a) = {t}
    BY <1>2 DEF Private
  <2> QED
    BY <1>1, <2>1 DEF Holders, Destroyers, TypeOK
<1>6. LockInv'
  BY <1>1 DEF LockInv, TypeOK
<1>7. ASSUME NEW u \in Threads PROVE ThreadInv(u)'
  <2>1. ThreadInv(u)
    BY DEF IInv
  <2>2. CASE u = t
    BY <1>1, <2>1, <2>2 DEF ThreadInv, TypeOK, NewPCs, FreePCs
  <2>3. CASE u # t
    <3>1. pc[u] \in {"new_insert", "new_discard", "free_remove", "free_object"} => ptr[u] # a
      BY <1>2, <2>1, <2>3 DEF ThreadInv, Private, Dying
    <3>2. pc[u] # "new_found"
      BY <1>1, <1>3 DEF LockInv
    <3> QED
      BY <1>1, <1>5, <2>1, <2>3, <3>1, <3>2
      DEF ThreadInv, TypeOK, NewPCs, FreePCs, Private, Dying
  <2> QED BY <2>2, <2>3
<1>8. ASSUME NEW b \in Bufs PROVE BufInv(b)'
  <2>1. BufInv(b)
    BY DEF IInv
  <2>2. CASE b = a
    <3>1. Cardinality(Holders(b)') = 0
      BY <1>5, <2>2, FS_EmptySet
    <3> QED
      BY <1>1, <1>2, <1>5, <2>1, <2>2, <3>1 DEF BufInv, TypeOK, Private
  <2>3. CASE b # a
    BY <1>1, <1>5, <2>1, <2>3 DEF BufInv, TypeOK
  <2> QED BY <2>2, <2>3
<1>9. ASSUME NEW c \in Data PROVE EntryInv(c)'
  <2>1. CASE c = d
    BY <1>1, <1>2, <2>1 DEF EntryInv, TypeOK, Private
  <2>2. CASE c # d
    BY <1>1, <1>2, <2>2 DEF IInv, EntryInv, TypeOK
  <2> QED BY <2>1, <2>2
<1>10. ASSUME NEW b \in Bufs PROVE StaticInv(b)'
  <2>1. CASE b = a
    BY <1>1, <1>2, <2>1 DEF StaticInv, TypeOK, Private
  <2>2. CASE b # a
    <3>1. StaticInv(b) /\ BufInv(b)
      BY DEF IInv
    <3>2. bufs[d] = b => ~isStatic[b]
      BY <1>1 DEF FindDuplicate
    <3> QED
      BY <1>1, <1>2, <2>2, <3>1, <3>2 DEF StaticInv, BufInv, TypeOK
  <2> QED BY <2>1, <2>2
<1> QED
  BY <1>4, <1>6, <1>7, <1>8, <1>9, <1>10 DEF IInv

\* NewLostRace: the lookup under the write lock finds another thread's buffer.
LEMMA LostRaceKeeps ==
  ASSUME IInv, NEW t \in Threads, NewLostRace(t)
  PROVE  IInv'
<1> USE NullAssumption, RefMaxAssumption DEF NewLostRace, Goto, lock
<1>1. TypeOK /\ LockInv /\ ThreadInv(t)
  BY DEF IInv
<1>2. PICK f \in Bufs :
        /\ f = FindDuplicate(t) /\ f = bufs[want[t].data] /\ want[t].data \in Data
        /\ live[f] /\ pooled[f] /\ refs[f] > 0 /\ contents[f] = want[t].data
  <2>1. writer = NoThread
    BY DEF CanLockWrite
  <2>2. want[t].data \in Data
    BY <1>1 DEF ThreadInv, NewPCs
  <2> QED BY <2>1, <2>2, LookupFinds
<1>3. f # ptr[t] /\ dup[t] = NoBuf /\ ptr[t] \in Bufs /\ Private(t, ptr[t])
  BY <1>1, <1>2 DEF ThreadInv, Private
<1>4. /\ refs' = [refs EXCEPT ![f] = CRYPTO_refcount_inc(refs[f])]
      /\ dup' = [dup EXCEPT ![t] = f]
      /\ CRYPTO_refcount_inc(refs[f]) \in 1..RefMax
  BY <1>1, <1>2 DEF CRYPTO_refcount_inc, TypeOK
<1> HIDE DEF NewLostRace
<1>5. /\ pc[t] = "new_insert" /\ CanLockWrite
      /\ pc' = [pc EXCEPT ![t] = "new_discard"]
      /\ UNCHANGED <<live, contents, isStatic, pooled, poolUp, bufs, lock, want, ptr, owned>>
  BY DEF NewLostRace
<1>6. TypeOK'
  BY <1>1, <1>4, <1>5 DEF TypeOK, NewPCs
<1>7. \A b \in Bufs :
        /\ Destroyers(b)' = Destroyers(b)
        /\ Holders(b)' = IF b = f THEN Holders(b) \cup {t} ELSE Holders(b)
  BY <1>1, <1>3, <1>4, <1>5 DEF Holders, Destroyers, TypeOK
<1>8. LockInv'
  BY <1>1, <1>5 DEF LockInv, TypeOK
<1>9. ASSUME NEW u \in Threads PROVE ThreadInv(u)'
  <2>1. ThreadInv(u)
    BY DEF IInv
  <2>2. CASE u = t
    BY <1>1, <1>2, <1>3, <1>4, <1>5, <1>7, <2>1, <2>2
    DEF ThreadInv, TypeOK, NewPCs, FreePCs, Private
  <2>3. CASE u # t
    <3>1. pc[u] \in {"new_insert", "new_discard", "free_remove", "free_object"} => ptr[u] # f
      BY <1>2, <2>1 DEF ThreadInv, Private, Dying
    <3>2. pc[u] # "new_found"
      BY <1>1, <1>5 DEF LockInv, CanLockWrite
    <3> QED
      BY <1>1, <1>4, <1>5, <1>7, <2>1, <2>3, <3>1, <3>2
      DEF ThreadInv, TypeOK, NewPCs, FreePCs, Private, Dying
  <2> QED BY <2>2, <2>3
<1>10. ASSUME NEW b \in Bufs PROVE BufInv(b)'
  <2>1. BufInv(b) /\ owned[b] \in Nat /\ refs[b] \in Nat
    BY <1>1 DEF IInv, TypeOK
  <2>2. CASE b = f
    <3>1. t \notin Holders(b)
      BY <1>3, <1>5, <2>2 DEF Holders
    <3>2. Cardinality(Holders(b) \cup {t}) = Cardinality(Holders(b)) + 1
      BY <3>1, HoldersCount, FS_AddElement
    <3>3. Cardinality(Holders(b)) \in Nat
      BY HoldersCount
    <3>4. Holders(b)' = Holders(b) \cup {t} /\ refs'[b] = CRYPTO_refcount_inc(refs[b])
      BY <1>1, <1>4, <1>7, <2>2 DEF TypeOK
    <3> QED
      BY <1>2, <1>4, <1>5, <1>7, <2>1, <2>2, <3>2, <3>3, <3>4
      DEF BufInv, CRYPTO_refcount_inc
  <2>3. CASE b # f
    BY <1>1, <1>4, <1>5, <1>7, <2>1, <2>3 DEF BufInv, TypeOK
  <2> QED BY <2>2, <2>3
<1>11. \A c \in Data : EntryInv(c)'
  BY <1>1, <1>4, <1>5 DEF IInv, EntryInv, TypeOK
<1>12. \A b \in Bufs : StaticInv(b)'
  BY <1>1, <1>5 DEF IInv, StaticInv, TypeOK
<1> QED
  BY <1>6, <1>8, <1>9, <1>10, <1>11, <1>12 DEF IInv

\* Taking a reference away from a set of holders.
LEMMA HoldersMinus ==
  ASSUME NEW b \in Bufs, NEW t \in Holders(b)
  PROVE  /\ Cardinality(Holders(b)) \in Nat \ {0}
         /\ Cardinality(Holders(b) \ {t}) = Cardinality(Holders(b)) - 1
         /\ Cardinality(Holders(b)) = 1 => Holders(b) = {t}
<1>1. IsFiniteSet(Holders(b)) /\ Cardinality(Holders(b)) \in Nat
  BY HoldersCount
<1>2. Cardinality(Holders(b) \ {t}) = Cardinality(Holders(b)) - 1
  BY <1>1, FS_RemoveElement
<1>3. Cardinality(Holders(b)) # 0
  BY <1>1, FS_EmptySet
<1>4. ASSUME Cardinality(Holders(b)) = 1 PROVE Holders(b) = {t}
  <2>1. Cardinality(Holders(b) \ {t}) = 0
    BY <1>2, <1>4
  <2>2. Holders(b) \ {t} = {}
    BY <1>1, <2>1, FS_EmptySet, FS_RemoveElement
  <2> QED BY <2>2
<1> QED
  BY <1>1, <1>2, <1>3, <1>4

\* NewDiscard: the private buffer goes, the duplicate is returned.
LEMMA DiscardKeeps ==
  ASSUME IInv, NEW t \in Threads, NewDiscard(t)
  PROVE  IInv'
<1> USE NullAssumption, RefMaxAssumption
<1>1. TypeOK /\ LockInv /\ ThreadInv(t)
  BY DEF IInv
<1>2. PICK a \in Bufs : a = ptr[t] /\ Private(t, a)
  BY <1>1 DEF ThreadInv, NewDiscard
<1>3. /\ pc[t] = "new_discard"
      /\ pc' = [pc EXCEPT ![t] = "idle"]
      /\ want' = [want EXCEPT ![t] = NoCall]
      /\ ptr' = [ptr EXCEPT ![t] = NoBuf]
      /\ dup' = [dup EXCEPT ![t] = NoBuf]
      /\ live' = [live EXCEPT ![a] = FALSE]
      /\ contents' = [contents EXCEPT ![a] = NoData]
      /\ isStatic' = [isStatic EXCEPT ![a] = FALSE]
      /\ pooled' = [pooled EXCEPT ![a] = FALSE]
      /\ refs' = [refs EXCEPT ![a] = 0]
      /\ UNCHANGED <<poolUp, bufs, readers, writer>>
  BY <1>2 DEF NewDiscard, Goto, Finish, lock, crypto_buffer_free_object
<1>4. /\ dup[t] # a
      /\ owned' = IF dup[t] = NoBuf THEN owned ELSE [owned EXCEPT ![dup[t]] = @ + 1]
      /\ dup[t] \in Bufs \cup {NoBuf}
  BY <1>1, <1>2 DEF NewDiscard, Give, ThreadInv, TypeOK
<1>5. TypeOK'
  <2>1. NoCall \in Calls /\ \A b \in Bufs : owned[b] + 1 \in Nat
    BY <1>1 DEF NoCall, Calls, TypeOK
  <2>2. owned' \in [Bufs -> Nat]
    BY <1>1, <1>4, <2>1 DEF TypeOK
  <2>3. refs' \in [Bufs -> 0..RefMax]
    BY <1>1, <1>3 DEF TypeOK
  <2>4. want' \in [Threads -> Calls] /\ pc' \in [Threads -> {"idle"} \cup NewPCs \cup FreePCs]
    BY <1>1, <1>3, <2>1 DEF TypeOK
  <2> QED BY <1>1, <1>3, <2>2, <2>3, <2>4 DEF TypeOK
<1>6. \A b \in Bufs :
        /\ Destroyers(b)' = Destroyers(b)
        /\ Holders(b)' = IF b = a THEN {} ELSE Holders(b) \ {t}
        /\ b # a => (t \in Holders(b) <=> b = dup[t])
  <2>1. Holders(a) = {t}
    BY <1>2 DEF Private
  <2> QED BY <1>1, <1>2, <1>3, <2>1 DEF Holders, Destroyers, TypeOK
<1>7. LockInv'
  BY <1>1, <1>3 DEF LockInv, TypeOK
<1>8. ASSUME NEW u \in Threads PROVE ThreadInv(u)'
  <2>1. ThreadInv(u)
    BY DEF IInv
  <2>2. CASE u = t
    BY <1>1, <1>3, <2>2 DEF ThreadInv, TypeOK, NewPCs, FreePCs
  <2>3. CASE u # t
    <3>1. pc[u] \in FreePCs \cup {"new_insert", "new_discard"} => ptr[u] \in Bufs \ {a}
      <4>1. u \notin Holders(a) /\ Destroyers(a) = {}
        <5>1. Holders(a) = {t} /\ live[a] /\ refs[a] = 1
          BY <1>2 DEF Private
        <5>2. \A v \in Destroyers(a) : refs[a] = 0
          BY DEF Destroyers, IInv, ThreadInv, Dying
        <5> QED BY <2>3, <5>1, <5>2
      <4> QED BY <2>1, <4>1 DEF Holders, Destroyers, ThreadInv, FreePCs
    <3>2. pc[u] = "new_discard" => dup[u] # a
      BY <1>2, <2>3 DEF Private, Holders
    <3>3. pc[u] \in {"new_insert", "new_discard"} => ptr[u] # dup[t] /\ t \notin Holders(ptr[u])
      <4>1. pc[u] \in {"new_insert", "new_discard"} => t \notin Holders(ptr[u])
        BY <2>1, <2>3 DEF ThreadInv, Private
      <4> QED BY <1>3, <3>1, <1>6, <4>1
    <3>4. pc[u] \in {"free_remove", "free_object"} => ptr[u] # dup[t] /\ t \notin Holders(ptr[u])
      <4>1. pc[u] \in {"free_remove", "free_object"} => t \notin Holders(ptr[u])
        BY <2>1 DEF ThreadInv, Dying
      <4> QED BY <1>3, <3>1, <1>6, <4>1 DEF FreePCs
    <3>5. pc[u] \in NewPCs => want[u].data \in Data
      BY <2>1 DEF ThreadInv
    <3>6. FindDuplicate(u)' = FindDuplicate(u) \/ pc[u] # "new_found"
      <4>1. \A c \in Data : bufs[c] # a
        BY <1>2 DEF Private
      <4> QED BY <1>1, <1>3, <2>3, <3>5, <4>1 DEF FindDuplicate, TypeOK, NewPCs
    <3>7. /\ pc'[u] = pc[u] /\ want'[u] = want[u] /\ ptr'[u] = ptr[u] /\ dup'[u] = dup[u]
          /\ UNCHANGED <<poolUp, bufs>>
      BY <1>1, <1>3, <2>3 DEF TypeOK
    <3>8. pc[u] \in {"new_insert", "new_discard"} => Private(u, ptr[u])'
      <4> SUFFICES ASSUME pc[u] \in {"new_insert", "new_discard"} PROVE Private(u, ptr[u])'
        OBVIOUS
      <4>1. PICK q \in Bufs : q = ptr[u] /\ q # a /\ Private(u, q) /\ q # dup[t]
        BY <2>1, <3>1, <3>3 DEF ThreadInv
      <4>2. Holders(q)' = Holders(q)
        BY <1>6, <4>1
      <4>3. owned'[q] = owned[q]
        BY <1>1, <1>4, <4>1 DEF TypeOK
      <4>4. Private(u, q)'
        BY <1>1, <1>3, <3>7, <4>1, <4>2, <4>3 DEF Private, TypeOK
      <4> QED BY <3>7, <4>1, <4>4 DEF Private, Holders
    <3>9. pc[u] \in {"free_remove", "free_object"} => Dying(u, ptr[u])'
      <4> SUFFICES ASSUME pc[u] \in {"free_remove", "free_object"} PROVE Dying(u, ptr[u])'
        OBVIOUS
      <4>1. PICK q \in Bufs : q = ptr[u] /\ q # a /\ Dying(u, q) /\ q # dup[t]
        BY <2>1, <3>1, <3>4 DEF ThreadInv, FreePCs
      <4>2. Holders(q)' = Holders(q) /\ Destroyers(q)' = Destroyers(q)
        BY <1>6, <4>1
      <4>3. owned'[q] = owned[q]
        BY <1>1, <1>4, <4>1 DEF TypeOK
      <4>4. Dying(u, q)'
        BY <1>1, <1>3, <3>7, <4>1, <4>2, <4>3 DEF Dying, TypeOK
      <4> QED BY <3>7, <4>1, <4>4 DEF Dying, Holders, Destroyers
    <3> QED
      BY <1>1, <1>3, <2>1, <3>1, <3>2, <3>5, <3>6, <3>7, <3>8, <3>9
      DEF ThreadInv, TypeOK, NewPCs, FreePCs
  <2> QED BY <2>2, <2>3
<1>9. ASSUME NEW b \in Bufs PROVE BufInv(b)'
  <2>1. BufInv(b) /\ owned[b] \in Nat /\ refs[b] \in Nat
    BY <1>1 DEF IInv, TypeOK
  <2>2. CASE b = a
    <3>1. Holders(b)' = {} /\ Destroyers(b)' = Destroyers(b)
      BY <1>6, <2>2
    <3>2. Destroyers(b) = {}
      <4>1. \A v \in Destroyers(b) : refs[b] = 0
        BY DEF Destroyers, IInv, ThreadInv, Dying
      <4> QED BY <1>2, <2>2, <4>1 DEF Private
    <3>3. live'[b] = FALSE /\ owned'[b] = 0
      BY <1>1, <1>2, <1>3, <1>4, <2>2 DEF TypeOK, Private
    <3> QED BY <3>1, <3>2, <3>3 DEF BufInv
  <2>3. CASE b # a /\ b # dup[t]
    <3>1. Holders(b)' = Holders(b)
      BY <1>6, <2>3
    <3> QED
      BY <1>1, <1>3, <1>4, <1>6, <2>1, <2>3, <3>1 DEF BufInv, TypeOK
  <2>4. CASE b # a /\ b = dup[t]
    <3>1. t \in Holders(b) /\ Holders(b)' = Holders(b) \ {t} /\ Destroyers(b)' = Destroyers(b)
      BY <1>6, <2>4
    <3>2. /\ Cardinality(Holders(b)) \in Nat
          /\ Cardinality(Holders(b) \ {t}) = Cardinality(Holders(b)) - 1
      BY <3>1, HoldersMinus
    <3>3. /\ live'[b] = live[b] /\ refs'[b] = refs[b] /\ owned'[b] = owned[b] + 1
          /\ contents'[b] = contents[b] /\ pooled'[b] = pooled[b] /\ poolUp' = poolUp
      BY <1>1, <1>3, <1>4, <2>4 DEF TypeOK
    <3> QED
      BY <2>1, <3>1, <3>2, <3>3 DEF BufInv
  <2> QED BY <2>2, <2>3, <2>4
<1>10. \A c \in Data : EntryInv(c)'
  <2>1. \A c \in Data : bufs[c] # a
    BY <1>2 DEF Private
  <2> QED BY <1>1, <1>3, <2>1 DEF IInv, EntryInv, TypeOK
<1>11. ASSUME NEW b \in Bufs PROVE StaticInv(b)'
  <2>1. CASE b = a
    BY <1>1, <1>3, <2>1 DEF StaticInv, TypeOK
  <2>2. CASE b # a
    <3>1. StaticInv(b)
      BY DEF IInv
    <3> QED
      BY <1>1, <1>2, <1>3, <2>2, <3>1 DEF StaticInv, TypeOK
  <2> QED BY <2>1, <2>2
<1> QED
  BY <1>5, <1>7, <1>8, <1>9, <1>10, <1>11 DEF IInv

\* The application's reference becomes the call's.
LEMMA FreeStarts ==
  ASSUME IInv, NEW t \in Threads, NEW a \in Bufs, CRYPTO_BUFFER_free(t, a)
  PROVE  IInv'
<1> USE NullAssumption, RefMaxAssumption DEF CRYPTO_BUFFER_free, Goto, heap, lock
<1>1. TypeOK /\ LockInv /\ BufInv(a)
  BY DEF IInv
<1>2. owned[a] \in Nat \ {0} /\ live[a]
  BY <1>1 DEF BufInv, TypeOK
<1>3. TypeOK'
  BY <1>1, <1>2 DEF TypeOK, FreePCs
<1>4. \A b \in Bufs :
        /\ Destroyers(b)' = Destroyers(b)
        /\ Holders(b)' = IF b = a THEN Holders(b) \cup {t} ELSE Holders(b)
        /\ t \notin Holders(b)
  BY <1>1 DEF Holders, Destroyers, TypeOK
<1>5. LockInv'
  BY <1>1 DEF LockInv, TypeOK
<1>6. ASSUME NEW u \in Threads PROVE ThreadInv(u)'
  <2>1. ThreadInv(u)
    BY DEF IInv
  <2>2. CASE u = t
    BY <1>1, <2>1, <2>2 DEF ThreadInv, TypeOK, NewPCs, FreePCs
  <2>3. CASE u # t
    <3>1. pc[u] \in {"new_insert", "new_discard", "free_remove", "free_object"} => ptr[u] # a
      BY <1>2, <2>1 DEF ThreadInv, Private, Dying
    <3> QED
      BY <1>1, <1>4, <2>1, <2>3, <3>1
      DEF ThreadInv, TypeOK, NewPCs, FreePCs, Private, Dying, FindDuplicate
  <2> QED BY <2>2, <2>3
<1>7. ASSUME NEW b \in Bufs PROVE BufInv(b)'
  <2>1. BufInv(b) /\ owned[b] \in Nat /\ refs[b] \in Nat
    BY <1>1 DEF IInv, TypeOK
  <2>2. CASE b = a
    <3>1. Cardinality(Holders(b) \cup {t}) = Cardinality(Holders(b)) + 1
      BY <1>4, HoldersCount, FS_AddElement
    <3>2. Cardinality(Holders(b)) \in Nat
      BY HoldersCount
    <3>3. Holders(b)' = Holders(b) \cup {t} /\ owned'[b] = owned[b] - 1
      BY <1>1, <1>4, <2>2 DEF TypeOK
    <3> QED
      BY <1>2, <1>4, <2>1, <2>2, <3>1, <3>2, <3>3 DEF BufInv
  <2>3. CASE b # a
    BY <1>1, <1>4, <2>1, <2>3 DEF BufInv, TypeOK
  <2> QED BY <2>2, <2>3
<1>8. \A c \in Data : EntryInv(c)'
  BY <1>1 DEF IInv, EntryInv, TypeOK
<1>9. \A b \in Bufs : StaticInv(b)'
  BY <1>1 DEF IInv, StaticInv, TypeOK
<1> QED
  BY <1>3, <1>5, <1>6, <1>7, <1>8, <1>9 DEF IInv

\* What a thread about to decrement a count knows.
LEMMA BeforeDec ==
  ASSUME IInv, NEW t \in Threads, pc[t] \in {"free_dec", "free_lock"}
  PROVE  /\ ptr[t] \in Bufs /\ live[ptr[t]] /\ t \in Holders(ptr[t])
         /\ refs[ptr[t]] \in 1..RefMax
         /\ Destroyers(ptr[t]) = {}
         /\ refs[ptr[t]] = 1 => owned[ptr[t]] = 0 /\ Holders(ptr[t]) = {t}
<1> USE NullAssumption, RefMaxAssumption
<1>1. PICK a \in Bufs : a = ptr[t] /\ BufInv(a)
  BY DEF IInv, ThreadInv, FreePCs
<1>2. t \in Holders(a)
  BY <1>1 DEF Holders
<1>3. live[a]
  BY <1>1, <1>2 DEF BufInv
<1>4. Destroyers(a) = {}
  <2>1. \A u \in Destroyers(a) : Holders(a) = {}
    BY DEF Destroyers, IInv, ThreadInv, Dying
  <2> QED BY <1>2, <2>1
<1>5. refs[a] \in 0..RefMax /\ owned[a] \in Nat
  BY DEF IInv, TypeOK
<1>6. refs[a] # 0
  BY <1>1, <1>3, <1>4 DEF BufInv
<1>7. ASSUME refs[a] = 1 PROVE owned[a] = 0 /\ Holders(a) = {t}
  <2>1. Cardinality(Holders(a)) \in Nat \ {0} /\ (Cardinality(Holders(a)) = 1 => Holders(a) = {t})
    BY <1>2, HoldersMinus
  <2>2. 1 = owned[a] + Cardinality(Holders(a))
    BY <1>1, <1>3, <1>7 DEF BufInv
  <2> QED BY <1>5, <2>1, <2>2
<1> QED
  BY <1>1, <1>2, <1>3, <1>4, <1>5, <1>6, <1>7

\* The decrement, with or without the lock: only the last reference makes the
\* thread a destroyer.
LEMMA DecCounts ==
  ASSUME IInv, NEW t \in Threads, pc[t] \in {"free_dec", "free_lock"},
         NEW a \in Bufs, a = ptr[t],
         NEW next \in {"free_object", "free_remove"},
         refs' = [refs EXCEPT ![a] = CRYPTO_refcount_dec(@)],
         UNCHANGED <<live, contents, isStatic, pooled, poolUp, owned>>,
         \/ /\ refs'[a] = 0
            /\ pc' = [pc EXCEPT ![t] = next]
            /\ UNCHANGED <<ptr, dup>>
         \/ /\ refs'[a] # 0
            /\ pc' = [pc EXCEPT ![t] = "idle"]
            /\ ptr' = [ptr EXCEPT ![t] = NoBuf]
            /\ dup' = [dup EXCEPT ![t] = NoBuf]
  PROVE  /\ \A b \in Bufs :
              /\ Holders(b)' = IF b = a THEN Holders(b) \ {t} ELSE Holders(b)
              /\ Destroyers(b)' = IF b = a /\ refs'[a] = 0 THEN {t} ELSE Destroyers(b)
         /\ refs' \in [Bufs -> 0..RefMax]
         /\ refs'[a] = 0 => owned[a] = 0 /\ Holders(a) = {t}
         /\ \A b \in Bufs : BufInv(b)'
<1> USE NullAssumption, RefMaxAssumption
<1>1. TypeOK
  BY DEF IInv
<1>2. /\ live[a] /\ t \in Holders(a) /\ refs[a] \in 1..RefMax /\ Destroyers(a) = {}
      /\ refs[a] = 1 => owned[a] = 0 /\ Holders(a) = {t}
  BY BeforeDec
<1>3. /\ refs'[a] = CRYPTO_refcount_dec(refs[a])
      /\ CRYPTO_refcount_dec(refs[a]) \in 0..RefMax
      /\ refs'[a] = 0 => refs[a] = 1
  BY <1>1, <1>2 DEF TypeOK, CRYPTO_refcount_dec
<1>4. refs' \in [Bufs -> 0..RefMax]
  BY <1>1, <1>3 DEF TypeOK
<1>5. \A b \in Bufs :
        /\ Holders(b)' = IF b = a THEN Holders(b) \ {t} ELSE Holders(b)
        /\ Destroyers(b)' = IF b = a /\ refs'[a] = 0 THEN {t} ELSE Destroyers(b)
  <2>1. dup[t] = NoBuf
    BY DEF IInv, ThreadInv
  <2>2. CASE refs'[a] = 0
    BY <1>1, <1>2, <2>1, <2>2 DEF Holders, Destroyers, TypeOK
  <2>3. CASE refs'[a] # 0
    BY <1>1, <2>1, <2>3 DEF Holders, Destroyers, TypeOK
  <2> QED BY <2>2, <2>3
<1>6. ASSUME NEW b \in Bufs PROVE BufInv(b)'
  <2>1. BufInv(b) /\ owned[b] \in Nat
    BY <1>1 DEF IInv, TypeOK
  <2>2. CASE b = a
    <3>1. /\ Cardinality(Holders(b)) \in Nat
          /\ Cardinality(Holders(b) \ {t}) = Cardinality(Holders(b)) - 1
      BY <1>2, <2>2, HoldersMinus
    <3>2. Holders(b)' = Holders(b) \ {t}
      BY <1>5, <2>2
    <3>3. refs'[b] = 0 => Destroyers(b)' # {}
      BY <1>5, <2>2
    <3> QED
      BY <1>2, <1>3, <2>1, <2>2, <3>1, <3>2, <3>3 DEF BufInv, CRYPTO_refcount_dec
  <2>3. CASE b # a
    BY <1>1, <1>5, <2>1, <2>3 DEF BufInv, TypeOK
  <2> QED BY <2>2, <2>3
<1> QED
  BY <1>2, <1>3, <1>4, <1>5, <1>6

\* FreeDec: a reference to an unpooled buffer goes.
LEMMA FreeDecKeeps ==
  ASSUME IInv, NEW t \in Threads, FreeDec(t)
  PROVE  IInv'
<1> USE NullAssumption, RefMaxAssumption
<1>1. TypeOK /\ LockInv /\ ThreadInv(t)
  BY DEF IInv
<1>2. PICK a \in Bufs : a = ptr[t] /\ live[a] /\ t \in Holders(a) /\ refs[a] > 0
                        /\ ~pooled[a] /\ Destroyers(a) = {}
  BY <1>1, BeforeDec DEF FreeDec, ThreadInv
<1>3. /\ pc[t] = "free_dec"
      /\ refs' = [refs EXCEPT ![a] = CRYPTO_refcount_dec(@)]
      /\ UNCHANGED <<live, contents, isStatic, pooled, poolUp, owned, bufs, readers, writer>>
      /\ \/ /\ refs'[a] = 0
            /\ pc' = [pc EXCEPT ![t] = "free_object"]
            /\ UNCHANGED <<ptr, dup, want>>
         \/ /\ refs'[a] # 0
            /\ pc' = [pc EXCEPT ![t] = "idle"]
            /\ ptr' = [ptr EXCEPT ![t] = NoBuf]
            /\ dup' = [dup EXCEPT ![t] = NoBuf]
            /\ want' = [want EXCEPT ![t] = NoCall]
  BY <1>2 DEF FreeDec, Finish, Goto, lock
<1>4. /\ \A b \in Bufs :
           /\ Holders(b)' = IF b = a THEN Holders(b) \ {t} ELSE Holders(b)
           /\ Destroyers(b)' = IF b = a /\ refs'[a] = 0 THEN {t} ELSE Destroyers(b)
      /\ refs' \in [Bufs -> 0..RefMax]
      /\ refs'[a] = 0 => owned[a] = 0 /\ Holders(a) = {t}
      /\ \A b \in Bufs : BufInv(b)'
  BY <1>2, <1>3, DecCounts
<1>5. TypeOK'
  <2>1. NoCall \in Calls
    BY DEF NoCall, Calls
  <2> QED BY <1>1, <1>3, <1>4, <2>1 DEF TypeOK, FreePCs
<1>6. LockInv'
  BY <1>1, <1>3 DEF LockInv, TypeOK
<1>7. \A c \in Data : bufs[c] # a
  BY <1>2 DEF IInv, EntryInv
<1>8. ASSUME NEW u \in Threads PROVE ThreadInv(u)'
  <2>1. ThreadInv(u)
    BY DEF IInv
  <2>2. CASE u = t /\ refs'[a] = 0
    <3>1. Dying(t, a)'
      BY <1>2, <1>3, <1>4, <2>2 DEF Dying
    <3>2. pc'[t] = "free_object" /\ ptr'[t] = a /\ dup'[t] = NoBuf
      BY <1>1, <1>2, <1>3, <2>2 DEF TypeOK, ThreadInv
    <3>3. Dying(t, ptr[t])'
      BY <3>1, <3>2 DEF Dying, Holders, Destroyers
    <3> QED
      BY <1>3, <1>7, <2>2, <3>2, <3>3 DEF ThreadInv, NewPCs, FreePCs
  <2>3. CASE u = t /\ refs'[a] # 0
    <3>1. pc'[t] = "idle" /\ dup'[t] = NoBuf
      BY <1>1, <1>3, <2>3 DEF TypeOK
    <3> QED
      BY <2>3, <3>1 DEF ThreadInv, NewPCs, FreePCs
  <2>4. CASE u # t
    <3>1. pc[u] \in {"new_insert", "new_discard", "free_remove", "free_object"} => ptr[u] # a
      BY <1>2, <2>1, <2>4 DEF ThreadInv, Private, Dying
    <3>2. /\ pc'[u] = pc[u] /\ want'[u] = want[u] /\ ptr'[u] = ptr[u] /\ dup'[u] = dup[u]
      BY <1>1, <1>3, <2>4 DEF TypeOK
    <3> QED
      BY <1>1, <1>3, <1>4, <2>1, <2>4, <3>1, <3>2
      DEF ThreadInv, TypeOK, NewPCs, FreePCs, Private, Dying, FindDuplicate
  <2> QED BY <2>2, <2>3, <2>4
<1>9. ASSUME NEW c \in Data PROVE EntryInv(c)'
  BY <1>1, <1>3, <1>7 DEF IInv, EntryInv, TypeOK
<1>10. ASSUME NEW b \in Bufs PROVE StaticInv(b)'
  <2>1. StaticInv(b)
    BY DEF IInv
  <2>2. CASE b = a
    BY <1>2, <1>3, <2>2 DEF StaticInv
  <2>3. CASE b # a
    BY <1>1, <1>2, <1>3, <2>1, <2>3 DEF StaticInv, TypeOK
  <2> QED BY <2>2, <2>3
<1> QED
  BY <1>4, <1>5, <1>6, <1>8, <1>9, <1>10 DEF IInv

\* FreeLockDec: a reference to a pooled buffer goes, under the write lock.
LEMMA FreeLockDecKeeps ==
  ASSUME IInv, NEW t \in Threads, FreeLockDec(t)
  PROVE  IInv'
<1> USE NullAssumption, RefMaxAssumption
<1>1. TypeOK /\ LockInv /\ ThreadInv(t)
  BY DEF IInv
<1>2. PICK a \in Bufs : a = ptr[t] /\ live[a] /\ t \in Holders(a) /\ refs[a] > 0
                        /\ pooled[a] /\ Destroyers(a) = {}
  BY <1>1, BeforeDec DEF FreeLockDec, ThreadInv
<1>3. /\ pc[t] = "free_lock" /\ writer = NoThread /\ readers = {}
      /\ refs' = [refs EXCEPT ![a] = CRYPTO_refcount_dec(@)]
      /\ UNCHANGED <<live, contents, isStatic, pooled, poolUp, owned, bufs, readers>>
      /\ \/ /\ refs'[a] = 0
            /\ pc' = [pc EXCEPT ![t] = "free_remove"]
            /\ writer' = t
            /\ UNCHANGED <<ptr, dup, want>>
         \/ /\ refs'[a] # 0
            /\ pc' = [pc EXCEPT ![t] = "idle"]
            /\ ptr' = [ptr EXCEPT ![t] = NoBuf]
            /\ dup' = [dup EXCEPT ![t] = NoBuf]
            /\ want' = [want EXCEPT ![t] = NoCall]
            /\ writer' = writer
  BY <1>2 DEF FreeLockDec, Finish, Goto, CanLockWrite
<1>4. /\ \A b \in Bufs :
           /\ Holders(b)' = IF b = a THEN Holders(b) \ {t} ELSE Holders(b)
           /\ Destroyers(b)' = IF b = a /\ refs'[a] = 0 THEN {t} ELSE Destroyers(b)
      /\ refs' \in [Bufs -> 0..RefMax]
      /\ refs'[a] = 0 => owned[a] = 0 /\ Holders(a) = {t}
      /\ \A b \in Bufs : BufInv(b)'
  BY <1>2, <1>3, DecCounts
<1>5. TypeOK'
  <2>1. NoCall \in Calls
    BY DEF NoCall, Calls
  <2> QED BY <1>1, <1>3, <1>4, <2>1 DEF TypeOK, FreePCs
<1>6. LockInv'
  BY <1>1, <1>3 DEF LockInv, TypeOK
<1>7. ASSUME NEW u \in Threads PROVE ThreadInv(u)'
  <2>1. ThreadInv(u)
    BY DEF IInv
  <2>2. CASE u = t /\ refs'[a] = 0
    <3>1. Dying(t, a)'
      BY <1>2, <1>3, <1>4, <2>2 DEF Dying
    <3>2. pc'[t] = "free_remove" /\ ptr'[t] = a /\ dup'[t] = NoBuf
      BY <1>1, <1>2, <1>3, <2>2 DEF TypeOK, ThreadInv
    <3>3. Dying(t, ptr[t])'
      BY <3>1, <3>2 DEF Dying, Holders, Destroyers
    <3> QED
      BY <1>2, <1>3, <2>2, <3>2, <3>3 DEF ThreadInv, NewPCs, FreePCs
  <2>3. CASE u = t /\ refs'[a] # 0
    <3>1. pc'[t] = "idle" /\ dup'[t] = NoBuf
      BY <1>1, <1>3, <2>3 DEF TypeOK
    <3> QED
      BY <2>3, <3>1 DEF ThreadInv, NewPCs, FreePCs
  <2>4. CASE u # t
    <3>1. pc[u] \in {"new_insert", "new_discard", "free_remove", "free_object"} => ptr[u] # a
      BY <1>2, <2>1, <2>4 DEF ThreadInv, Private, Dying
    <3>2. /\ pc'[u] = pc[u] /\ want'[u] = want[u] /\ ptr'[u] = ptr[u] /\ dup'[u] = dup[u]
      BY <1>1, <1>3, <2>4 DEF TypeOK
    <3> QED
      BY <1>1, <1>3, <1>4, <2>1, <2>4, <3>1, <3>2
      DEF ThreadInv, TypeOK, NewPCs, FreePCs, Private, Dying, FindDuplicate
  <2> QED BY <2>2, <2>3, <2>4
<1>8. ASSUME NEW c \in Data PROVE EntryInv(c)'
  <2>1. EntryInv(c) /\ \A u \in Threads : pc[u] # "free_remove"
    BY <1>1, <1>3 DEF IInv, LockInv
  <2>2. CASE bufs[c] = a
    <3>1. refs'[a] = 0 => pc'[t] = "free_remove" /\ ptr'[t] = a
      BY <1>1, <1>2, <1>3 DEF TypeOK
    <3>2. refs'[a] \in 0..RefMax
      BY <1>4
    <3> QED BY <1>3, <2>1, <2>2, <3>1, <3>2 DEF EntryInv
  <2>3. CASE bufs[c] # a
    BY <1>1, <1>3, <2>1, <2>3 DEF EntryInv, TypeOK
  <2> QED BY <2>2, <2>3
<1>9. ASSUME NEW b \in Bufs PROVE StaticInv(b)'
  <2>1. StaticInv(b)
    BY DEF IInv
  <2> QED
    BY <1>1, <1>2, <1>3, <2>1 DEF StaticInv, TypeOK
<1> QED
  BY <1>4, <1>5, <1>6, <1>7, <1>8, <1>9 DEF IInv

\* FreeRemove: a dying buffer leaves the table.
LEMMA FreeRemoveKeeps ==
  ASSUME IInv, NEW t \in Threads, FreeRemove(t)
  PROVE  IInv'
<1> USE NullAssumption, RefMaxAssumption
<1>1. TypeOK /\ LockInv /\ ThreadInv(t)
  BY DEF IInv
<1>2. PICK a \in Bufs : a = ptr[t] /\ Dying(t, a) /\ pooled[a] /\ contents[a] \in Data
  BY <1>1 DEF FreeRemove, ThreadInv, FreePCs, IInv, BufInv, Dying
<1>3. /\ pc[t] = "free_remove" /\ writer = t /\ readers = {}
      /\ bufs' = [bufs EXCEPT ![contents[a]] = IF @ = a THEN NoBuf ELSE @]
      /\ writer' = NoThread
      /\ pc' = [pc EXCEPT ![t] = "free_object"]
      /\ UNCHANGED <<live, contents, isStatic, pooled, refs, poolUp, readers, want, ptr, dup, owned>>
  BY <1>1, <1>2 DEF FreeRemove, Goto, LockInv, heap
<1>4. TypeOK'
  BY <1>1, <1>3 DEF TypeOK, FreePCs
<1>5. \A b \in Bufs : Holders(b)' = Holders(b) /\ Destroyers(b)' = Destroyers(b)
  BY <1>1, <1>3 DEF Holders, Destroyers, TypeOK
<1>6. LockInv'
  BY <1>1, <1>3 DEF LockInv, TypeOK
<1>7. \A c \in Data : bufs'[c] = IF bufs[c] = a THEN NoBuf ELSE bufs[c]
  BY <1>1, <1>2, <1>3 DEF IInv, EntryInv, TypeOK
<1>8. ASSUME NEW u \in Threads PROVE ThreadInv(u)'
  <2>1. ThreadInv(u)
    BY DEF IInv
  <2>2. CASE u = t
    BY <1>1, <1>2, <1>3, <1>5, <1>7, <2>1, <2>2 DEF ThreadInv, TypeOK, NewPCs, FreePCs, Dying
  <2>3. CASE u # t
    <3>1. pc[u] # "new_found"
      BY <1>1, <1>3 DEF LockInv
    <3> QED
      BY <1>1, <1>2, <1>3, <1>5, <1>7, <2>1, <2>3, <3>1
      DEF ThreadInv, TypeOK, NewPCs, FreePCs, Private, Dying
  <2> QED BY <2>2, <2>3
<1>9. \A b \in Bufs : BufInv(b)'
  BY <1>3, <1>5 DEF IInv, BufInv
<1>10. ASSUME NEW c \in Data PROVE EntryInv(c)'
  <2>1. EntryInv(c) /\ \A u \in Threads : pc[u] = "free_remove" => u = t
    BY <1>1, <1>3 DEF IInv, LockInv
  <2> QED
    BY <1>1, <1>2, <1>3, <1>7, <2>1 DEF EntryInv, TypeOK
<1>11. ASSUME NEW b \in Bufs PROVE StaticInv(b)'
  <2>1. StaticInv(b) /\ BufInv(b)
    BY DEF IInv
  <2> QED
    BY <1>1, <1>2, <1>3, <1>7, <2>1 DEF StaticInv, BufInv, TypeOK
<1> QED
  BY <1>4, <1>6, <1>8, <1>9, <1>10, <1>11 DEF IInv

\* FreeObject: a dying buffer is deallocated.
LEMMA FreeObjectKeeps ==
  ASSUME IInv, NEW t \in Threads, FreeObject(t)
  PROVE  IInv'
<1> USE NullAssumption, RefMaxAssumption
<1>1. TypeOK /\ LockInv /\ ThreadInv(t)
  BY DEF IInv
<1>2. PICK a \in Bufs : a = ptr[t] /\ Dying(t, a) /\ \A c \in Data : bufs[c] # a
  BY <1>1 DEF FreeObject, ThreadInv, FreePCs
<1>3. /\ pc[t] = "free_object" /\ dup[t] = NoBuf
      /\ pc' = [pc EXCEPT ![t] = "idle"]
      /\ want' = [want EXCEPT ![t] = NoCall]
      /\ ptr' = [ptr EXCEPT ![t] = NoBuf]
      /\ dup' = [dup EXCEPT ![t] = NoBuf]
      /\ live' = [live EXCEPT ![a] = FALSE]
      /\ contents' = [contents EXCEPT ![a] = NoData]
      /\ isStatic' = [isStatic EXCEPT ![a] = FALSE]
      /\ pooled' = [pooled EXCEPT ![a] = FALSE]
      /\ refs' = [refs EXCEPT ![a] = 0]
      /\ UNCHANGED <<poolUp, bufs, readers, writer, owned>>
  BY <1>1, <1>2 DEF FreeObject, Goto, Finish, lock, crypto_buffer_free_object, ThreadInv
<1>4. TypeOK'
  <2>1. NoCall \in Calls
    BY DEF NoCall, Calls
  <2>2. refs' \in [Bufs -> 0..RefMax]
    BY <1>1, <1>3 DEF TypeOK
  <2>3. want' \in [Threads -> Calls] /\ pc' \in [Threads -> {"idle"} \cup NewPCs \cup FreePCs]
    BY <1>1, <1>3, <2>1 DEF TypeOK
  <2> QED BY <1>1, <1>3, <2>2, <2>3 DEF TypeOK
<1>5. \A b \in Bufs :
        /\ Holders(b)' = Holders(b)
        /\ Destroyers(b)' = IF b = a THEN {} ELSE Destroyers(b)
  <2>1. Destroyers(a) = {t}
    BY <1>2 DEF Dying
  <2> QED BY <1>1, <1>2, <1>3, <2>1 DEF Holders, Destroyers, TypeOK
<1>6. LockInv'
  BY <1>1, <1>3 DEF LockInv, TypeOK
<1>7. ASSUME NEW u \in Threads PROVE ThreadInv(u)'
  <2>1. ThreadInv(u)
    BY DEF IInv
  <2>2. CASE u = t
    BY <1>1, <1>3, <2>2 DEF ThreadInv, TypeOK, NewPCs, FreePCs
  <2>3. CASE u # t
    <3>1. pc[u] \in FreePCs \cup {"new_insert", "new_discard"} => ptr[u] \in Bufs \ {a}
      <4>1. u \notin Holders(a) /\ u \notin Destroyers(a)
        BY <1>2, <2>3 DEF Dying
      <4> QED BY <2>1, <4>1 DEF Holders, Destroyers, ThreadInv, FreePCs
    <3>2. pc[u] = "new_discard" => dup[u] # a
      BY <1>2 DEF Dying, Holders
    <3>3. pc[u] \in NewPCs => want[u].data \in Data
      BY <2>1 DEF ThreadInv
    <3>4. FindDuplicate(u)' = FindDuplicate(u) \/ pc[u] # "new_found"
      BY <1>1, <1>2, <1>3, <2>3, <3>3 DEF FindDuplicate, TypeOK, NewPCs
    <3>5. /\ pc'[u] = pc[u] /\ want'[u] = want[u] /\ ptr'[u] = ptr[u] /\ dup'[u] = dup[u]
      BY <1>1, <1>3, <2>3 DEF TypeOK
    <3> QED
      BY <1>1, <1>3, <1>5, <2>1, <2>3, <3>1, <3>2, <3>4, <3>5
      DEF ThreadInv, TypeOK, NewPCs, FreePCs, Private, Dying
  <2> QED BY <2>2, <2>3
<1>8. ASSUME NEW b \in Bufs PROVE BufInv(b)'
  <2>1. BufInv(b)
    BY DEF IInv
  <2>2. CASE b = a
    <3>1. Holders(b)' = {} /\ Destroyers(b)' = {}
      BY <1>2, <1>5, <2>2 DEF Dying
    <3>2. live'[b] = FALSE /\ owned'[b] = 0
      BY <1>1, <1>2, <1>3, <2>2 DEF TypeOK, Dying
    <3> QED BY <3>1, <3>2 DEF BufInv
  <2>3. CASE b # a
    BY <1>1, <1>3, <1>5, <2>1, <2>3 DEF BufInv, TypeOK
  <2> QED BY <2>2, <2>3
<1>9. \A c \in Data : EntryInv(c)'
  BY <1>1, <1>2, <1>3 DEF IInv, EntryInv, TypeOK
<1>10. ASSUME NEW b \in Bufs PROVE StaticInv(b)'
  <2>1. CASE b = a
    BY <1>1, <1>3, <2>1 DEF StaticInv, TypeOK
  <2>2. CASE b # a
    <3>1. StaticInv(b)
      BY DEF IInv
    <3> QED
      BY <1>1, <1>2, <1>3, <2>2, <3>1 DEF StaticInv, TypeOK
  <2> QED BY <2>1, <2>2
<1> QED
  BY <1>4, <1>6, <1>7, <1>8, <1>9, <1>10 DEF IInv

\* CRYPTO_BUFFER_up_ref: an owner duplicates its reference.
LEMMA UpRefKeeps ==
  ASSUME IInv, NEW a \in Bufs, CRYPTO_BUFFER_up_ref(a)
  PROVE  IInv'
<1> USE NullAssumption, RefMaxAssumption DEF CRYPTO_BUFFER_up_ref, Give, lock
<1>1. TypeOK /\ LockInv /\ BufInv(a)
  BY DEF IInv
<1>2. /\ owned[a] \in Nat \ {0} /\ live[a] /\ refs[a] \in 0..RefMax
      /\ CRYPTO_refcount_inc(refs[a]) \in 1..RefMax
  BY <1>1 DEF BufInv, TypeOK, CRYPTO_refcount_inc
<1>3. TypeOK'
  BY <1>1, <1>2 DEF TypeOK
<1>4. \A b \in Bufs : Holders(b)' = Holders(b) /\ Destroyers(b)' = Destroyers(b)
  BY DEF Holders, Destroyers
<1>5. LockInv'
  BY <1>1 DEF LockInv
<1>6. ASSUME NEW u \in Threads PROVE ThreadInv(u)'
  <2>1. ThreadInv(u)
    BY DEF IInv
  <2>2. pc[u] \in {"new_insert", "new_discard", "free_remove", "free_object"} => ptr[u] # a
    BY <1>2, <2>1 DEF ThreadInv, Private, Dying
  <2> QED
    BY <1>1, <1>4, <2>1, <2>2
    DEF ThreadInv, TypeOK, NewPCs, FreePCs, Private, Dying, FindDuplicate
<1>7. ASSUME NEW b \in Bufs PROVE BufInv(b)'
  <2>1. BufInv(b) /\ owned[b] \in Nat /\ Cardinality(Holders(b)) \in Nat
    BY <1>1, HoldersCount DEF IInv, TypeOK
  <2>2. CASE b = a
    BY <1>1, <1>2, <1>4, <2>1, <2>2 DEF BufInv, TypeOK, CRYPTO_refcount_inc
  <2>3. CASE b # a
    BY <1>1, <1>4, <2>1, <2>3 DEF BufInv, TypeOK
  <2> QED BY <2>2, <2>3
<1>8. \A c \in Data : EntryInv(c)'
  BY <1>1, <1>2 DEF IInv, EntryInv, TypeOK
<1>9. \A b \in Bufs : StaticInv(b)'
  BY DEF IInv, StaticInv
<1> QED
  BY <1>3, <1>5, <1>6, <1>7, <1>8, <1>9 DEF IInv

\* CRYPTO_BUFFER_POOL_free, once no pooled buffer is left.
LEMMA PoolFreeKeeps ==
  ASSUME IInv, CRYPTO_BUFFER_POOL_free
  PROVE  IInv'
<1> USE NullAssumption DEF CRYPTO_BUFFER_POOL_free, heap, lock
<1>1. TypeOK /\ LockInv
  BY DEF IInv
<1>2. \A b \in Bufs : Holders(b)' = Holders(b) /\ Destroyers(b)' = Destroyers(b)
  BY DEF Holders, Destroyers
<1>3. TypeOK' /\ LockInv'
  BY <1>1 DEF TypeOK, LockInv
<1>4. ASSUME NEW u \in Threads PROVE ThreadInv(u)'
  BY <1>2 DEF IInv, ThreadInv, PoolUnused, NewPCs, FreePCs
<1>5. \A b \in Bufs : BufInv(b)'
  BY <1>2 DEF IInv, BufInv, PoolUnused
<1>6. \A c \in Data : EntryInv(c)'
  BY DEF IInv, EntryInv
<1>7. \A b \in Bufs : StaticInv(b)'
  BY DEF IInv, StaticInv
<1> QED
  BY <1>3, <1>4, <1>5, <1>6, <1>7 DEF IInv

\* CRYPTO_BUFFER_POOL_new: an empty table.
LEMMA PoolNewKeeps ==
  ASSUME IInv, CRYPTO_BUFFER_POOL_new
  PROVE  IInv'
<1> USE NullAssumption DEF CRYPTO_BUFFER_POOL_new, heap, lock
<1>1. TypeOK /\ LockInv
  BY DEF IInv
<1>2. \A b \in Bufs : Holders(b)' = Holders(b) /\ Destroyers(b)' = Destroyers(b)
  BY DEF Holders, Destroyers
<1>3. TypeOK'
  BY <1>1 DEF TypeOK
<1>4. ASSUME NEW u \in Threads
      PROVE  pc[u] \notin {"new_lookup", "new_found", "new_insert", "new_discard",
                           "free_lock", "free_remove"}
  <2>1. ThreadInv(u) /\ \A b \in Bufs : BufInv(b)
    BY DEF IInv
  <2>2. pc[u] \in {"free_lock", "free_remove"} => live[ptr[u]]
    BY <2>1, BeforeDec DEF ThreadInv, Dying
  <2> QED
    BY <2>1, <2>2 DEF ThreadInv, BufInv, NewPCs, FreePCs
<1>5. LockInv'
  BY <1>1, <1>4 DEF LockInv
<1>6. ASSUME NEW u \in Threads PROVE ThreadInv(u)'
  BY <1>2, <1>4 DEF IInv, ThreadInv, NewPCs, FreePCs, Dying
<1>7. \A b \in Bufs : BufInv(b)'
  BY <1>2 DEF IInv, BufInv
<1>8. \A c \in Data : EntryInv(c)'
  BY DEF IInv, EntryInv
<1>9. \A b \in Bufs : StaticInv(b)'
  BY DEF IInv, StaticInv, BufInv
<1> QED
  BY <1>3, <1>5, <1>6, <1>7, <1>8, <1>9 DEF IInv

-------------------------------------------------------------------------------
(* The theorems.                                                           *)

\* Every step preserves the invariant.
LEMMA NextKeeps == IInv /\ [Next]_vars => IInv'
<1> SUFFICES ASSUME IInv, [Next]_vars PROVE IInv'
  OBVIOUS
<1>1. CASE UNCHANGED vars
  <2> USE <1>1 DEF vars, heap, lock
  <2>1. TypeOK' /\ LockInv'
    BY DEF IInv, TypeOK, LockInv
  <2>2. \A b \in Bufs : Holders(b)' = Holders(b) /\ Destroyers(b)' = Destroyers(b)
    BY DEF Holders, Destroyers
  <2>3. ASSUME NEW t \in Threads PROVE ThreadInv(t)'
    BY <2>2 DEF IInv, ThreadInv, Private, Dying, FindDuplicate, FreePCs
  <2>4. \A b \in Bufs : BufInv(b)'
    BY <2>2 DEF IInv, BufInv
  <2>5. (\A d \in Data : EntryInv(d)') /\ (\A b \in Bufs : StaticInv(b)')
    BY DEF IInv, EntryInv, StaticInv
  <2> QED BY <2>1, <2>3, <2>4, <2>5 DEF IInv
<1>2. CASE \E t \in Threads : Step(t)
  <2>1. PICK t \in Threads : Step(t)
    BY <1>2
  <2> QED
    BY <2>1, NewStarts, LookupKeeps, FoundKeeps, MissedKeeps, AllocKeeps, AllocFailsKeeps,
       InsertKeeps, InsertFailsKeeps, LostRaceKeeps, DiscardKeeps, FreeStarts, FreeDecKeeps,
       FreeLockDecKeeps, FreeRemoveKeeps, FreeObjectKeeps
    DEF Step
<1>3. CASE \E b \in Bufs : CRYPTO_BUFFER_up_ref(b)
  BY <1>3, UpRefKeeps
<1>4. CASE CRYPTO_BUFFER_POOL_free
  BY <1>4, PoolFreeKeeps
<1>5. CASE CRYPTO_BUFFER_POOL_new
  BY <1>5, PoolNewKeeps
<1> QED
  BY <1>1, <1>2, <1>3, <1>4, <1>5 DEF Next

\* The invariant that ties counts, table, locks and program counters together
\* holds in every reachable state of the pool.
THEOREM Inductive == Spec => []IInv
<1>1. IInv /\ [Next]_vars => IInv'
  BY NextKeeps
<1> QED
  BY <1>1, InitIInv, PTL DEF Spec

\* Type correctness: in particular a reference count never leaves the range of
\* CRYPTO_refcount_t.
THEOREM TypeCorrect == Spec => []TypeOK
<1>1. IInv => TypeOK
  BY DEF IInv
<1> QED
  BY <1>1, Inductive, PTL

\* Every count is exact until it saturates.
THEOREM CountsAreExact == Spec => []RefcountExact
<1>1. IInv => RefcountExact
  BY DEF IInv, BufInv, RefcountExact
<1> QED
  BY <1>1, Inductive, PTL

\* No thread can reach a freed buffer, and no count is decremented below zero.
THEOREM Safe == Spec => []NoUseAfterFree
<1>1. ASSUME IInv PROVE NoUseAfterFree
  <2>1. ASSUME NEW b \in Bufs, owned[b] > 0 \/ Holders(b) # {}
        PROVE  live[b] /\ refs[b] > 0
    <3>1. BufInv(b) /\ refs[b] \in 0..RefMax /\ owned[b] \in Nat
      BY <1>1 DEF IInv, TypeOK
    <3>2. live[b]
      BY <2>1, <3>1 DEF BufInv
    <3>3. \A t \in Destroyers(b) : owned[b] = 0 /\ Holders(b) = {}
      BY <1>1 DEF Destroyers, IInv, ThreadInv, Dying
    <3> QED
      BY <2>1, <3>1, <3>2, <3>3 DEF BufInv
  <2>2. ASSUME NEW t \in Threads, pc[t] = "new_found", dup[t] # NoBuf
        PROVE  live[dup[t]] /\ refs[dup[t]] > 0
    <3>1. ThreadInv(t) /\ writer = NoThread
      BY <1>1, <2>2 DEF IInv, LockInv
    <3>2. want[t].data \in Data /\ dup[t] = FindDuplicate(t)
      BY <2>2, <3>1 DEF ThreadInv, NewPCs
    <3> QED
      BY <1>1, <2>2, <3>1, <3>2, LookupFinds
  <2> QED
    BY <2>1, <2>2 DEF NoUseAfterFree
<1> QED
  BY <1>1, Inductive, PTL

\* The table has no dangling or misfiled entry.
THEOREM TableIsSound == Spec => []TableSound
<1>1. IInv => TableSound
  BY DEF IInv, EntryInv, TableSound
<1> QED
  BY <1>1, Inductive, PTL

\* A buffer is destroyed by one thread, and only when nobody refers to it.
THEOREM OnlyOneDestroys == Spec => []DestroyedOnce
<1>1. IInv => DestroyedOnce
  BY DEF IInv, ThreadInv, Dying, DestroyedOnce, Destroyers
<1> QED
  BY <1>1, Inductive, PTL

\* Static contents are shared.
THEOREM StaticIsShared == Spec => []OneStaticPerContents
<1>1. ASSUME IInv PROVE OneStaticPerContents
  <2>1. ASSUME NEW b \in Bufs, owned[b] > 0, pooled[b], isStatic[b]
        PROVE  bufs[contents[b]] = b
    <3>1. live[b] /\ StaticInv(b)
      BY <1>1, <2>1 DEF IInv, BufInv
    <3>2. ASSUME NEW t \in Threads, ptr[t] = b
          PROVE  pc[t] \notin {"new_insert", "new_discard", "free_object"}
      BY <1>1, <2>1, <3>2 DEF IInv, ThreadInv, Private, Dying
    <3> QED
      BY <2>1, <3>1, <3>2 DEF StaticInv
  <2> QED
    BY <2>1 DEF OneStaticPerContents
<1> QED
  BY <1>1, Inductive, PTL

\* Nothing leaks.
THEOREM NothingLeaks == Spec => []NoLeak
<1>1. ASSUME IInv PROVE NoLeak
  <2>1. ASSUME \A t \in Threads : pc[t] = "idle",
               NEW b \in Bufs, live[b], owned[b] = 0
        PROVE  refs[b] = RefMax
    <3>1. Holders(b) = {} /\ Destroyers(b) = {}
      BY <2>1 DEF Holders, Destroyers
    <3>2. Cardinality(Holders(b)) = 0
      BY <3>1, FS_EmptySet
    <3> QED
      BY <1>1, <2>1, <3>1, <3>2 DEF IInv, BufInv
  <2> QED
    BY <2>1 DEF NoLeak
<1> QED
  BY <1>1, Inductive, PTL

\* CRYPTO_BUFFER_POOL_free's assertion holds for callers that obey its contract.
THEOREM FreedPoolIsEmpty == Spec => []PoolEmptyWhenFreed
<1>1. IInv => PoolEmptyWhenFreed
  BY NullAssumption DEF IInv, TypeOK, EntryInv, PoolEmptyWhenFreed, PoolUnused
<1> QED
  BY <1>1, Inductive, PTL

\* An entry of the table is removed or displaced only as the code intends.
THEOREM EntriesAreKept == Spec => EntryKept
<1>1. ASSUME IInv, [Next]_vars
      PROVE  [\A d \in Data : bufs[d] # NoBuf /\ bufs'[d] # bufs[d] =>
                \/ bufs'[d] = NoBuf /\ refs[bufs[d]] = 0
                \/ bufs'[d] # NoBuf /\ ~isStatic[bufs[d]] /\ isStatic[bufs'[d]]]_vars
  <2> SUFFICES ASSUME NEW d \in Data, bufs[d] # NoBuf, bufs'[d] # bufs[d]
               PROVE  \/ bufs'[d] = NoBuf /\ refs[bufs[d]] = 0
                      \/ bufs'[d] # NoBuf /\ ~isStatic[bufs[d]] /\ isStatic[bufs'[d]]
    OBVIOUS
  <2>1. TypeOK /\ EntryInv(d)
    BY <1>1 DEF IInv
  <2>2. CASE CRYPTO_BUFFER_POOL_new
    <3>1. ~poolUp /\ live[bufs[d]] /\ pooled[bufs[d]] /\ bufs[d] \in Bufs
      BY <2>1, <2>2 DEF CRYPTO_BUFFER_POOL_new, EntryInv, TypeOK
    <3> QED
      BY <1>1, <3>1 DEF IInv, BufInv
  <2>3. ASSUME NEW t \in Threads, NewInsert(t)
        PROVE  bufs'[d] # NoBuf /\ ~isStatic[bufs[d]] /\ isStatic[bufs'[d]]
    <3>1. ThreadInv(t)
      BY <1>1 DEF IInv
    <3>2. ptr[t] \in Bufs /\ Private(t, ptr[t]) /\ want[t].data \in Data
      BY <2>3, <3>1 DEF NewInsert, ThreadInv, NewPCs
    <3>3. d = want[t].data /\ bufs'[d] = ptr[t] /\ isStatic' = isStatic
      BY <2>1, <2>3, <3>2 DEF NewInsert, TypeOK, heap
    <3>4. want[t].static /\ ~isStatic[bufs[d]]
      BY <2>3, <3>3 DEF NewInsert, FindDuplicate
    <3> QED
      BY <3>2, <3>3, <3>4, NullAssumption DEF Private
  <2>4. ASSUME NEW t \in Threads, FreeRemove(t)
        PROVE  bufs'[d] = NoBuf /\ refs[bufs[d]] = 0
    <3>1. Dying(t, ptr[t])
      BY <1>1, <2>4 DEF IInv, ThreadInv, FreeRemove
    <3> QED
      BY <2>1, <2>4, <3>1 DEF FreeRemove, TypeOK, Dying
  <2> QED
    BY <1>1, <2>2, <2>3, <2>4
    DEF Next, Step, vars, heap, lock, CRYPTO_BUFFER_new, NewLookup, NewFound, NewMissed,
        NewAlloc, NewAllocFails, NewInsertFails, NewLostRace, NewDiscard, CRYPTO_BUFFER_free,
        FreeDec, FreeLockDec, FreeObject, CRYPTO_BUFFER_up_ref, CRYPTO_BUFFER_POOL_free
<1> QED
  BY <1>1, Inductive, PTL DEF Spec, EntryKept

-------------------------------------------------------------------------------
(* The pool implements BufferStore.                                        *)

\* How a request that returns buffer a looks from outside.
LEMMA ReturnRefines ==
  ASSUME IInv, NEW t \in Threads, NEW a \in Bufs, pc[t] \in NewPCs,
         want[t].data \in Data,
         contents'[a] = want[t].data,
         owned[a] > 0 => contents[a] = want[t].data,
         pc' = [pc EXCEPT ![t] = "idle"],
         want' = [want EXCEPT ![t] = NoCall],
         owned' = [owned EXCEPT ![a] = @ + 1],
         \A b \in Bufs \ {a} : owned[b] > 0 => contents'[b] = contents[b]
  PROVE  Store!Return(t, a)
<1> USE NullAssumption
<1>1. TypeOK
  BY DEF IInv
<1>2. Pending[t] = want[t].data /\ Pending' = [Pending EXCEPT ![t] = NoData]
  BY <1>1 DEF Pending, TypeOK, NewPCs
<1>3. Visible[a] \in {NoData, want[t].data}
  BY DEF Visible
<1>4. \A b \in Bufs : owned'[b] = IF b = a THEN owned[b] + 1 ELSE owned[b]
  BY <1>1 DEF TypeOK
<1>5. Visible' = [Visible EXCEPT ![a] = want[t].data]
  <2>1. Visible' = [b \in Bufs |-> IF owned'[b] > 0 THEN contents'[b] ELSE NoData]
    BY DEF Visible
  <2>2. owned[a] + 1 > 0
    BY <1>1 DEF TypeOK
  <2> QED BY <1>4, <2>1, <2>2 DEF Visible
<1> QED
  BY <1>2, <1>3, <1>5 DEF Store!Return

\* How a request that fails looks from outside.
LEMMA FailRefines ==
  ASSUME IInv, NEW t \in Threads, pc[t] \in NewPCs, want[t].data \in Data,
         pc' = [pc EXCEPT ![t] = "idle"],
         want' = [want EXCEPT ![t] = NoCall],
         owned' = owned,
         \A b \in Bufs : owned[b] > 0 => contents'[b] = contents[b]
  PROVE  Store!Fail(t)
<1> USE NullAssumption
<1>1. TypeOK
  BY DEF IInv
<1>2. Pending[t] = want[t].data /\ Pending' = [Pending EXCEPT ![t] = NoData]
  BY <1>1 DEF Pending, TypeOK, NewPCs
<1>3. Visible' = Visible
  BY DEF Visible
<1> QED
  BY <1>2, <1>3 DEF Store!Fail

\* A step that changes neither the application's references nor what it can see,
\* and neither begins nor ends a request, is invisible.
LEMMA Invisible ==
  ASSUME IInv, NEW t \in Threads, want'[t] = want[t] \/ pc[t] \notin NewPCs,
         (pc'[t] \in NewPCs) <=> (pc[t] \in NewPCs),
         \A u \in Threads \ {t} : pc'[u] = pc[u] /\ want'[u] = want[u],
         owned' = owned,
         \A b \in Bufs : owned[b] > 0 => contents'[b] = contents[b]
  PROVE  UNCHANGED Store!vars
<1>1. Pending' = Pending
  BY DEF Pending
<1>2. Visible' = Visible
  BY DEF Visible
<1> QED
  BY <1>1, <1>2 DEF Store!vars

\* Every step of a thread is a step of BufferStore or invisible to it.
LEMMA StepRefines ==
  ASSUME IInv, NEW t \in Threads, Step(t)
  PROVE  [Store!Next]_(Store!vars)
<1> USE NullAssumption
<1>1. TypeOK /\ ThreadInv(t) /\ (pc[t] \in NewPCs => want[t].data \in Data)
  BY DEF IInv, ThreadInv
<1>2. ASSUME NEW d \in Data, NEW s \in BOOLEAN, NEW p \in BOOLEAN, CRYPTO_BUFFER_new(t, d, s, p)
      PROVE  Store!Request(t, d)
  <2>1. Pending[t] = NoData /\ Pending' = [Pending EXCEPT ![t] = d]
    BY <1>1, <1>2 DEF CRYPTO_BUFFER_new, Goto, Pending, TypeOK, NewPCs
  <2>2. Visible' = Visible /\ owned' = owned
    BY <1>2 DEF CRYPTO_BUFFER_new, Visible, heap
  <2> QED BY <2>1, <2>2 DEF Store!Request
<1>3. CASE NewLookup(t) \/ NewMissed(t) \/ NewInsertFails(t) \/ NewLostRace(t)
  <2>1. /\ pc[t] \in NewPCs /\ pc'[t] \in NewPCs /\ want' = want
        /\ owned' = owned /\ contents' = contents
        /\ \A u \in Threads \ {t} : pc'[u] = pc[u]
    BY <1>1, <1>3 DEF NewLookup, NewMissed, NewInsertFails, NewLostRace, Goto, TypeOK, NewPCs, heap
  <2> QED BY <2>1, Invisible
<1>4. CASE NewFound(t)
  <2>1. pc[t] = "new_found" /\ writer = NoThread /\ dup[t] # NoBuf /\ dup[t] = FindDuplicate(t)
    BY <1>1, <1>4 DEF NewFound, IInv, LockInv, ThreadInv
  <2>2. pc[t] \in NewPCs /\ want[t].data \in Data
    BY <1>1, <2>1 DEF NewPCs
  <2>3. PICK f \in Bufs : f = dup[t] /\ contents[f] = want[t].data
    BY <2>1, <2>2, LookupFinds
  <2>4. Store!Return(t, f)
    BY <1>4, <2>2, <2>3, ReturnRefines DEF NewFound, Goto, Finish, Give
  <2> QED BY <2>4 DEF Store!Next
<1>5. ASSUME NEW a \in Bufs, NewAlloc(t, a) PROVE [Store!Next]_(Store!vars)
  <2>1. pc[t] \in NewPCs /\ want[t].data \in Data /\ owned[a] = 0
    BY <1>1, <1>5 DEF NewAlloc, NewPCs, IInv, BufInv
  <2>2. contents'[a] = want[t].data /\ \A b \in Bufs \ {a} : contents'[b] = contents[b]
    BY <1>1, <1>5 DEF NewAlloc, TypeOK
  <2>3. CASE want[t].pool
    <3>1. /\ pc'[t] \in NewPCs /\ want' = want /\ owned' = owned
          /\ \A u \in Threads \ {t} : pc'[u] = pc[u]
      BY <1>1, <1>5, <2>3 DEF NewAlloc, Goto, TypeOK, NewPCs
    <3> QED BY <2>1, <2>2, <3>1, Invisible
  <2>4. CASE ~want[t].pool
    <3>1. /\ pc' = [pc EXCEPT ![t] = "idle"] /\ want' = [want EXCEPT ![t] = NoCall]
          /\ owned' = [owned EXCEPT ![a] = @ + 1]
      BY <1>5, <2>4 DEF NewAlloc, Goto, Finish, Give
    <3>2. owned[a] > 0 => contents[a] = want[t].data
      BY <2>1
    <3>3. \A b \in Bufs \ {a} : owned[b] > 0 => contents'[b] = contents[b]
      BY <2>2
    <3>4. Store!Return(t, a)
      BY <2>1, <2>2, <3>1, <3>2, <3>3, ReturnRefines
    <3> QED BY <3>4 DEF Store!Next
  <2> QED BY <2>3, <2>4
<1>6. CASE NewAllocFails(t)
  <2>1. Store!Fail(t)
    BY <1>1, <1>6, FailRefines DEF NewAllocFails, Goto, Finish, heap, NewPCs
  <2> QED BY <2>1 DEF Store!Next
<1>7. CASE NewInsert(t)
  <2>1. pc[t] \in NewPCs /\ want[t].data \in Data
    BY <1>1, <1>7 DEF NewInsert, NewPCs
  <2>2. PICK a \in Bufs : a = ptr[t] /\ contents[a] = want[t].data
    BY <1>1, <1>7 DEF NewInsert, ThreadInv, Private
  <2>3. Store!Return(t, a)
    BY <1>7, <2>1, <2>2, ReturnRefines DEF NewInsert, Goto, Finish, Give, heap
  <2> QED BY <2>3 DEF Store!Next
<1>8. CASE NewDiscard(t)
  <2>1. pc[t] \in NewPCs /\ want[t].data \in Data
    BY <1>1, <1>8 DEF NewDiscard, NewPCs
  <2>2. PICK a \in Bufs : a = ptr[t] /\ owned[a] = 0
    BY <1>1, <1>8 DEF NewDiscard, ThreadInv, Private
  <2>3. /\ pc' = [pc EXCEPT ![t] = "idle"] /\ want' = [want EXCEPT ![t] = NoCall]
        /\ \A b \in Bufs \ {a} : contents'[b] = contents[b]
    BY <1>1, <1>8, <2>2 DEF NewDiscard, Goto, Finish, crypto_buffer_free_object, TypeOK
  <2>4. CASE dup[t] = NoBuf
    <3>1. owned' = owned
      BY <1>8, <2>4 DEF NewDiscard
    <3>2. \A b \in Bufs : owned[b] > 0 => contents'[b] = contents[b]
      BY <2>2, <2>3
    <3>3. Store!Fail(t)
      BY <2>1, <2>3, <3>1, <3>2, FailRefines
    <3> QED BY <3>3 DEF Store!Next
  <2>5. CASE dup[t] # NoBuf
    <3>1. PICK f \in Bufs : f = dup[t] /\ f # a /\ contents[f] = want[t].data
      BY <1>1, <1>8, <2>2, <2>5 DEF NewDiscard, ThreadInv, TypeOK
    <3>2. owned' = [owned EXCEPT ![f] = @ + 1]
      BY <1>8, <2>5, <3>1 DEF NewDiscard, Give
    <3>3. \A b \in Bufs \ {f} : owned[b] > 0 => contents'[b] = contents[b]
      BY <2>2, <2>3
    <3>4. contents'[f] = want[t].data
      BY <2>3, <3>1
    <3>5. Store!Return(t, f)
      BY <2>1, <2>3, <3>1, <3>2, <3>3, <3>4, ReturnRefines
    <3> QED BY <3>5 DEF Store!Next
  <2> QED BY <2>4, <2>5
<1>9. ASSUME NEW a \in Bufs, CRYPTO_BUFFER_free(t, a) PROVE Store!Release(a)
  <2>1. Pending' = Pending
    BY <1>1, <1>9 DEF CRYPTO_BUFFER_free, Goto, Pending, TypeOK, NewPCs
  <2>2. owned[a] \in Nat \ {0} /\ owned' = [owned EXCEPT ![a] = @ - 1] /\ contents' = contents
    BY <1>1, <1>9 DEF CRYPTO_BUFFER_free, TypeOK, heap
  <2>3. \A b \in Bufs : owned'[b] = IF b = a THEN owned[b] - 1 ELSE owned[b]
    BY <1>1, <2>2 DEF TypeOK
  <2>4. Visible' = [Visible EXCEPT ![a] = IF owned[a] = 1 THEN NoData ELSE @]
    <3>1. Visible' = [b \in Bufs |-> IF owned'[b] > 0 THEN contents[b] ELSE NoData]
      BY <2>2 DEF Visible
    <3>2. owned[a] - 1 > 0 <=> owned[a] # 1
      BY <2>2
    <3> DEFINE After == [Visible EXCEPT ![a] = IF owned[a] = 1 THEN NoData ELSE @]
    <3>3. After = [b \in Bufs |-> IF b = a /\ owned[a] = 1 THEN NoData ELSE Visible[b]]
      BY DEF Visible
    <3>4. ASSUME NEW b \in Bufs PROVE Visible'[b] = After[b]
      <4>1. CASE b = a
        BY <2>2, <2>3, <3>1, <3>2, <3>3, <4>1 DEF Visible
      <4>2. CASE b # a
        BY <2>3, <3>1, <3>3, <4>2 DEF Visible
      <4> QED BY <4>1, <4>2
    <3> HIDE DEF After
    <3>5. Visible' = After
      BY <3>1, <3>3, <3>4
    <3> QED BY <3>5 DEF After
  <2> QED BY <2>1, <2>2, <2>4 DEF Store!Release
<1>10. CASE FreeDec(t) \/ FreeLockDec(t) \/ FreeRemove(t)
  <2>1. /\ pc[t] \notin NewPCs /\ pc'[t] \notin NewPCs
        /\ owned' = owned /\ contents' = contents
        /\ \A u \in Threads \ {t} : pc'[u] = pc[u] /\ want'[u] = want[u]
    BY <1>1, <1>10 DEF FreeDec, FreeLockDec, FreeRemove, Goto, Finish, TypeOK, NewPCs, heap
  <2> QED BY <2>1, Invisible
<1>11. CASE FreeObject(t)
  <2>1. /\ pc[t] \notin NewPCs /\ pc'[t] \notin NewPCs /\ owned' = owned
        /\ \A u \in Threads \ {t} : pc'[u] = pc[u] /\ want'[u] = want[u]
    BY <1>1, <1>11 DEF FreeObject, Goto, Finish, TypeOK, NewPCs
  <2>2. owned[ptr[t]] = 0 /\ \A b \in Bufs : b # ptr[t] => contents'[b] = contents[b]
    BY <1>1, <1>11 DEF FreeObject, crypto_buffer_free_object, ThreadInv, Dying, TypeOK
  <2> QED BY <2>1, <2>2, Invisible
<1> QED
  BY <1>2, <1>3, <1>4, <1>5, <1>6, <1>7, <1>8, <1>9, <1>10, <1>11 DEF Step, Store!Next

\* Whatever the interleaving of lookups, insertions, lost races and releases, the
\* pool shows its users nothing but BufferStore: every request fails or returns
\* the contents asked for, and they stay until the last reference is released.
THEOREM PoolImplementsStore == Spec => StoreSpec
<1>1. Init => Store!Init
  BY DEF Init, Store!Init, Pending, Visible, NewPCs
<1>2. ASSUME IInv, [Next]_vars PROVE [Store!Next]_(Store!vars)
  <2>1. TypeOK
    BY <1>2 DEF IInv
  <2>2. CASE \E t \in Threads : Step(t)
    BY <1>2, <2>2, StepRefines
  <2>3. ASSUME NEW a \in Bufs, CRYPTO_BUFFER_up_ref(a) PROVE Store!UpRef(a)
    <3>1. Pending' = Pending
      BY <2>3 DEF CRYPTO_BUFFER_up_ref, Pending
    <3>2. \A b \in Bufs : owned'[b] > 0 <=> owned[b] > 0
      BY <2>1, <2>3 DEF CRYPTO_BUFFER_up_ref, Give, TypeOK
    <3>3. Visible' = Visible
      BY <2>3, <3>2 DEF CRYPTO_BUFFER_up_ref, Visible
    <3> QED BY <2>3, <3>1, <3>3 DEF CRYPTO_BUFFER_up_ref, Give, Store!UpRef
  <2>4. CASE CRYPTO_BUFFER_POOL_free \/ CRYPTO_BUFFER_POOL_new \/ UNCHANGED vars
    <3>1. UNCHANGED <<pc, want, owned, contents>>
      BY <2>4 DEF CRYPTO_BUFFER_POOL_free, CRYPTO_BUFFER_POOL_new, vars, heap
    <3> QED BY <3>1 DEF Store!vars, Pending, Visible
  <2> QED
    BY <1>2, <2>2, <2>3, <2>4 DEF Next, Store!Next
<1> QED
  BY <1>1, <1>2, Inductive, PTL DEF Spec, StoreSpec, Store!Spec
===============================================================================
