------------------------------ MODULE BufferPool ------------------------------
(***************************************************************************)
(* CRYPTO_BUFFER and CRYPTO_BUFFER_POOL: crypto/pool/pool.c, with the      *)
(* reference counts of crypto/refcount_c11.c and the hash table of         *)
(* crypto/lhash/lhash.c it is built on.                                    *)
(*                                                                         *)
(* Threads create, duplicate and free buffers of one pool concurrently.    *)
(* A step of a thread ends where another thread may intervene: at a lock   *)
(* operation, or at an atomic operation on a reference count.              *)
(***************************************************************************)
EXTENDS Naturals, FiniteSets

CONSTANTS
  Threads,   \* callers of the library
  Bufs,      \* addresses the allocator hands out for CRYPTO_BUFFER objects
  Data,      \* byte strings (data, len)
  RefMax,    \* CRYPTO_REFCOUNT_MAX, where a count saturates
  MaxOwned,  \* bound: the application stops acquiring at this many references
  NoBuf,     \* NULL pointer to a CRYPTO_BUFFER
  NoThread,  \* no thread holds the pool's lock for writing
  NoData     \* no contents

ASSUME ThreadsFinite == IsFiniteSet(Threads)
ASSUME RefMaxAssumption == RefMax \in Nat /\ RefMax > 1
ASSUME BoundAssumption == MaxOwned \in Nat
ASSUME NullAssumption == NoBuf \notin Bufs /\ NoThread \notin Threads /\ NoData \notin Data

VARIABLES
  \* Heap: one object per address.
  live,      \* [Bufs -> BOOLEAN]: the address is allocated
  contents,  \* [Bufs -> Data \cup {NoData}]: buf->data, buf->len
  isStatic,  \* [Bufs -> BOOLEAN]: buf->data_is_static
  pooled,    \* [Bufs -> BOOLEAN]: buf->pool is not NULL
  refs,      \* [Bufs -> 0..RefMax]: buf->references
  \* The pool.
  poolUp,    \* the pool exists
  bufs,      \* [Data -> Bufs \cup {NoBuf}]: pool->bufs, by contents
  readers,   \* pool->lock held for reading
  writer,    \* pool->lock held for writing, or NoThread
  \* The threads.
  pc,        \* where each thread is
  want,      \* arguments of the call to crypto_buffer_new in progress
  ptr,       \* local: |buf|, the buffer created here or being freed
  dup,       \* local: |duplicate|
  \* The application.
  owned      \* [Bufs -> Nat]: references it has been given and not yet freed

heap == <<live, contents, isStatic, pooled, refs>>
lock == <<readers, writer>>
vars == <<heap, poolUp, bufs, lock, pc, want, ptr, dup, owned>>

NewPCs == {"new_lookup", "new_found", "new_alloc", "new_insert", "new_discard"}
FreePCs == {"free_dec", "free_lock", "free_remove", "free_object"}
Calls == [data : Data \cup {NoData}, static : BOOLEAN, pool : BOOLEAN]

\* Every variable has its type; in particular a count never exceeds CRYPTO_REFCOUNT_MAX,
\* where CRYPTO_refcount_inc saturates.
TypeOK ==
  /\ live \in [Bufs -> BOOLEAN]
  /\ contents \in [Bufs -> Data \cup {NoData}]
  /\ isStatic \in [Bufs -> BOOLEAN]
  /\ pooled \in [Bufs -> BOOLEAN]
  /\ refs \in [Bufs -> 0..RefMax]
  /\ poolUp \in BOOLEAN
  /\ bufs \in [Data -> Bufs \cup {NoBuf}]
  /\ readers \subseteq Threads
  /\ writer \in Threads \cup {NoThread}
  /\ pc \in [Threads -> {"idle"} \cup NewPCs \cup FreePCs]
  /\ want \in [Threads -> Calls]
  /\ ptr \in [Threads -> Bufs \cup {NoBuf}]
  /\ dup \in [Threads -> Bufs \cup {NoBuf}]
  /\ owned \in [Bufs -> Nat]

NoCall == [data |-> NoData, static |-> FALSE, pool |-> FALSE]

Init ==
  /\ live = [b \in Bufs |-> FALSE]
  /\ contents = [b \in Bufs |-> NoData]
  /\ isStatic = [b \in Bufs |-> FALSE]
  /\ pooled = [b \in Bufs |-> FALSE]
  /\ refs = [b \in Bufs |-> 0]
  /\ poolUp = TRUE
  /\ bufs = [d \in Data |-> NoBuf]
  /\ readers = {}
  /\ writer = NoThread
  /\ pc = [t \in Threads |-> "idle"]
  /\ want = [t \in Threads |-> NoCall]
  /\ ptr = [t \in Threads |-> NoBuf]
  /\ dup = [t \in Threads |-> NoBuf]
  /\ owned = [b \in Bufs |-> 0]

-------------------------------------------------------------------------------
(* Building blocks.                                                        *)

\* CRYPTO_refcount_inc: the compare-and-swap loop takes effect atomically; a
\* saturated count stays where it is.
CRYPTO_refcount_inc(n) == IF n = RefMax THEN n ELSE n + 1

\* Faulty variant: a saturated count can still go down.
DecFromMax(n) == n - 1

\* CRYPTO_refcount_dec_and_test_zero: the new count; zero is the only result
\* that lets the caller destroy the object.  Called on zero it aborts.
CRYPTO_refcount_dec(n) == IF n = RefMax THEN n ELSE n - 1

\* CRYPTO_MUTEX_lock_read / lock_write can be acquired.
CanLockRead == writer = NoThread
CanLockWrite == writer = NoThread /\ readers = {}

\* lh_CRYPTO_BUFFER_retrieve, and the rule that a request for static data
\* does not settle for a copy on the heap.
FindDuplicate(t) ==
  LET found == bufs[want[t].data] IN
  IF found # NoBuf /\ want[t].static /\ ~isStatic[found] THEN NoBuf ELSE found

Goto(t, label) == pc' = [pc EXCEPT ![t] = label]

\* A call returns: its locals are gone.
Finish(t) ==
  /\ Goto(t, "idle")
  /\ want' = [want EXCEPT ![t] = NoCall]
  /\ ptr' = [ptr EXCEPT ![t] = NoBuf]
  /\ dup' = [dup EXCEPT ![t] = NoBuf]

\* The application is given one reference to b.
Give(b) == owned' = [owned EXCEPT ![b] = @ + 1]

\* crypto_buffer_free_object: OPENSSL_free cleanses the object and releases it.
crypto_buffer_free_object(b) ==
  /\ live' = [live EXCEPT ![b] = FALSE]
  /\ contents' = [contents EXCEPT ![b] = NoData]
  /\ isStatic' = [isStatic EXCEPT ![b] = FALSE]
  /\ pooled' = [pooled EXCEPT ![b] = FALSE]
  /\ refs' = [refs EXCEPT ![b] = 0]

\* Bound: the application stops acquiring references.
MayAcquire == \A b \in Bufs : owned[b] < MaxOwned

-------------------------------------------------------------------------------
(* crypto_buffer_new, through CRYPTO_BUFFER_new, _new_from_CBS and         *)
(* _new_from_static_data_unsafe; CRYPTO_BUFFER_alloc is the case without a *)
(* pool and without static data.                                           *)

CRYPTO_BUFFER_new(t, d, s, p) ==
  /\ pc[t] = "idle"
  /\ MayAcquire
  /\ p => poolUp
  /\ want' = [want EXCEPT ![t] = [data |-> d, static |-> s, pool |-> p]]
  /\ Goto(t, IF p THEN "new_lookup" ELSE "new_alloc")
  /\ UNCHANGED <<heap, poolUp, bufs, lock, ptr, dup, owned>>

\* Take the lock for reading and look for a buffer with these contents.
NewLookup(t) ==
  /\ pc[t] = "new_lookup"
  /\ CanLockRead
  /\ readers' = readers \cup {t}
  /\ dup' = [dup EXCEPT ![t] = FindDuplicate(t)]
  /\ Goto(t, "new_found")
  /\ UNCHANGED <<heap, poolUp, bufs, writer, want, ptr, owned>>

\* Found one: take a reference under the read lock and return it.
NewFound(t) ==
  /\ pc[t] = "new_found"
  /\ dup[t] # NoBuf
  /\ refs' = [refs EXCEPT ![dup[t]] = CRYPTO_refcount_inc(@)]
  /\ readers' = readers \ {t}
  /\ Give(dup[t])
  /\ Finish(t)
  /\ UNCHANGED <<live, contents, isStatic, pooled, poolUp, bufs, writer>>

NewMissed(t) ==
  /\ pc[t] = "new_found"
  /\ dup[t] = NoBuf
  /\ readers' = readers \ {t}
  /\ Goto(t, "new_alloc")
  /\ UNCHANGED <<heap, poolUp, bufs, writer, want, ptr, dup, owned>>

\* Allocate and fill in an object with one reference; without a pool this is
\* the result of the call.
NewAlloc(t, b) ==
  /\ pc[t] = "new_alloc"
  /\ ~live[b]
  /\ live' = [live EXCEPT ![b] = TRUE]
  /\ contents' = [contents EXCEPT ![b] = want[t].data]
  /\ isStatic' = [isStatic EXCEPT ![b] = want[t].static]
  /\ pooled' = [pooled EXCEPT ![b] = want[t].pool]
  /\ refs' = [refs EXCEPT ![b] = 1]
  /\ \/ /\ ~want[t].pool
        /\ Give(b)
        /\ Finish(t)
     \/ /\ want[t].pool
        /\ ptr' = [ptr EXCEPT ![t] = b]
        /\ Goto(t, "new_insert")
        /\ UNCHANGED <<want, dup, owned>>
  /\ UNCHANGED <<poolUp, bufs, lock>>

\* The allocator returns NULL.
NewAllocFails(t) ==
  /\ pc[t] = "new_alloc"
  /\ Finish(t)
  /\ UNCHANGED <<heap, poolUp, bufs, lock, owned>>

\* Faulty variant: the lookup is not repeated under the write lock.
InsertBlindly(t) ==
  /\ pc[t] = "new_insert"
  /\ CanLockWrite
  /\ bufs' = [bufs EXCEPT ![want[t].data] = ptr[t]]
  /\ Give(ptr[t])
  /\ Finish(t)
  /\ UNCHANGED <<heap, poolUp, lock>>

\* Under the write lock the lookup is repeated.  No duplicate: the new buffer
\* goes into the table, displacing a heap copy if there is one.
NewInsert(t) ==
  /\ pc[t] = "new_insert"
  /\ CanLockWrite
  /\ FindDuplicate(t) = NoBuf
  /\ bufs' = [bufs EXCEPT ![want[t].data] = ptr[t]]
  /\ Give(ptr[t])
  /\ Finish(t)
  /\ UNCHANGED <<heap, poolUp, lock>>

\* lh_CRYPTO_BUFFER_insert needs memory only for contents not in the table.
NewInsertFails(t) ==
  /\ pc[t] = "new_insert"
  /\ CanLockWrite
  /\ bufs[want[t].data] = NoBuf
  /\ Goto(t, "new_discard")
  /\ UNCHANGED <<heap, poolUp, bufs, lock, want, ptr, dup, owned>>

\* Faulty variant: the winner's buffer is returned without a new reference.
LostRaceNoRef(t) ==
  /\ pc[t] = "new_insert"
  /\ CanLockWrite
  /\ FindDuplicate(t) # NoBuf
  /\ dup' = [dup EXCEPT ![t] = FindDuplicate(t)]
  /\ Goto(t, "new_discard")
  /\ UNCHANGED <<heap, poolUp, bufs, lock, want, ptr, owned>>

\* Another thread inserted these contents first: use its buffer.
NewLostRace(t) ==
  /\ pc[t] = "new_insert"
  /\ CanLockWrite
  /\ FindDuplicate(t) # NoBuf
  /\ dup' = [dup EXCEPT ![t] = FindDuplicate(t)]
  /\ refs' = [refs EXCEPT ![FindDuplicate(t)] = CRYPTO_refcount_inc(@)]
  /\ Goto(t, "new_discard")
  /\ UNCHANGED <<live, contents, isStatic, pooled, poolUp, bufs, lock, want, ptr, owned>>

\* Faulty variant: the buffer that was not inserted is forgotten.
DiscardLeaks(t) ==
  /\ pc[t] = "new_discard"
  /\ \/ dup[t] # NoBuf /\ Give(dup[t])
     \/ dup[t] = NoBuf /\ UNCHANGED owned
  /\ Finish(t)
  /\ UNCHANGED <<heap, poolUp, bufs, lock>>

\* After the unlock: destroy the buffer that was not inserted and return the
\* duplicate, or NULL.
NewDiscard(t) ==
  /\ pc[t] = "new_discard"
  /\ crypto_buffer_free_object(ptr[t])
  /\ \/ dup[t] # NoBuf /\ Give(dup[t])
     \/ dup[t] = NoBuf /\ UNCHANGED owned
  /\ Finish(t)
  /\ UNCHANGED <<poolUp, bufs, lock>>

-------------------------------------------------------------------------------
(* CRYPTO_BUFFER_free and CRYPTO_BUFFER_up_ref.                            *)

\* The reference passes from the application to the call.
CRYPTO_BUFFER_free(t, b) ==
  /\ pc[t] = "idle"
  /\ owned[b] > 0
  /\ owned' = [owned EXCEPT ![b] = @ - 1]
  /\ ptr' = [ptr EXCEPT ![t] = b]
  /\ Goto(t, IF pooled[b] THEN "free_lock" ELSE "free_dec")
  /\ UNCHANGED <<heap, poolUp, bufs, lock, want, dup>>

\* Without a pool: plain reference counting.
FreeDec(t) ==
  /\ pc[t] = "free_dec"
  /\ refs[ptr[t]] > 0
  /\ refs' = [refs EXCEPT ![ptr[t]] = CRYPTO_refcount_dec(@)]
  /\ \/ refs'[ptr[t]] = 0 /\ Goto(t, "free_object") /\ UNCHANGED <<want, ptr, dup>>
     \/ refs'[ptr[t]] # 0 /\ Finish(t)
  /\ UNCHANGED <<live, contents, isStatic, pooled, poolUp, bufs, lock, owned>>

\* Faulty variant: the count is decremented first, and the lock taken only to
\* remove the buffer.
DecThenLock(t) ==
  /\ pc[t] = "free_lock"
  /\ refs[ptr[t]] > 0
  /\ refs' = [refs EXCEPT ![ptr[t]] = CRYPTO_refcount_dec(@)]
  /\ \/ /\ refs'[ptr[t]] = 0
        /\ Goto(t, "free_remove")
        /\ UNCHANGED <<want, ptr, dup>>
     \/ /\ refs'[ptr[t]] # 0
        /\ Finish(t)
  /\ UNCHANGED <<live, contents, isStatic, pooled, poolUp, bufs, lock, owned>>

\* With a pool: the decrement happens under the write lock, which is kept only
\* if the count reached zero.
FreeLockDec(t) ==
  /\ pc[t] = "free_lock"
  /\ CanLockWrite
  /\ refs[ptr[t]] > 0
  /\ refs' = [refs EXCEPT ![ptr[t]] = CRYPTO_refcount_dec(@)]
  /\ \/ /\ refs'[ptr[t]] = 0
        /\ writer' = t
        /\ Goto(t, "free_remove")
        /\ UNCHANGED <<want, ptr, dup>>
     \/ /\ refs'[ptr[t]] # 0
        /\ Finish(t)
        /\ UNCHANGED writer
  /\ UNCHANGED <<live, contents, isStatic, pooled, poolUp, bufs, readers, owned>>

\* Faulty variants: the entry stays behind; the entry goes even if it is not ours.
RemoveNothing(t) ==
  /\ pc[t] = "free_remove"
  /\ writer' = NoThread
  /\ Goto(t, "free_object")
  /\ UNCHANGED <<heap, poolUp, bufs, readers, want, ptr, dup, owned>>

RemoveAny(t) ==
  /\ pc[t] = "free_remove"
  /\ bufs' = [bufs EXCEPT ![contents[ptr[t]]] = NoBuf]
  /\ writer' = NoThread
  /\ Goto(t, "free_object")
  /\ UNCHANGED <<heap, poolUp, readers, want, ptr, dup, owned>>

\* Remove the buffer unless a static version displaced it, and unlock.
FreeRemove(t) ==
  LET d == contents[ptr[t]] IN
  /\ pc[t] = "free_remove"
  /\ bufs' = [bufs EXCEPT ![d] = IF @ = ptr[t] THEN NoBuf ELSE @]
  /\ writer' = NoThread
  /\ Goto(t, "free_object")
  /\ UNCHANGED <<heap, poolUp, readers, want, ptr, dup, owned>>

\* After the unlock, the object goes.
FreeObject(t) ==
  /\ pc[t] = "free_object"
  /\ crypto_buffer_free_object(ptr[t])
  /\ Finish(t)
  /\ UNCHANGED <<poolUp, bufs, lock, owned>>

\* The caller owns a reference for the duration of the call.
CRYPTO_BUFFER_up_ref(b) ==
  /\ owned[b] > 0
  /\ owned[b] < MaxOwned
  /\ refs' = [refs EXCEPT ![b] = CRYPTO_refcount_inc(@)]
  /\ Give(b)
  /\ UNCHANGED <<live, contents, isStatic, pooled, poolUp, bufs, lock, pc, want, ptr, dup>>

-------------------------------------------------------------------------------
(* The pool itself.                                                        *)

\* No call that touches the pool is running, and every pooled buffer is gone.
PoolUnused ==
  /\ \A t \in Threads : pc[t] = "idle"
  /\ \A b \in Bufs : live[b] => ~pooled[b]

\* CRYPTO_BUFFER_POOL_free; its caller must have released every buffer.
CRYPTO_BUFFER_POOL_free ==
  /\ poolUp
  /\ PoolUnused
  /\ poolUp' = FALSE
  /\ UNCHANGED <<heap, bufs, lock, pc, want, ptr, dup, owned>>

CRYPTO_BUFFER_POOL_new ==
  /\ ~poolUp
  /\ poolUp' = TRUE
  /\ bufs' = [d \in Data |-> NoBuf]
  /\ readers' = {}
  /\ writer' = NoThread
  /\ UNCHANGED <<heap, pc, want, ptr, dup, owned>>

-------------------------------------------------------------------------------
Step(t) ==
  \/ \E d \in Data, s \in BOOLEAN, p \in BOOLEAN : CRYPTO_BUFFER_new(t, d, s, p)
  \/ NewLookup(t)
  \/ NewFound(t)
  \/ NewMissed(t)
  \/ \E b \in Bufs : NewAlloc(t, b)
  \/ NewAllocFails(t)
  \/ NewInsert(t)
  \/ NewInsertFails(t)
  \/ NewLostRace(t)
  \/ NewDiscard(t)
  \/ \E b \in Bufs : CRYPTO_BUFFER_free(t, b)
  \/ FreeDec(t)
  \/ FreeLockDec(t)
  \/ FreeRemove(t)
  \/ FreeObject(t)

Next ==
  \/ \E t \in Threads : Step(t)
  \/ \E b \in Bufs : CRYPTO_BUFFER_up_ref(b)
  \/ CRYPTO_BUFFER_POOL_free
  \/ CRYPTO_BUFFER_POOL_new

Spec == Init /\ [][Next]_vars

-------------------------------------------------------------------------------
(* Correctness.                                                            *)

\* The threads that carry one reference to b in their local variables.
Holders(b) ==
  {t \in Threads :
     \/ pc[t] \in {"free_dec", "free_lock", "new_insert"} /\ ptr[t] = b
     \/ pc[t] = "new_discard" /\ b \in {ptr[t], dup[t]}}

\* The threads that are destroying b because they saw its count reach zero.
Destroyers(b) == {t \in Threads : pc[t] \in {"free_remove", "free_object"} /\ ptr[t] = b}

\* The count of a buffer is the number of references that the application and
\* the running calls of crypto_buffer_new and CRYPTO_BUFFER_free hold, until it
\* saturates: a reference is neither lost nor counted twice, whatever the races
\* between lookup, insertion and release.
RefcountExact ==
  \A b \in Bufs : live[b] =>
    refs[b] = RefMax \/ refs[b] = owned[b] + Cardinality(Holders(b))

\* A buffer that the application or a running call can still dereference is
\* allocated, and its count is not zero: CRYPTO_refcount_dec_and_test_zero never
\* aborts, and CRYPTO_BUFFER_free never destroys what a lookup just returned.
NoUseAfterFree ==
  /\ \A b \in Bufs : owned[b] > 0 \/ Holders(b) # {} => live[b] /\ refs[b] > 0
  /\ \A t \in Threads : pc[t] = "new_found" /\ dup[t] # NoBuf =>
       live[dup[t]] /\ refs[dup[t]] > 0

\* The pool never holds a dangling pointer (the table does not count as a
\* reference), and files every buffer under its own contents.
TableSound ==
  \A d \in Data : bufs[d] # NoBuf =>
    live[bufs[d]] /\ pooled[bufs[d]] /\ contents[bufs[d]] = d

\* At most one thread destroys a buffer, and nobody else refers to it.
DestroyedOnce ==
  \A b \in Bufs : \A t \in Destroyers(b) :
    live[b] /\ owned[b] = 0 /\ Holders(b) = {} /\ Destroyers(b) = {t}

\* Racing requests for the same static data share one buffer: two static
\* buffers with the same contents are never both in the application's hands.
OneStaticPerContents ==
  \A b, c \in Bufs :
    /\ owned[b] > 0 /\ pooled[b] /\ isStatic[b]
    /\ owned[c] > 0 /\ pooled[c] /\ isStatic[c]
    /\ contents[b] = contents[c]
    => b = c

\* Once every call has returned, a buffer nobody owns is deallocated, unless its
\* count saturated.
NoLeak ==
  (\A t \in Threads : pc[t] = "idle") =>
    \A b \in Bufs : live[b] /\ owned[b] = 0 => refs[b] = RefMax

\* When CRYPTO_BUFFER_POOL_free may be called it finds the table empty, as its assertion
\* demands: no order of racing insertions and releases leaves an entry behind.
PoolEmptyWhenFreed == PoolUnused => \A d \in Data : bufs[d] = NoBuf

\* A buffer leaves the table only when its last reference is gone or when a
\* static copy of the same contents takes the place of a heap copy.
EntryKept ==
  [][\A d \in Data : bufs[d] # NoBuf /\ bufs'[d] # bufs[d] =>
       \/ bufs'[d] = NoBuf /\ refs[bufs[d]] = 0
       \/ bufs'[d] # NoBuf /\ ~isStatic[bufs[d]] /\ isStatic[bufs'[d]]]_vars

\* The abstract view: a request is pending while crypto_buffer_new runs, and a buffer can
\* be seen while owned.
Pending == [t \in Threads |-> IF pc[t] \in NewPCs THEN want[t].data ELSE NoData]
Visible == [b \in Bufs |-> IF owned[b] > 0 THEN contents[b] ELSE NoData]

Store == INSTANCE BufferStore WITH pending <- Pending, visible <- Visible

\* The pool implements what include/openssl/pool.h promises of a CRYPTO_BUFFER: every
\* call of crypto_buffer_new returns its contents or fails, and they last while owned.
StoreSpec == Store!Spec
===============================================================================
