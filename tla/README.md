# TLA+ specifications of AWS-LC's stateful core

AWS-LC is a cryptographic library (libcrypto) with a TLS stack (libssl). Most of
it is arithmetic, parsing and encoding, where functional-correctness proofs and
tests are the right tools. This project is about the rest: the parts whose
correctness depends on the *order* of steps, taken by several threads, by the
kernel, by a peer or by a network.

The tests of the library say themselves why such a project is useful:
"Ideally we would run this test under a tool that could search all
interleavings" (`crypto/pool/pool_test.cc:164`).

Contents: [inventory](#1-inventory), [plan](#2-plan),
[the modules](#3-the-modules-and-the-code), [runs](#4-runs),
[bounds](#5-bounds), [fairness](#6-fairness), [proofs](#7-proofs),
[findings](#8-where-code-and-comments-disagree),
[limits](#9-what-is-not-modelled). Paths are relative to the repository's root.

## 1. Inventory

### libcrypto: state shared by threads

| Part | State | Operations | Interacts with | Hard | What makes it correct |
|---|---|---|---|---|---|
| Buffers and pools (`crypto/pool`) | per buffer: contents, reference count, static flag, pool; per pool: hash table, rwlock | new, alloc, up_ref, free, pool new/free | reference counts (`refcount_c11.c`), `lhash.c`, used by `ssl/` for certificates | lookup under the read lock races with the last release; lookup and insertion are two critical sections; displacement by static data | counts exact, no dangling entry, no double free, sharing, no leak |
| UBE detection (`crypto/ube`) | generation number, cached numbers of two detectors, fork page, SysGenID mapping | `CRYPTO_get_ube_generation_number` | kernel (page wipe), hypervisor (counter), Rand | numbers read outside the lock; kernel changes the page at any instruction | a number is never reused across an event; no event counted twice; a call returns |
| Randomness front end (`fipsmodule/rand/rand.c`) | per thread and kind: CTR-DRBG, generation number, entropy source, list links, lock; process: list, list lock, shutdown flag | `RAND_bytes` and variants, thread destructor, library destructor | UBE detection, entropy sources, thread-local storage | UBE inside a call; lock dropped while entropy is sourced; thread exit against process exit | unique output; no output after zeroisation; list sound; nobody blocks for ever |
| Entropy sources (`rand/entropy`) | selected source; tree of DRBGs: global lock, per-thread seed DRBG, jitter source | initialise, get seed, zeroise | Rand, UBE detection | a UBE between caching the generation number and the reseed; zeroisation of a thread's DRBG without a lock | a seed is no older than the call that returned it |
| RSA blinding cache (`fipsmodule/rsa/rsa_impl.c`) | array of blindings, in-use flags, fork generation, mutex | get, release, flush | UBE (fork) detection | array and flags grow while operations hold old blindings without the lock; an update fails half way; lazy freezing of the key | a blinding serves one operation at a time and unblinds what it blinded; no factor is used twice, not even by parent and child |
| Hash table, ex_data, allocator, locks, once, thread-local data | buckets; callback lists; process-wide mutexes | insert, retrieve, delete, resize; get index; set/get thread-local | everything | rebucketing; index registration racing with use; destructors at thread exit | map semantics; destructors run once |
| Error queue (`crypto/err`) | per thread ring of 16 entries with marks and text, saved states, suppression scopes | put, get, peek, mark, pop, save, restore | everything | overflow drops the oldest entry with its mark; text lent to callers; restore over a used ring | bounded-FIFO semantics; one owner per string |
| BIO pair (`crypto/bio/pair.c`) | two ring buffers, request sizes, closed flags | read, write, ctrl, shutdown | libssl, application | wrap-around, full and empty, close with data left | a FIFO channel in each direction |
| FIPS service indicator, self tests | counter with nested lock; status | lock, unlock, update | all approved services | unbalanced lock on an error path | counted once per outermost approved call |
| EVP, ciphers, digests, bignum, curves, post-quantum, ASN.1, X.509, PKCS, PEM | mostly none beyond one call | - | - | data, not order | out of scope |

### libssl: protocol state machines

| Part | State | Operations | Hard | What makes it correct |
|---|---|---|---|---|
| DTLS record layer (`ssl/dtls_record.cc`, `d1_pkt.cc`) | epochs, sequence numbers, replay window of 256 bits | seal, open | loss, duplication, reordering | no record delivered twice, window never rejects what is new |
| DTLS handshake transport (`ssl/d1_both.cc`, `d1_lib.cc`) | incoming fragments by slot, outgoing flight, timer | get message, add message, send flight, timeout | fragments of several messages at once, retransmission racing an answer, partial writes | messages delivered once and in order; progress on a fair network |
| TLS record layer (`ssl/s3_pkt.cc`, `tls_record.cc`, `ssl_buffer.cc`) | read and write buffers, pending write, alert state | read, write, shutdown, alerts | retry of a write with a pending record | no byte lost, repeated or reordered |
| Session cache (`ssl/ssl_session.cc`) | hash table and linked list, under one lock; reference counts | add, remove, lookup, flush | a session looked up is replaced, evicted or expires before it is used | reference counts exact; table and list agree; bounded size; no valid session removed |
| Handshakes (`ssl/handshake*.cc`, `tls13_*.cc`) | state enums, wait conditions | do_handshake | asynchronous retries re-enter a state | states in order, no step done twice |
| Handoff, extensions, certificates, key schedule | configuration, encodings | - | data | out of scope |

`tool/`, `generated-src/`, `third_party/` and `util/` are tools, build products
and vendored code. `PROJECT.json` lists every part with its status, and under
`hazards` each place where the order of events can go wrong, with the property
that would catch it.

## 2. Plan

Done:

1. `BufferStore` (abstract), `BufferPool`, `BufferPoolProofs`.
2. `Ube`, proved in `EntropyProofs`.
3. `Rand`, built on what `Ube` promises; `RandProofs`.
4. `TreeDrbg`, also in `EntropyProofs`: the default entropy source; what `Rand` assumes
   about seeds becomes a checked and proved fact.
5. `RsaBlinding`, `RsaBlindingProofs`.
6. `DtlsRecord`, proved in `DtlsProofs`: the replay window over a network that loses,
   repeats, reorders and injects.
7. `DtlsHandshake`, also in `DtlsProofs`: two endpoints over such a network, with liveness.
8. `BytePipe` (abstract) and `BioPair`, `BioPairProofs`; `ErrLog` (abstract) and
   `ErrQueue`, `ErrQueueProofs`.
9. `SessionCache`, `SessionCacheProofs`.

Left, in this order:

10. The TLS record layer (a write retried with a pending record, alerts, shutdown),
    refining a byte stream.
11. `lhash` rebucketing (refining a map), `ex_data`, the nesting of the service
    indicator.
12. The states of the TLS handshakes, in outline: their order and their asynchronous
    retries.

## 3. The modules and the code

| Module | Models | Role |
|---|---|---|
| `BufferStore` | the promise of `include/openssl/pool.h` | abstract specification |
| `BufferPool` | `crypto/pool/pool.c`, `crypto/refcount_c11.c`, use of `crypto/lhash` | detailed specification |
| `Ube` | `crypto/ube/{ube,fork_ube_detect,vm_ube_detect}.c` | detailed specification |
| `Rand` | `crypto/fipsmodule/rand/rand.c` | detailed specification |
| `TreeDrbg` | `crypto/fipsmodule/rand/entropy/tree_drbg_jitter_entropy.c` | detailed specification |
| `RsaBlinding` | `crypto/fipsmodule/rsa/{rsa_impl,blinding}.c` | detailed specification |
| `DtlsRecord` | `ssl/dtls_record.cc`, with `dtls_method.cc` and the alerts of `tls_record.cc` | detailed specification |
| `DtlsHandshake` | `ssl/{d1_both,d1_lib,d1_pkt,dtls_method}.cc` | detailed specification of two endpoints and the network |
| `BytePipe` | the promise of `include/openssl/bio.h` about BIO pairs | abstract specification |
| `BioPair` | `crypto/bio/pair.c`, its callers in `bio.c` | detailed specification |
| `ErrLog` | the promise of `include/openssl/err.h` | abstract specification |
| `ErrQueue` | `crypto/err/err.c` | detailed specification |
| `SessionCache` | `ssl/ssl_session.cc` | detailed specification |
| `MC...` | | model-checking instances |
| `...Proofs` | | inductive invariants and theorems: `BufferPoolProofs`, `RandProofs`, `RsaBlindingProofs`, `BioPairProofs`, `ErrQueueProofs`, `SessionCacheProofs`, `EntropyProofs` (`TreeDrbg` and `Ube`), `DtlsProofs` (`DtlsHandshake` and `DtlsRecord`) |

`PROJECT.json` maps each definition to the lines it stands for. Operators called
"Faulty variant" are plausible mistakes in the code next to the definition they
would replace; each makes a property fail, which shows that the property sees
that code. No specification uses them.

### BufferPool

The heap is a function per field of `CRYPTO_BUFFER`; the pool's hash table is a
function from contents to address. A step of a thread ends at a lock operation
or at an atomic operation on a count, because there others can intervene;
code between two such points touches only private memory or memory the lock
protects.

`crypto_buffer_new` is `CRYPTO_BUFFER_new` (the call), `NewLookup` (read lock and
lookup), `NewFound` or `NewMissed` (take a reference, unlock), `NewAlloc` or
`NewAllocFails`, `NewInsert`, `NewInsertFails` or `NewLostRace` (write lock and
second lookup), and `NewDiscard` (destroy the spare copy after the unlock).
`CRYPTO_BUFFER_free` is `CRYPTO_BUFFER_free`, then `FreeDec` without a pool, or
`FreeLockDec` and `FreeRemove` with one, then `FreeObject`. Freed memory is
cleansed, so fields go back to their initial values. `owned` counts what the
application was given: it is the contract between library and caller, and the
ghost part of the model. Allocation may fail at each place that the code allows.

The pool may be destroyed and created again once no call is running and no
buffer refers to it. That the table is empty then is not immediate: an empty
table does not mean that no buffer refers to the pool (a displaced heap copy is
not in the table), and the converse is `PoolEmptyWhenFreed`.

### Ube

One address space. `WipePage` and `ResumeVm` are the kernel and the hypervisor,
at any moment. The section under `fork_detect_ube_lock` and the one under the
read side of `ube_lock` are single steps; the write side spans two detector
reads and the update. `highest`, `floor` and `low` are history variables that
record what a call has to return (`Fresh`).

The late failures of `CRYPTO_get_ube_generation_number` (`ube_failed`, reached
from `ube.c:226` and `ube.c:249`) have no action: `FailedLate` is their guard,
and `NeverFailsLate`, proved for all instances, says that it is never true. In particular
the unlock on the way out at `ube.c:251` is never reached: a method that worked at
initialisation goes on working.
Not modelled: the wrap of the 32-bit SysGenID and the 64-bit fork number, and
the `FOR_TESTING` overrides.

### Rand

Random bits are abstracted to their *era*. Eras are separated by UBEs; material
drawn in an earlier era is known to another copy of the address space. Mixing
gives the youngest era of what is mixed, a zeroised DRBG has era 0, and a
buffer of several chunks is as old as its oldest chunk. What `RAND_bytes` returns
is unique exactly if its era is the current one.

`RAND_bytes` starts a call for one of the thread's states; `InitGn`, `InitSource`,
`InitSeed`, `InitDrbg` and `thread_local_list_add_node` are the first call's
`rand_state_initialize`; the actions named after the functions of `rand.c` follow,
ending in `rand_ensure_valid_state`, which is taken as the moment of release:
nothing can be checked after the last check. `ThreadExit`,
`rand_thread_local_state_free` and `Gone` are thread exit with the destructors
in any order (a superset of the order of thread-local keys), also for a thread
killed while it initialises. `ClearStart` to `ClearEnd` are
`rand_thread_local_state_clear_all`; its second call does nothing and is no step.

Assumptions about the neighbours, which are modelled by what `rand.c` relies on:

- the UBE number is read atomically and two reads are equal iff no UBE happened
  between them. `Ube` justifies this: `Fresh` says a read after an event is
  greater, `NoRedundantIncrement` that it grows only for events. `available` is
  chosen once, since detection never fails late (`NeverFailsLate`). UBEs that
  the platform's methods cannot detect are outside this promise;
- a seed is drawn in the era in which it is requested, except the first one,
  which may be as old as the initialisation of the source. For the default source
  this is `SeedFresh` of `TreeDrbg`: a seed is no older than the call;
- a zeroised source returns fresh bytes (Unix) or zeros (Windows shared builds);
- prediction resistance given by the user counts as no entropy at all;
- failures of allocation or of the entropy source call `abort()` and end every
  behaviour, so they are not steps;
- a thread that clears its thread-local data and goes on counts as a new thread.

`ListSound` says that the list is a chain by an order of its members (`InOrder`): the head
has none before it, and the links of each member are its neighbours in that order.

`CRYPTO_MUTEX_lock_read` by a thread that holds the lock for writing either
blocks or aborts (`AbortInLock`): POSIX allows both.

### TreeDrbg

The same abstraction to eras, one level down: a seed DRBG per thread, one global
seed DRBG behind `global_seed_drbg_lock`, Jitter Entropy at the root. `glob` and
`drbg[t]` are records of the era of the entropy in a DRBG, the generation number it
carries, and `reseed_counter`. A call of `tree_jitter_initialize` or
`tree_jitter_get_seed` is split wherever a UBE or another thread matters: before the
number is sampled, before the lock, between the check that caches the number and the
root seed, between that and the reseed, and before the prediction resistance.
`detected` is chosen once. Zeroisation reseeds a thread's DRBG without a lock while
its thread may be inside `CTR_DRBG_reseed` or `CTR_DRBG_generate`; the outcome of that
race is any era up to the current one, and the properties about a thread's DRBG speak
of those that were not zeroised.

### RsaBlinding

Every region under `rsa->lock` is one step; blinding, exponentiation and unblinding
run outside it. A factor is the number of its random base and how often it was squared;
`A` is the factor that blinds and `Ai` the factor that its value undoes, so that an
update which fails half way leaves the two apart. `rsa_blinding_get` finds a free slot,
grows the array (with each of its failures) or creates an uncached blinding;
`bn_blinding_update` squares, redraws or fails; `Fork` gives the child a copy of the
cache, and `spent` records the factors the parent will use. `freeze_private_key`
is the double-checked initialisation of the precomputed components, next to
`BN_MONT_CTX_set_locked` on the public modulus.

### DtlsRecord

One direction of a connection. `records` holds every record ever sealed, named by its
epoch and sequence number; it is never emptied, so any record may arrive never, late,
again or out of order. `dtls_open_record` opens any of them, or a record that the peer
never sent and that fails to authenticate, in the code's order: epoch, window,
authentication, recording, alerts. `dtls_seal_record` seals in the current epoch
or, for a retransmission, in the previous one. `acc`, `opened` and `sealed` are history
variables. `dtls_seal_record` detects a counter that is about to wrap only when it
increments it after sealing; `NumbersNotReused` is therefore stated up to the first
seal that reports the overflow. After that the counter has wrapped and nothing in the record
layer stops a caller that ignores the error: that half is not claimed. `Open` is
`SSLAEADContext::Open` as an ideal AEAD.

### DtlsHandshake

Two endpoints follow the scripts of a full or a resumed DTLS 1.2 handshake: which
messages form a flight, where ChangeCipherSpec is, who finishes last. `Run` is
`SSL_do_handshake` up to the next point where it waits, `Receive` is one record given
to `dtls1_open_handshake` or `dtls1_open_app_data`, and `DTLSv1_handle_timeout` an
expired timer. `net[e]` holds every record ever sent to `e`. Messages are cut into
fragments of a size that drops to the fallback MTU after some timeouts, and are
reassembled in slots modulo `SSL_MAX_HANDSHAKE_FLIGHT`. `Cuts` starts every message with a full
fragment; in `seal_next_packet` records that share a packet leave less room for the next one and
so move the boundaries. Reassembly takes the union of the ranges that arrived, wherever they
were cut; its bit operations (`bit_range`) are modelled by that union. The transport may refuse a write in
the middle of a flight, or the flush after it; the flight goes on from there when the
caller comes back. The clock is left out: a timer that is set may expire at any time.

### BioPair and BytePipe

`BioPair` has the two ring buffers with offset, length and read request, the shutdown
flags, and the retry flags and the `init` test of `bio.c`; every call is one step, because
the pair has no lock and leaves synchronisation to its callers. `BytePipe` is two
bounded queues. Under the mapping `Contents` (the bytes from the offset, around the
ring) every call is a call of the abstract module with the same outcome (`PipeSpec`).
Positions that were never written hold `Uninit`, and what a read returns is part of
`TypeOK`: it is bytes, never what `OPENSSL_malloc` left there.

### ErrQueue and ErrLog

`ErrQueue` has the ring with its stale slots, the heap of strings, `to_free`, one saved
state and the suppression depth. `lent` is the data pointer that the caller was last given
and may still use. `ErrLog` is a sequence of the last `ERR_NUM_ERRORS - 1` errors.
`LogSteps` says more than refinement: each call is the abstract call of that name.

### SessionCache

The table, the doubly linked list with its sentinels and the reference counts, under
`ctx->lock`; each critical section is one step, and a connection keeps between its steps
only the session it holds. `FullHandshake`, `ssl_update_cache`, `AutoFlush` and `Notify` are a
new session, `Lookup`, `Store`, `CheckTime` and `RemoveExpired` a resumption (the second from
the external cache). Only a new session goes through `ssl_update_cache` (`FinishHandshake`, for
`do_finish_server_handshake`); a connection that resumes one keeps the reference of its lookup.
One that finds its session unsuitable for other reasons drops it and makes a new one, which is
`Close` followed by `FullHandshake`. The configuration is the one in which all the code runs:
`session_cache_mode` has `SSL_SESS_CACHE_SERVER` and none of `NO_INTERNAL_STORE`,
`NO_INTERNAL_LOOKUP` and `NO_AUTO_CLEAR`, both callbacks are set, and sessions are resumable
and have an ID (`ssl_session.cc:781-788`, `ssl_session.cc:795`). `FlushedAt` leaves out the test
for a sum `time + timeout` that wraps in 64 bits (`ssl_session.cc:1172`), false for the times a
clock shows. The size of the cache changes at run time, sessions expire, and
IDs collide. `Evicted` and `Flushed` are the two loops that remove several sessions under the
lock, as recursive functions over the number of rounds. `ListMatchesTable` says that there is
no cycle without following links: every non-empty set of cached sessions has a member whose
successor is outside the set.

## 4. Runs

| Run | Configuration | What it shows |
|---|---|---|
| `pool` | `MCBufferPool.cfg` | `RefcountExact`, `NoUseAfterFree`, `OneStaticPerContents`, `NoLeak`, `PoolEmptyWhenFreed`; the pool implements `BufferStore` (`StoreSpec`); an entry leaves the table only for cause (`EntryKept`) |
| `ube` | `MCUbe.cfg` | `Fresh`, `NoRedundantIncrement`, `NeverFailsLate`; every call returns (`CallReturns`) |
| `rand_unique` | `MCRandUnique.cfg` | `OutputUnique` with two UBEs anywhere, with and without detection |
| `rand_shutdown` | `MCRandShutdown.cfg` | `ListSound`, `Zeroised`, `NoFreeWhileLocked`, `NoOutputAfterClear`: thread exit, kills and first calls against zeroisation |
| `rand_liveness` | `MCRandLive.cfg` | `ExitReturns`, `ClearReturns` |
| `tree_drbg` | `MCTreeDrbg.cfg` | no DRBG carries a number newer than its entropy (`Associated`); a seed is no older than its call (`SeedFresh`) |
| `rsa_blinding` | `MCRsaBlinding.cfg` | `Exclusive`, `CacheExact`, `Unblinds`, `NoFactorReused`, `KeyStable` under failures anywhere, fork and invalidation |
| `dtls_record` | `MCDtlsRecord.cfg` | `NoReplay`, `OnlyReplaysDiscarded`, `NumbersNotReused` |
| `dtls_handshake` | `MCDtlsHandshake.cfg` | two honest ends never fail each other (`NoSpuriousFailure`), the last flight is kept as long as it may be needed (`LastFlightKept`), nobody waits for ever (`BothEnd`) |
| `bio_pair` | `MCBioPair.cfg` | the comment at `bio_bio_st` (`StructComment`); refinement of `BytePipe` (`PipeSpec`) |
| `err_queue` | `MCErrQueue.cfg` | one owner per string (`OneOwner`), lent data stays valid (`LentValid`), call by call a log (`LogSteps`) |
| `session_cache` | `MCSessionCache.cfg` | `RefsExact`, `ListMatchesTable`, `BoundedAfterAdd`, `OnlyExpiredRemoved` |

All of them pass. To repeat one: `tlc -config MCBufferPool.cfg MCBufferPool`. Deadlock is
checked except where the system may stop: in `Rand`, all threads may have exited, the
process may have aborted, and blocking for ever is what the code intends after shutdown;
a handshake ends; both halves of a BIO pair may be freed; a DTLS connection ends with an
alert or an overflow. The type invariants are checked as the first conjunct of an
invariant of the run or, for `BufferPool`, `Ube` and `DtlsRecord`, proved.

## 5. Bounds

- Threads: two, and three for RSA (two that hold blindings and one that grows the cache
  or freezes the key). The races involve a winner and a loser.
- `pool`: three addresses, so that a displaced heap copy, the static buffer and the spare
  copy of a lost race exist at once; two contents. `RefMax` = 3 makes saturation reachable
  (the code: 2^32-1).
- `ube`: `MaxEvents` = 3: one event that is detected, one that falls into its detection,
  and one after both.
- `rand_*` and `tree_drbg`: at most three eras, i.e. two UBEs. `MaxChunks` = 2 and
  `kCtrDrbgReseedInterval` = 2 (the code: 2^16 bytes and 4096 calls) make a request
  cross the interval between its chunks. `MaxThread` = 1 and `MaxGlobal` = 2 (the code:
  2^20 and 2^24) make both DRBGs reach their limits, separately and together.
  There is no bound on the number of calls. The shutdown run has one era, because
  zeroisation does not depend on UBEs, and both kinds of state per thread, so that the list
  has up to four members.
- `rsa_blinding`: three objects for a cache of at most two (1024), so that an uncached
  blinding is needed; `Counter` = 2 (32) so that factors are squared and redrawn; two random
  bases, one fork, two Montgomery contexts.
- `dtls_record`: four numbers per epoch (2^48) with a window of three (256), so that the
  window slides, records fall out of it, and counters overflow; three epochs; injected
  records before, inside and beyond what was sent.
- `dtls_handshake`: three slots (7), flights of up to three messages, two timeouts (12)
  before giving up and one before the fragments shrink, two refused writes (`MaxBlock`). Messages of two
  bytes are sent whole and later in two fragments.
- `bio_pair`: buffers of three bytes and one, calls of up to two: wrap-around in the middle
  of a call, and exactly full. `err_queue`: three slots (16), two strings: the ring
  overflows and allocation fails.
- `session_cache`: two connections, three sessions and IDs, sizes 1 and 3; a session lives
  for one tick of two; a flush every second handshake (255).

Symmetry is used where the constants are interchangeable and no liveness is checked.

## 6. Fairness

- `Ube`: weak fairness for a thread that is inside the library. The scheduler runs
  every thread, and critical sections contain no waiting. Whether a thread calls
  again, and whether events happen, is not assumed.
- `Rand`: weak fairness for a thread inside the library, and strong fairness for
  `ClearOne`, the acquisition of one `state_clear_lock` for writing. Weak fairness is
  not enough: the owner of the state takes and releases the lock for reading again and
  again, so the acquisition is not continuously enabled. The lock has one possible
  reader, and a waiting writer gets the lock when that reader lets go. This is a
  property of the platform's lock, not of `rand.c`.
- `DtlsHandshake`: weak fairness for `Run` and `DTLSv1_handle_timeout` of each end: the
  application comes back to a connection that wants to write and calls
  `DTLSv1_handle_timeout` when its timer has expired, as `include/openssl/ssl.h` demands.
  Nothing is assumed of the network: both ends finish or give up even if all is lost. What a
  transport refuses to take is bounded by `MaxBlock`, though: each call of `dtls1_flush_flight`
  starts the timer anew before it writes (`d1_both.cc:703`), so with a transport that refuses
  for ever the timer need never expire, and `BothEnd` says nothing of it.
- The liveness runs of `Rand` contain no fork: the child of a multi-threaded process inherits
  locks that nobody will release, and POSIX promises such a child little.

## 7. Proofs

TLAPS checks these for every value of the constants; the assumptions are
`ThreadsFinite`, `RefMaxAssumption` (a count can reach 2), `BoundAssumption` and
`NullAssumption` in `BufferPool`, `UbeAssumption` in `Ube`, `RecordAssumption` in
`DtlsRecord`, `RsaAssumption` in `RsaBlinding`, `TreeAssumption` in `TreeDrbg`,
`RandAssumption` in `Rand`, `PairAssumption` in `BioPair`, `ErrAssumption` in `ErrQueue`,
`HandshakeAssumption` in `DtlsHandshake` and `CacheAssumption` in `SessionCache`: limits are
positive numbers, null values, sentinels and the mark of uninitialised memory are not
objects, what is counted (threads, keys, connections, IDs) is finite, and a flight of the
handshakes modelled (three messages) is not longer than the window. The code defines the
window, `SSL_MAX_HANDSHAKE_FLIGHT`, as the length of its longest flight.

`EntropyProofs` is about `TreeDrbg` and `Ube`, `DtlsProofs` about `DtlsHandshake` and
`DtlsRecord`: each extends two modules that model two layers of one subsystem. Names both
would have (`Init`, `Next`, `Spec`, ...) carry a prefix in `Ube` and `DtlsRecord`.

**BufferPoolProofs.** Theorem `Inductive` is `Spec => []IInv`; all others follow.
`IInv` strengthens the invariants by what the program counters mean:

- `LockInv`: who holds the lock. Readers are exactly the threads between lookup and
  unlock; the writer is the thread between "count reached zero" and "entry removed".
- `ThreadInv`: a buffer not yet inserted is *private* to its creator (one reference,
  not in the table), and a buffer whose count reached zero is *dying* in the hands of
  exactly one thread.
- `BufInv`: `RefcountExact` per buffer, and a count of zero has a destroyer.
- `EntryInv`: an entry of the table has a positive count unless the writer is about
  to remove it. This is the fact that makes the increment under the read lock safe:
  while there is a reader there is no writer, so what a lookup finds is referenced.
- `StaticInv`: a static buffer is in the table from insertion to removal.

The proof has one lemma per action. `PoolImplementsStore` shows the refinement
step by step: `NewFound`, `NewInsert`, `NewAlloc` without a pool and `NewDiscard` of a
lost race map to `Return`, the failures to `Fail`, everything else to `Request`,
`UpRef`, `Release` or a stutter. The invariant is needed for `Return`: the buffer
given out is fresh or shows the same contents. `TypeCorrect`, `TableIsSound` and
`OnlyOneDestroys` are proved and not part of a run.

**EntropyProofs, Ube.** `UbeIInv` adds to the properties: `UbeOnceInv` (how far the
initialisation is), `UbeCountInv` (cached numbers are never ahead of the detectors, and neither these
nor the generation number count more than the events), `UbeFloorInv` (a floor above the
generation number means an event that is still undetected) and `UbeCallInv` (the same
for each running call, depending on what it has read so far). `FreshAfterUbe`,
`CountsEachUbeOnce` and `DetectionLasts` follow. Nothing in the proof needs a bound on
the number of events.

**DtlsProofs, DtlsRecord.** The theorems hold for the window of 256 bits and the 2^48 numbers
of the code, which no run reaches. `NothingReplayed` and `WindowIsExact` rest on
`WindowInv`: bit `i` of the map is set exactly if number `max_seq_num - i` was opened in
this epoch, and nothing above `max_seq_num` was. `NumbersAreFresh` rests on `SealInv`: every
number in use lies below the next one of the current epoch, and either below the next
one of the previous epoch or in the current one; lemmas about epochs (`EpochsApart`,
`PreviousEpoch`) keep their numbers apart.

**DtlsProofs, DtlsHandshake.** `NoSpuriousFailure` is about every record the network may
deliver at any time, so the invariant has to say what records there can be. The handshake of
an end is a fixed script; tables over its positions (`ReadAt`, `WriteAt`, `FlightAt` and their
epochs) say what an end has read, sent and collected where it stands, and lemma `Tables`
proves them against every position of the four scripts. `IInv` then relates the state to them:

- `PosOK`, `ReadOK`, `WriteOK`, `FlightOK`: an end's sequence numbers, epochs and flight are
  those of its position; the flight is gone only at the end of the handshake, and not at
  the end that sends last;
- `NetOK`: every record on its way is part of a message its sender's script contains, with
  its number, epoch and length, and none of a Finished that was not sent yet;
- `SlotsOK`: what waits in the window to be read is such a message, of the epoch being read,
  in its slot. At the change of cipher only the Finished is left to be read, and it is of the
  next epoch, so all slots are empty and `dtls1_set_read_state` never finds excess data;
- `CausalOK`: an end has read its peer's Finished only if the peer has come to send it;
- `ReplyOK` and `TimerOK`: what retransmission and the timer rest on.

The proof follows the calls: one lemma for each thing an end can do (`AddOne` and the other
senders, `OpenKeeps` for a record that arrives, `NextMessageKeeps`, `SetReadStateKeeps`,
`CompleteKeeps`, `TimeoutKeeps`). Nothing in it depends on the MTU, on how fragments overlap, on the
number of timeouts or on how often a write is refused. `NeverFails` and `FlightKept` follow;
for the latter, `CausalOK` says that an end that is done has a peer with a Finished on its way,
which `FlightOK` finds in the flight.

**ErrQueueProofs.** `IInv` gives each string one owner (`OwnInv`), which has not been freed
(`LiveInv`), and each allocated string an owner (`LeakInv`). The slots outside the queue are
owners too: `ERR_restore_state` leaves old data there, which `ERR_put_error` frees when it
comes round. `LentInv` says that a pointer handed out belongs to the queue or to `to_free` and
not to the saved state: freeing a saved state does not invalidate it. `EachStringOwnedOnce`
and `LentDataValid` follow. The refinement is the larger part. `Ring` and `Positions` turn
the remainders of the code into two functions, position to slot (`At`) and back (`Dist`), for a
ring of any size; `Lists` says that a sequence shows the ring from the oldest error to the
newest. Then there is one lemma per call. `PutLogs` treats the full ring, in which all errors
move up one position and the oldest is gone, and `PopToMarkLogs` and `RestoreLogs` show that
freeing and duplicating strings changes no text that is still to be seen.
`RingImplementsLog` is `LogSteps`: each call is the abstract call of the same name, which
implies the refinement of `LogSpec`.

**RsaBlindingProofs.** The parts of the invariant:

- `KeyInv`: whoever uses the key finds its components complete;
- `HoldInv`: an operation works with a live object of the current generation, which is
  either in its slot, marked in use, or outside the cache;
- `CacheInv`: the cache holds different live objects, a slot in use has its operation,
  and every live object is cached or held;
- `PairInv`: unless the next update draws a new base anyway, `A` and `Ai` of a live object
  belong together and were squared at most as often as it counts;
- `SpentInv`: bases are drawn once, and what an object of the current generation uses
  next lies after everything that was used of its base, by this process or its parent.

`OneUser`, `CacheIsExact`, `UnblindsWhatItBlinded`, `FactorsAreFresh` and `KeyIsStable`
follow. Growth needs that the new array begins with the old one, and that none of the
objects appended is held.

**EntropyProofs, TreeDrbg.** `LockInv` (one thread at most works on the global DRBG), `CountInv` (a
DRBG is reseeded before its limit), `GenInv` (numbers are not ahead of the eras), `SeedInv`
(what is at hand for a reseed is as fresh as the number already cached), `CallInv` (a call
has compared the number since it began, or has drawn prediction resistance) and
`AssocInv`. The two theorems are `AssociatedAlways` and `SeedsAreFresh`; `SeedInv` is the
heart of both: it says why caching the number *before* the reseed it asks for is safe.

**RandProofs.** The properties are about shutdown and about eras, and so is `IInv`:

- `Owned`: a thread initialises its state, registers it, uses it, and frees it once at most;
- `ClearLock` and `ListLock`: who holds `state_clear_lock` and the lock of the list, also in
  the child of a fork, where the holder is gone. A reader excludes a writer, writers come
  with shutdown only, and a state registered after it is born locked;
- `Chained`: one order of the listed states explains the links, and what the two loops of
  `rand_thread_local_state_clear_all` have not done yet is not before their position
  (`Swept`). Both are about the *same* order, which is why it is quantified once: removing a
  state moves those behind it up (`ChainShrinks`), adding one moves all down (`ChainGrows`);
- `Wiped`: a listed state that is locked for writing has a zeroised DRBG;
- `Past`, `Recent`, `Young`: what a call has at hand, and a state between two calls, is at
  least as young as the generation number it carries, or without UBE detection as the
  beginning of the call; unless it must be reseeded or was locked for ever.

`ListStaysSound`, `ClearedMeansZeroised`, `LockedIsNotFreed`, `OutputStaysUnique` and
`NothingAfterClear` follow. The last is an action property: a call about to
release output holds its lock for reading (`ClearLock`), and after zeroisation every listed
state is locked for writing (`Wiped`).

**BioPairProofs.** `IInv` says that each half is sound (`Half`: numbers in range, offset zero
when empty, no read request when data waits, nothing in an unconnected half, and the bytes
in use were written), and that both halves are connected or neither. The refinement is the
larger part: `FillAppends` and `DrainTakes` treat one `memcpy` and `Appends` and `Removes` the
two of a call that wraps around: for every size and offset, `Contents` grows by exactly
what was accepted and loses exactly what was returned. `PairImplementsPipe` then maps each
call to the abstract call, and `CommentHolds` is the comment in the source.

**SessionCacheProofs.** Most lemmas are about the cache as a value, so that they serve every
action. `Sound` says that the table finds a session under its own ID (`Indexed`) and that the
list holds exactly the sessions of the table (`Chain`). `RemovedLinks` and `AddedLinks` reduce
the cases of `SSL_SESSION_list_remove` and `SSL_SESSION_list_add` to one formula for all links;
`Unlinked` and `Linked` conclude that a chain stays a chain. `Outside` is a session's count
without the cache's own reference: removal, eviction, replacement and flush leave it alone
(`Removed`, `EvictedKeeps`, `ReplacedKeeps`, `FlushedKeeps`), which is why `Owned` (everybody but
the cache owns one reference) is kept by all of them. `IInv` adds that held sessions were
created in the past and that a connection about to remove its session has seen it expired;
the clock only moves forward. `EvictedKeeps` also shows that the head survives: the loop
stops before it since the limit is positive. This gives `BoundedByAdding`.

The two loops run as often as there are sessions to remove, so they need induction. It is
done without an induction principle: the set of rounds for which a claim fails has a least
element (`LeastNumber`, from the well-foundedness of the order on numbers), which is then
refuted from the round before it. `EvictionSteps` and `FlushSteps` first show in the same way
that the recursive functions exist and meet their equations.

The invariants of `ErrQueue` and `DtlsHandshake` were checked with TLC on the instances of
section 5 before they were proved (for `DtlsHandshake` all parts but `Shape`, whose sets of
records cannot be enumerated).

Only model-checked is liveness (`CallReturns`, `ExitReturns`, `ClearReturns`, `BothEnd`), since
the proof system does not treat fairness. The other 36 of the 40 properties of the runs are
stated by theorems.

## 8. Where code and comments disagree

While modelling, what comments say was stated as a property of the model, and TLC refuted
these. None of them breaks a property of section 4; the list is for whoever edits the
comments.

1. `crypto/ube/internal.h:15` calls the UBE generation number "non-zero"; it starts at 0
   (`ube.c:102`, `ube.c:129`) and the first call returns 0. Callers use 0 for
   "unavailable" too (`rand.c:421`); this is harmless because unavailability is final.
2. "To ensure no secret state is left, globally clear all thread-local states"
   (`rand.c:72-74`). A state that is being initialised while
   `rand_thread_local_state_clear_all` runs is not in the list; `add_node` later locks it
   for ever (`rand.c:206`), so it yields no output (`NoOutputAfterClear` holds), but its
   seeded DRBG is not cleared.
3. A state created after shutdown is said to make later calls "block forever on the read
   lock" (`rand.c:202-203`). The thread itself holds that lock for writing (`rand.c:207`),
   and `pthread_rwlock_rdlock` may return `EDEADLK`, on which `CRYPTO_MUTEX_lock_read`
   aborts (`thread_pthread.c:31-35`).
4. `rsa_impl.c:191` says that the arrays of blindings are "extended by a extra element";
   they are doubled (`rsa_impl.c:235-245`).
5. `ssl/internal.h:902` describes a window of 64 sequence numbers; the map is a
   `bitset<256>` (`ssl/internal.h:907`).
6. `BIO_should_retry` returns zero after "a permanent error"
   (`include/openssl/bio.h:162-164`); a call on a BIO that is not initialised fails before
   the flags are cleared (`bio.c:218-221`, `bio.c:298-301`), so an earlier retry stays
   visible.
7. `include/openssl/bio.h:810-812` says that destroying a pair "resets their state";
   `bio_destroy_pair` (`pair.c:49-79`) leaves the read request and the closed flag.
8. `include/openssl/ssl.h:2454-2455`: flushing at a time removes the sessions that have
   expired by it; the comparison is strict (`ssl_session.cc:1173`), so a session whose time
   is just over stays, though `ssl_session_is_time_valid` (`ssl_session.cc:476`) rejects it.

## 9. What is not modelled

The modules cover a small share of the repository's lines. Most of the code is lookup
tables, arithmetic, assembly, ciphers, encodings and parsers, tools and generated
files: large data and no order of events, for which a model checker over small instances
says nothing; the headers declare and document. What carries state over several calls and
is not modelled yet is in the plan. In what is modelled, these are left out:

- Memory ordering weaker than sequential consistency: shared data is accessed under
  locks or with atomic operations whose order the code relies on as such.
- The cryptography: a CTR-DRBG is its era, a blinding factor its history, a record its
  number, contents are values.
- Several pools, several RSA keys, several contexts at once: they share no state.
- Platform code behind locks, once, thread-local storage, `mmap` and entropy.
- A UBE after the last check of `RAND_bytes` (`rand.c:568`), which no code can see; and
  the child of a multi-threaded fork, which inherits locks of threads it does not have.
- `TreeDrbg`: the choice between entropy sources, the retries of Jitter Entropy (they
  abort in the end), and the release of the global DRBG by the library destructor.
- `ErrQueue`: code that sets a mark around code that sets one on the same error. In the
  model as in `err.c:726` this is one mark, and the inner `ERR_pop_to_mark` takes it.
- `SessionCache`: `remove_session_cb`, which the code calls under `ctx->lock`
  (`ssl_session.cc:661`) and which therefore must not come back to the cache; tickets; the
  fields and the encoding of a session.
- `DtlsHandshake`: application data that is sent, the durations of timers, renegotiation
  and HelloVerifyRequest.
- The parts marked "not_modelled" in `PROJECT.json`, each with its reason.
