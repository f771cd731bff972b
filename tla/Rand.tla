--------------------------------- MODULE Rand ---------------------------------
(***************************************************************************)
(* The randomness front end: crypto/fipsmodule/rand/rand.c.                *)
(*                                                                         *)
(* One address space.  Every thread has a DRBG state per key ("private",   *)
(* "public"), created by its first call, registered in a doubly-linked     *)
(* list, freed by the thread's destructor, and locked and zeroised when    *)
(* the process exits.  Meanwhile uniqueness-breaking events (UBE) happen:  *)
(* this address space is the copy that a fork or a VM clone made.          *)
(*                                                                         *)
(* Random bits are abstracted to their era: eras are separated by UBEs,    *)
(* and what was drawn in an earlier era is known to another copy.  Mixing  *)
(* yields the youngest era of what is mixed; zeroised memory has era 0.    *)
(***************************************************************************)
EXTENDS Naturals, FiniteSets

CONSTANTS
  Threads,
  Keys,                   \* OPENSSL_THREAD_LOCAL_PRIVATE_RAND, ..._PUBLIC_RAND
  kCtrDrbgReseedInterval,
  MaxChunks,              \* bound: chunks of CTR_DRBG_MAX_GENERATE_LENGTH per call
  MaxEras,                \* bound: number of eras
  PredResistance,         \* the entropy source has get_prediction_resistance
  NoThread,
  Null

Nodes == Threads \X Keys

ASSUME RandAssumption ==
  /\ kCtrDrbgReseedInterval \in Nat \ {0}
  /\ MaxChunks \in Nat \ {0}
  /\ MaxEras \in Nat \ {0}
  /\ PredResistance \in BOOLEAN
  /\ IsFiniteSet(Threads) /\ NoThread \notin Threads
  /\ IsFiniteSet(Keys) /\ Keys # {}
  /\ Null \notin Nodes

VARIABLES
  \* Environment.
  era,
  available,  \* UBE detection works
  aborted,    \* "no", or the reason for abort(): "ube", "lock"
  \* Process-wide state.
  head,       \* thread_states_list_head
  listLock,   \* thread_local_states_list_lock: holder, if it spans steps
  shutdown,   \* thread_local_drbg_shutdown_started
  \* struct rand_thread_local_state, by node.
  stage,      \* "none", "unlisted" (allocated), "listed", "late" (shutdown won), "freed"
  drbg,       \* era of the CTR-DRBG state
  calls,      \* generate_calls_since_seed
  gn,         \* generation_number
  source,     \* entropy_source: "none", "live", "zeroized"
  next, previous,
  reading,    \* state_clear_lock held by its thread for reading
  writer,     \* state_clear_lock held for writing by, or NoThread
  \* Threads.
  pc,
  key,        \* the state in use is <<t, key[t]>>
  fresh,      \* ctr_drbg_state_is_fresh
  must,       \* must_reseed_before_generate
  seed,       \* era of the local seed
  pr,         \* era of the local pred_resistance
  left,       \* chunks still to generate
  out,        \* oldest era of the chunks in the caller's buffer
  begun,      \* history: era in which the call started
  pos,        \* clear_all: the state the loop is at
  todo        \* thread exit: keys whose destructor has not run

env == <<era, available, aborted>>
list == <<head, next, previous, stage>>
locks == <<listLock, shutdown, writer>>
state == <<drbg, calls, gn, source>>
locals == <<key, fresh, must, seed, pr, left, out, begun>>
exits == <<pos, todo>>
vars == <<env, list, locks, reading, state, pc, locals, exits>>

PCs == {"idle", "init_gn", "init_source", "init_seed", "init_drbg", "add", "unique", "pred",
        "lock", "loop", "seed", "relock", "valid", "clear", "zeroize", "exit", "gone"}
Initialising == {"init_gn", "init_source", "init_seed", "init_drbg", "add"}
Stages == {"none", "unlisted", "listed", "late", "freed"}

\* Every variable has its type; in particular generate_calls_since_seed "must be bounded
\* by kCtrDrbgReseedInterval", also when a request crosses the interval.
TypeOK ==
  /\ era \in 1..MaxEras /\ available \in BOOLEAN /\ aborted \in {"no", "ube", "lock"}
  /\ head \in Nodes \cup {Null}
  /\ listLock \in Threads \cup {NoThread}
  /\ shutdown \in BOOLEAN
  /\ stage \in [Nodes -> Stages]
  /\ drbg \in [Nodes -> 0..MaxEras]
  /\ calls \in [Nodes -> 0..kCtrDrbgReseedInterval]
  /\ gn \in [Nodes -> 0..MaxEras]
  /\ source \in [Nodes -> {"none", "live", "zeroized"}]
  /\ next \in [Nodes -> Nodes \cup {Null}] /\ previous \in [Nodes -> Nodes \cup {Null}]
  /\ reading \in [Nodes -> BOOLEAN]
  /\ writer \in [Nodes -> Threads \cup {NoThread}]
  /\ pc \in [Threads -> PCs] /\ key \in [Threads -> Keys]
  /\ fresh \in [Threads -> BOOLEAN] /\ must \in [Threads -> BOOLEAN]
  /\ seed \in [Threads -> 0..MaxEras] /\ pr \in [Threads -> 0..MaxEras]
  /\ left \in [Threads -> 0..MaxChunks]
  /\ out \in [Threads -> 0..MaxEras] /\ begun \in [Threads -> 0..MaxEras]
  /\ pos \in [Threads -> Nodes \cup {Null}]
  /\ todo \in [Threads -> SUBSET Keys]

Init ==
  /\ era = 1 /\ available \in BOOLEAN /\ aborted = "no"
  /\ head = Null /\ listLock = NoThread /\ shutdown = FALSE
  /\ stage = [n \in Nodes |-> "none"]
  /\ drbg = [n \in Nodes |-> 0]
  /\ calls = [n \in Nodes |-> 0]
  /\ gn = [n \in Nodes |-> 0]
  /\ source = [n \in Nodes |-> "none"]
  /\ next = [n \in Nodes |-> Null] /\ previous = [n \in Nodes |-> Null]
  /\ reading = [n \in Nodes |-> FALSE]
  /\ writer = [n \in Nodes |-> NoThread]
  /\ pc = [t \in Threads |-> "idle"]
  /\ key = [t \in Threads |-> CHOOSE k \in Keys : TRUE]
  /\ fresh = [t \in Threads |-> FALSE] /\ must = [t \in Threads |-> FALSE]
  /\ seed = [t \in Threads |-> 0] /\ pr = [t \in Threads |-> 0]
  /\ left = [t \in Threads |-> 0]
  /\ out = [t \in Threads |-> 0] /\ begun = [t \in Threads |-> 0]
  /\ pos = [t \in Threads |-> Null]
  /\ todo = [t \in Threads |-> {}]

Goto(t, label) == pc' = [pc EXCEPT ![t] = label]
State(t) == <<t, key[t]>>
Youngest(a, b) == IF a > b THEN a ELSE b
Oldest(a, b) == IF a < b THEN a ELSE b

-------------------------------------------------------------------------------
(* Uniqueness-breaking events.                                             *)

\* The address space was copied and this is the copy, threads and all.
VmClone ==
  /\ era < MaxEras
  /\ era' = era + 1
  /\ UNCHANGED <<available, aborted, list, locks, reading, state, pc, locals, exits>>

\* This is the child of a fork by thread t.  The other threads do not exist, and the
\* locks they held stay locked.
Fork(t) ==
  /\ era < MaxEras
  /\ pc[t] = "idle"
  /\ era' = era + 1
  /\ pc' = [u \in Threads |-> IF u = t THEN "idle" ELSE "gone"]
  /\ UNCHANGED <<available, aborted, list, locks, reading, state, locals, exits>>

\* CRYPTO_get_ube_generation_number, which module Ube models: two calls return the
\* same number exactly when there was no UBE between them.
UbeNumber == era - 1

-------------------------------------------------------------------------------
(* rand_bytes_impl.                                                        *)

\* A thread calls for the k-th state; the first call allocates it.
RAND_bytes(t, k, n) ==
  /\ pc[t] = "idle"
  /\ key' = [key EXCEPT ![t] = k]
  /\ left' = [left EXCEPT ![t] = n]
  /\ out' = [out EXCEPT ![t] = MaxEras]
  /\ begun' = [begun EXCEPT ![t] = era]
  /\ \/ /\ stage[<<t, k>>] = "none"
        /\ stage' = [stage EXCEPT ![<<t, k>>] = "unlisted"]
        /\ fresh' = [fresh EXCEPT ![t] = TRUE]
        /\ Goto(t, "init_gn")
     \/ /\ stage[<<t, k>>] # "none"
        /\ fresh' = [fresh EXCEPT ![t] = FALSE]
        /\ Goto(t, "unique")
        /\ UNCHANGED stage
  /\ UNCHANGED <<env, head, next, previous, locks, reading, state, must, seed, pr, exits>>

\* rand_state_initialize: the generation number, then the entropy source, then the seed.
InitGn(t) ==
  /\ pc[t] = "init_gn"
  /\ gn' = [gn EXCEPT ![State(t)] = IF available THEN UbeNumber ELSE 0]
  /\ Goto(t, "init_source")
  /\ UNCHANGED <<env, list, locks, reading, drbg, calls, source, locals, exits>>

\* get_entropy_source: the source may derive material of its own now.
InitSource(t) ==
  /\ pc[t] = "init_source"
  /\ source' = [source EXCEPT ![State(t)] = "live"]
  /\ seed' = [seed EXCEPT ![t] = era]
  /\ Goto(t, "init_seed")
  /\ UNCHANGED <<env, list, locks, reading, drbg, calls, gn, key, fresh, must, pr, left, out, begun, exits>>

\* The first seed may be a function of that material alone.
InitSeed(t) ==
  /\ pc[t] = "init_seed"
  /\ seed' \in {seed, [seed EXCEPT ![t] = era]}
  /\ Goto(t, "init_drbg")
  /\ UNCHANGED <<env, list, locks, reading, state, key, fresh, must, pr, left, out, begun, exits>>

\* Faulty variant: the generation number is sampled after the seed.
InitDrbgThenGn(t) ==
  /\ pc[t] = "init_drbg"
  /\ drbg' = [drbg EXCEPT ![State(t)] = seed[t]]
  /\ calls' = [calls EXCEPT ![State(t)] = 0]
  /\ gn' = [gn EXCEPT ![State(t)] = IF available THEN UbeNumber ELSE 0]
  /\ seed' = [seed EXCEPT ![t] = 0]
  /\ Goto(t, "add")
  /\ UNCHANGED <<env, list, locks, reading, source, key, fresh, must, pr, left, out, begun, exits>>

InitDrbg(t) ==
  /\ pc[t] = "init_drbg"
  /\ drbg' = [drbg EXCEPT ![State(t)] = seed[t]]
  /\ calls' = [calls EXCEPT ![State(t)] = 0]
  /\ seed' = [seed EXCEPT ![t] = 0]
  /\ Goto(t, "add")
  /\ UNCHANGED <<env, list, locks, reading, gn, source, key, fresh, must, pr, left, out, begun, exits>>

\* Faulty variant: shutdown is not looked at.
AddAlways(t) ==
  LET n == State(t) IN
  /\ pc[t] = "add"
  /\ listLock = NoThread
  /\ stage' = [stage EXCEPT ![n] = "listed"]
  /\ next' = [next EXCEPT ![n] = head]
  /\ previous' = [m \in Nodes |-> IF m = n THEN Null ELSE IF m = head THEN n ELSE previous[m]]
  /\ head' = n
  /\ Goto(t, "unique")
  /\ UNCHANGED <<env, locks, reading, state, locals, exits>>

\* thread_local_list_add_node: the new head; or, once shutdown has started, an
\* unlisted state whose lock is held for ever.
thread_local_list_add_node(t) ==
  LET n == State(t) IN
  /\ pc[t] = "add"
  /\ listLock = NoThread
  /\ \/ /\ shutdown
        /\ stage' = [stage EXCEPT ![n] = "late"]
        /\ previous' = [previous EXCEPT ![n] = Null]
        /\ writer' = [writer EXCEPT ![n] = t]
        /\ UNCHANGED <<head, next>>
     \/ /\ ~shutdown
        /\ stage' = [stage EXCEPT ![n] = "listed"]
        /\ next' = [next EXCEPT ![n] = head]
        /\ previous' = [m \in Nodes |-> IF m = n THEN Null
                                        ELSE IF m = head THEN n ELSE previous[m]]
        /\ head' = n
        /\ UNCHANGED writer
  /\ Goto(t, "unique")
  /\ UNCHANGED <<env, listLock, shutdown, reading, state, locals, exits>>

-------------------------------------------------------------------------------
(* rand_bytes_core.                                                        *)

\* rand_check_ctr_drbg_uniqueness.
rand_check_ctr_drbg_uniqueness(t) ==
  LET unique == IF available THEN gn[State(t)] = UbeNumber ELSE fresh[t] IN
  /\ pc[t] = "unique"
  /\ must' = [must EXCEPT ![t] = ~unique]
  /\ gn' = [gn EXCEPT ![State(t)] = IF available THEN UbeNumber ELSE @]
  /\ Goto(t, "pred")
  /\ UNCHANGED <<env, list, locks, reading, drbg, calls, source, key, fresh, seed, pr, left, out, begun, exits>>

rand_maybe_get_ctr_drbg_pred_resistance(t) ==
  /\ pc[t] = "pred"
  /\ pr' = [pr EXCEPT ![t] = IF PredResistance THEN era ELSE 0]
  /\ Goto(t, "lock")
  /\ UNCHANGED <<env, list, locks, reading, state, key, fresh, must, seed, left, out, begun, exits>>

\* CRYPTO_MUTEX_lock_read(&state->state_clear_lock) by its thread.  A thread that holds
\* the lock for writing may get an error, and CRYPTO_MUTEX_lock_read then aborts.
CRYPTO_MUTEX_lock_read(t) ==
  /\ writer[State(t)] = NoThread
  /\ reading' = [reading EXCEPT ![State(t)] = TRUE]

LockRead(t) ==
  /\ pc[t] = "lock"
  /\ CRYPTO_MUTEX_lock_read(t)
  /\ Goto(t, "loop")
  /\ UNCHANGED <<env, list, locks, state, locals, exits>>

AbortInLock(t) ==
  /\ pc[t] \in {"lock", "relock"}
  /\ writer[State(t)] = t
  /\ aborted' = "lock"
  /\ UNCHANGED <<era, available, list, locks, reading, state, pc, locals, exits>>

MustReseed(t) == must[t] \/ calls[State(t)] + 1 > kCtrDrbgReseedInterval

\* The lock is not held while the seed is sourced ...
UnlockToReseed(t) ==
  /\ pc[t] = "loop"
  /\ MustReseed(t)
  /\ reading' = [reading EXCEPT ![State(t)] = FALSE]
  /\ Goto(t, "seed")
  /\ UNCHANGED <<env, list, locks, state, locals, exits>>

\* ... a zeroised source returns random data, or zeros in Windows shared builds ...
rand_get_ctr_drbg_seed_entropy(t) ==
  /\ pc[t] = "seed"
  /\ seed' \in {[seed EXCEPT ![t] = e] : e \in IF source[State(t)] = "live" THEN {era} ELSE {0, era}}
  /\ Goto(t, "relock")
  /\ UNCHANGED <<env, list, locks, reading, state, key, fresh, must, pr, left, out, begun, exits>>

\* Faulty variant: the lock is not taken again.
ReseedUnlocked(t) ==
  /\ pc[t] = "relock"
  /\ drbg' = [drbg EXCEPT ![State(t)] = Youngest(@, seed[t])]
  /\ calls' = [calls EXCEPT ![State(t)] = 0]
  /\ must' = [must EXCEPT ![t] = FALSE]
  /\ seed' = [seed EXCEPT ![t] = 0]
  /\ Goto(t, "loop")
  /\ UNCHANGED <<env, list, locks, reading, gn, source, key, fresh, pr, left, out, begun, exits>>

\* ... and taken again for the reseed.
rand_ctr_drbg_reseed(t) ==
  /\ pc[t] = "relock"
  /\ CRYPTO_MUTEX_lock_read(t)
  /\ drbg' = [drbg EXCEPT ![State(t)] = Youngest(@, seed[t])]
  /\ calls' = [calls EXCEPT ![State(t)] = 0]
  /\ must' = [must EXCEPT ![t] = FALSE]
  /\ seed' = [seed EXCEPT ![t] = 0]
  /\ Goto(t, "loop")
  /\ UNCHANGED <<env, list, locks, gn, source, key, fresh, pr, left, out, begun, exits>>

\* One iteration of the loop: the first one mixes in the prediction resistance.
CTR_DRBG_generate(t) ==
  /\ pc[t] = "loop"
  /\ ~MustReseed(t)
  /\ drbg' = [drbg EXCEPT ![State(t)] = Youngest(@, pr[t])]
  /\ out' = [out EXCEPT ![t] = Oldest(@, drbg'[State(t)])]
  /\ calls' = [calls EXCEPT ![State(t)] = @ + 1]
  /\ pr' = [pr EXCEPT ![t] = 0]
  /\ left' = [left EXCEPT ![t] = @ - 1]
  /\ Goto(t, IF left[t] = 1 THEN "valid" ELSE "loop")
  /\ UNCHANGED <<env, list, locks, reading, gn, source, key, fresh, must, seed, begun, exits>>

\* Faulty variant: the lock is not released.
ReturnLocked(t) ==
  /\ pc[t] = "valid"
  /\ available => gn[State(t)] = UbeNumber
  /\ fresh' = [fresh EXCEPT ![t] = FALSE]
  /\ out' = [out EXCEPT ![t] = 0]
  /\ begun' = [begun EXCEPT ![t] = 0]
  /\ Goto(t, "idle")
  /\ UNCHANGED <<env, list, locks, reading, state, key, must, seed, pr, left, exits>>

\* rand_ensure_valid_state: the last thing before the bytes are the caller's.
rand_ensure_valid_state(t) ==
  /\ pc[t] = "valid"
  /\ \/ /\ available /\ gn[State(t)] # UbeNumber
        /\ aborted' = "ube"
        /\ UNCHANGED <<reading, pc, fresh, out, begun>>
     \/ /\ available => gn[State(t)] = UbeNumber
        /\ reading' = [reading EXCEPT ![State(t)] = FALSE]
        /\ fresh' = [fresh EXCEPT ![t] = FALSE]
        /\ out' = [out EXCEPT ![t] = 0]
        /\ begun' = [begun EXCEPT ![t] = 0]
        /\ Goto(t, "idle")
        /\ UNCHANGED aborted
  /\ UNCHANGED <<era, available, list, locks, state, key, must, seed, pr, left, exits>>

-------------------------------------------------------------------------------
(* Thread exit.                                                            *)

\* The thread ends, or is killed while it initialises a state.
ThreadExit(t) ==
  /\ pc[t] \in {"idle"} \cup Initialising
  /\ todo' = [todo EXCEPT ![t] = {k \in Keys : stage[<<t, k>>] # "none"}]
  /\ seed' = [seed EXCEPT ![t] = 0]
  /\ Goto(t, "exit")
  /\ UNCHANGED <<env, list, locks, reading, state, key, fresh, must, pr, left, out, begun, pos>>

\* Faulty variant: the backward reference is forgotten.
UnlinkForward(n) ==
  /\ head' = IF head = n THEN next[n] ELSE head
  /\ next' = [m \in Nodes |-> IF m = previous[n] /\ head # n THEN next[n] ELSE next[m]]
  /\ UNCHANGED previous

\* The pointer updates of thread_local_list_delete_node.
Unlink(n) ==
  /\ head' = IF head = n THEN next[n] ELSE head
  /\ next' = [m \in Nodes |-> IF m = previous[n] /\ head # n THEN next[n] ELSE next[m]]
  /\ previous' = [m \in Nodes |-> IF m = next[n] THEN previous[n] ELSE previous[m]]

\* Faulty variant: the state is freed during shutdown too.
FreeAlways(t, k) ==
  LET n == <<t, k>> IN
  /\ pc[t] = "exit"
  /\ k \in todo[t]
  /\ listLock = NoThread
  /\ todo' = [todo EXCEPT ![t] = @ \ {k}]
  /\ Unlink(n)
  /\ stage' = [stage EXCEPT ![n] = "freed"]
  /\ drbg' = [drbg EXCEPT ![n] = 0]
  /\ source' = [source EXCEPT ![n] = "none"]
  /\ UNCHANGED <<env, locks, reading, calls, gn, pc, locals, pos>>

\* rand_thread_local_state_free, the destructor: once shutdown has started the state
\* stays where it is.
rand_thread_local_state_free(t, k) ==
  LET n == <<t, k>> IN
  /\ pc[t] = "exit"
  /\ k \in todo[t]
  /\ listLock = NoThread
  /\ todo' = [todo EXCEPT ![t] = @ \ {k}]
  /\ \/ /\ shutdown
        /\ UNCHANGED <<list, state>>
     \/ /\ ~shutdown
        /\ Unlink(n)
        /\ stage' = [stage EXCEPT ![n] = "freed"]
        /\ drbg' = [drbg EXCEPT ![n] = 0]
        /\ source' = [source EXCEPT ![n] = "none"]
        /\ UNCHANGED <<calls, gn>>
  /\ UNCHANGED <<env, locks, reading, pc, locals, pos>>

Gone(t) ==
  /\ pc[t] = "exit"
  /\ todo[t] = {}
  /\ Goto(t, "gone")
  /\ UNCHANGED <<env, list, locks, reading, state, locals, exits>>

-------------------------------------------------------------------------------
(* rand_thread_local_state_clear_all.                                      *)

\* Only the first call does anything.
ClearStart(t) ==
  /\ pc[t] = "idle"
  /\ listLock = NoThread
  /\ ~shutdown
  /\ shutdown' = TRUE
  /\ listLock' = t
  /\ pos' = [pos EXCEPT ![t] = head]
  /\ Goto(t, "clear")
  /\ UNCHANGED <<env, list, writer, reading, state, locals, todo>>

\* The first loop waits for the reader of each state and never unlocks.
ClearOne(t) ==
  LET n == pos[t] IN
  /\ pc[t] = "clear"
  /\ n # Null
  /\ ~reading[n] /\ writer[n] = NoThread
  /\ writer' = [writer EXCEPT ![n] = t]
  /\ drbg' = [drbg EXCEPT ![n] = 0]
  /\ pos' = [pos EXCEPT ![t] = next[n]]
  /\ UNCHANGED <<env, list, listLock, shutdown, reading, calls, gn, source, pc, locals, todo>>

ClearedAll(t) ==
  /\ pc[t] = "clear"
  /\ pos[t] = Null
  /\ pos' = [pos EXCEPT ![t] = head]
  /\ Goto(t, "zeroize")
  /\ UNCHANGED <<env, list, locks, reading, state, locals, todo>>

\* The second loop zeroises the entropy sources.
ZeroizeOne(t) ==
  LET n == pos[t] IN
  /\ pc[t] = "zeroize"
  /\ n # Null
  /\ source' = [source EXCEPT ![n] = "zeroized"]
  /\ pos' = [pos EXCEPT ![t] = next[n]]
  /\ UNCHANGED <<env, list, locks, reading, drbg, calls, gn, pc, locals, todo>>

\* Faulty variant: the list lock is kept, as it was before issue 3197 was fixed.
ClearEndLocked(t) ==
  /\ pc[t] = "zeroize"
  /\ pos[t] = Null
  /\ Goto(t, "idle")
  /\ UNCHANGED <<env, list, locks, reading, state, locals, exits>>

ClearEnd(t) ==
  /\ pc[t] = "zeroize"
  /\ pos[t] = Null
  /\ listLock' = NoThread
  /\ Goto(t, "idle")
  /\ UNCHANGED <<env, list, shutdown, writer, reading, state, locals, exits>>

-------------------------------------------------------------------------------
(* What a thread in the library does, and what it is asked to do.          *)
Step(t) ==
  \/ InitGn(t)
  \/ InitSource(t)
  \/ InitSeed(t)
  \/ InitDrbg(t)
  \/ thread_local_list_add_node(t)
  \/ rand_check_ctr_drbg_uniqueness(t)
  \/ rand_maybe_get_ctr_drbg_pred_resistance(t)
  \/ LockRead(t)
  \/ AbortInLock(t)
  \/ UnlockToReseed(t)
  \/ rand_get_ctr_drbg_seed_entropy(t)
  \/ rand_ctr_drbg_reseed(t)
  \/ CTR_DRBG_generate(t)
  \/ rand_ensure_valid_state(t)
  \/ \E k \in Keys : rand_thread_local_state_free(t, k)
  \/ Gone(t)
  \/ ClearOne(t)
  \/ ClearedAll(t)
  \/ ZeroizeOne(t)
  \/ ClearEnd(t)

Request(t) ==
  \/ \E k \in Keys, n \in 1..MaxChunks : RAND_bytes(t, k, n)
  \/ ThreadExit(t)
  \/ ClearStart(t)
  \/ Fork(t)

Next ==
  /\ aborted = "no"
  /\ VmClone \/ \E t \in Threads : Step(t) \/ Request(t)

\* A thread that is in the library runs.  state_clear_lock has one reader, so a waiting
\* writer gets the lock when that reader lets go of it, however often it does.
Fairness == \A t \in Threads : WF_vars(aborted = "no" /\ Step(t)) /\ SF_vars(aborted = "no" /\ ClearOne(t))

Spec == Init /\ [][Next]_vars /\ Fairness

-------------------------------------------------------------------------------
(* Correctness.                                                            *)

\* t hands the bytes to its caller.
Releases(t) == pc[t] = "valid" /\ pc'[t] = "idle"

\* rand_thread_local_state_clear_all has returned.
Cleared == shutdown /\ listLock = NoThread

\* No output is known to another copy of the address space: what RAND_bytes returns
\* depends on entropy drawn after the last UBE, wherever the UBE falls - inside the
\* initialisation, between chunks, while a seed is sourced.  Without UBE detection
\* this holds for the UBEs before the call.  Nothing is ever generated from a zeroised
\* DRBG, nor from a zeroised entropy source alone.
OutputUnique ==
  [][\A t \in Threads : Releases(t) => out[t] >= IF available THEN era ELSE begun[t]]_vars

\* Once rand_thread_local_state_clear_all has returned no RAND_bytes returns output, be
\* it from a state that was in use, was being initialised or did not exist.
NoOutputAfterClear == [][\A t \in Threads : Releases(t) => ~Cleared]_vars

\* The registered states.
Listed == {n \in Nodes : stage[n] = "listed"}

\* order numbers the registered states in the order in which the links lead through
\* them, from head on.
InOrder(order) ==
  /\ \A m, n \in Listed : order[m] = order[n] => m = n
  /\ IF Listed = {} THEN head = Null ELSE head \in Listed /\ order[head] = 1
  /\ \A n \in Listed :
       /\ IF order[n] = Cardinality(Listed) THEN next[n] = Null
          ELSE next[n] \in Listed /\ order[next[n]] = order[n] + 1
       /\ IF order[n] = 1 THEN previous[n] = Null
          ELSE previous[n] \in Listed /\ next[previous[n]] = n

\* The list reaches exactly the registered states, each once, the links are inverse to
\* each other, and no link of a registered state, nor the position of a traversal,
\* dangles.
ListSound ==
  /\ TypeOK
  /\ \E order \in [Listed -> 1..Cardinality(Listed)] : InOrder(order)
  /\ \A t \in Threads : pos[t] # Null => pos[t] \in Listed

\* When rand_thread_local_state_clear_all has returned, every registered state and its
\* entropy source are zeroised and stay so, and no state is usable.
Zeroised ==
  Cleared => \A n \in Nodes :
    /\ stage[n] = "listed" => drbg[n] = 0 /\ source[n] = "zeroized"
    /\ stage[n] \in {"listed", "late"} => writer[n] # NoThread /\ ~reading[n]

\* A state whose lock is held is never freed: the destructor of an exiting thread and
\* rand_thread_local_state_clear_all agree who wins.
NoFreeWhileLocked ==
  \A n \in Nodes : stage[n] = "freed" => writer[n] = NoThread /\ ~reading[n]

\* An exiting thread gets through its destructors, also during and after shutdown
\* (issue 3197).
ExitReturns == \A t \in Threads : pc[t] = "exit" ~> pc[t] = "gone" \/ aborted # "no"

\* The process exits: rand_thread_local_state_clear_all returns although other threads
\* keep calling RAND_bytes.
ClearReturns == \A t \in Threads : pc[t] = "clear" ~> pc[t] = "idle" \/ aborted # "no"
===============================================================================
