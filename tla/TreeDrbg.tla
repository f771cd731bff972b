------------------------------ MODULE TreeDrbg ------------------------------
(***************************************************************************)
(* The tree DRBG that seeds the randomness front end                       *)
(* (crypto/fipsmodule/rand/entropy/tree_drbg_jitter_entropy.c): one seed   *)
(* DRBG per thread, one global seed DRBG behind a lock, and Jitter Entropy *)
(* at the root.                                                            *)
(*                                                                         *)
(* Every uniqueness-breaking event (UBE) starts a new era; it may fall     *)
(* between any two steps, as the comments of the code assume.  A DRBG      *)
(* state, or a seed, belongs to the era of the freshest entropy that went  *)
(* into it; one of an older era is known to a clone of the process.  With  *)
(* detection (module Ube) the generation number tells the eras apart.      *)
(* Failing entropy sources abort the process, which ends everything.       *)
(***************************************************************************)
EXTENDS Naturals

CONSTANTS Thread,    \* threads that use randomness
          None,      \* no thread
          MaxThread, \* TREE_JITTER_THREAD_DRBG_MAX_GENERATE
          MaxGlobal, \* TREE_JITTER_GLOBAL_DRBG_MAX_GENERATE
          MaxEra     \* bound: UBEs

ASSUME TreeAssumption ==
  /\ None \notin Thread
  /\ MaxThread \in Nat \ {0} /\ MaxGlobal \in Nat \ {0} /\ MaxEra \in Nat \ {0}

VARIABLES era,   \* eras so far; what the generation number reports
          detected, \* CRYPTO_get_ube_generation_number works; never changes
          glob,  \* the global seed DRBG
          once,  \* global_seed_drbg_once: "no", "run" or "done"
          zonce, \* global_seed_drbg_zeroize_once has run
          lock,  \* who holds global_seed_drbg_lock
          drbg,  \* the seed DRBG of each thread
          pc,    \* where each thread is
          seed,  \* era of the seed or the prediction resistance it has at hand
          begun  \* history: the era in which its call began

world == <<era, detected>>
vars == <<world, glob, once, zonce, lock, drbg, pc, seed, begun>>
local == <<pc, seed, begun>>

\* count is drbg.reseed_counter: 1 after a reseed, one more per generate call.
NoDrbg == [live |-> FALSE, era |-> 0, gen |-> 0, count |-> 0, zeroed |-> FALSE]
Fresher(a, b) == IF a > b THEN a ELSE b
Goto(t, place) == pc' = [pc EXCEPT ![t] = place]
Pc == {"idle", "once", "onceRoot", "onceInit", "sample", "lock", "check", "root",
       "reseed", "generate", "init", "threadCheck", "threadReseed", "pred", "output"}

Init ==
  /\ era = 1 /\ detected \in BOOLEAN
  /\ glob = NoDrbg /\ once = "no" /\ zonce = FALSE /\ lock = None
  /\ drbg = [t \in Thread |-> NoDrbg]
  /\ pc = [t \in Thread |-> "idle"]
  /\ seed = [t \in Thread |-> 0] /\ begun = [t \in Thread |-> 0]

----------------------------------------------------------------------------
\* tree_jitter_initialize.

Initialize(t) ==
  /\ pc[t] = "idle" /\ ~ drbg[t].live
  /\ begun' = [begun EXCEPT ![t] = era]
  /\ Goto(t, "once")
  /\ UNCHANGED <<world, glob, once, zonce, lock, drbg, seed>>

\* tree_jitter_initialize_once samples the generation number first; others
\* wait in CRYPTO_once until it has run.
OnceBegin(t) ==
  /\ pc[t] = "once" /\ once = "no"
  /\ once' = "run"
  /\ glob' = [glob EXCEPT !.gen = IF detected THEN era ELSE 0]
  /\ Goto(t, "onceRoot")
  /\ UNCHANGED <<world, zonce, lock, drbg, seed, begun>>

OnceRoot(t) ==
  /\ pc[t] = "onceRoot"
  /\ seed' = [seed EXCEPT ![t] = era]
  /\ Goto(t, "onceInit")
  /\ UNCHANGED <<world, glob, once, zonce, lock, drbg, begun>>

OnceEnd(t) ==
  /\ pc[t] = "onceInit"
  /\ glob' = [glob EXCEPT !.live = TRUE, !.era = seed[t], !.count = 1]
  /\ once' = "done"
  /\ Goto(t, "sample")
  /\ UNCHANGED <<world, zonce, lock, drbg, seed, begun>>

OnceSkip(t) ==
  /\ pc[t] = "once" /\ once = "done"
  /\ Goto(t, "sample")
  /\ UNCHANGED <<world, glob, once, zonce, lock, drbg, seed, begun>>

\* The generation number is sampled before the seed is derived.
Sample(t) ==
  /\ pc[t] = "sample"
  /\ drbg' = [drbg EXCEPT ![t].gen = IF detected THEN era ELSE 0]
  /\ Goto(t, "lock")
  /\ UNCHANGED <<world, glob, once, zonce, lock, seed, begun>>

\* Faulty variant: the generation number is sampled after the seed.
InitSamplesLate(t) ==
  /\ pc[t] = "init"
  /\ drbg' = [drbg EXCEPT ![t] = [@ EXCEPT !.live = TRUE, !.era = seed[t], !.count = 1,
                                           !.gen = IF detected THEN era ELSE 0]]
  /\ Goto(t, "idle")
  /\ UNCHANGED <<world, glob, once, zonce, lock, seed, begun>>

\* CTR_DRBG_init with the seed of the global DRBG; the source is ready.
ThreadInit(t) ==
  /\ pc[t] = "init"
  /\ drbg' = [drbg EXCEPT ![t] = [@ EXCEPT !.live = TRUE, !.era = seed[t], !.count = 1]]
  /\ Goto(t, "idle")
  /\ UNCHANGED <<world, glob, once, zonce, lock, seed, begun>>

----------------------------------------------------------------------------
\* tree_jitter_drbg_derive_seed of the global DRBG, under its lock.

Lock(t) ==
  /\ pc[t] = "lock" /\ lock = None /\ glob.live
  /\ lock' = t
  /\ Goto(t, "check")
  /\ UNCHANGED <<world, glob, once, zonce, drbg, seed, begun>>

UbeSeen(d) == detected /\ d.gen # era
CalledOften(d, max) == d.count > max

\* Faulty variant: a UBE does not reseed the global DRBG.
GlobalCheckCount(t) ==
  /\ pc[t] = "check"
  /\ Goto(t, IF CalledOften(glob, MaxGlobal) THEN "root" ELSE "generate")
  /\ UNCHANGED <<world, glob, once, zonce, lock, drbg, seed, begun>>

\* tree_jitter_check_drbg_must_reseed caches the number before the reseed.
GlobalCheck(t) ==
  /\ pc[t] = "check"
  /\ glob' = [glob EXCEPT !.gen = IF UbeSeen(glob) THEN era ELSE @]
  /\ Goto(t, IF UbeSeen(glob) \/ CalledOften(glob, MaxGlobal) THEN "root" ELSE "generate")
  /\ UNCHANGED <<world, once, zonce, lock, drbg, seed, begun>>

\* tree_jitter_get_root_seed.
RootSeed(t) ==
  /\ pc[t] = "root"
  /\ seed' = [seed EXCEPT ![t] = era]
  /\ Goto(t, "reseed")
  /\ UNCHANGED <<world, glob, once, zonce, lock, drbg, begun>>

GlobalReseed(t) ==
  /\ pc[t] = "reseed"
  /\ glob' = [glob EXCEPT !.era = Fresher(@, seed[t]), !.count = 1]
  /\ Goto(t, "generate")
  /\ UNCHANGED <<world, once, zonce, lock, drbg, seed, begun>>

\* CTR_DRBG_generate, without prediction resistance, and the unlock.
GlobalGenerate(t) ==
  /\ pc[t] = "generate"
  /\ seed' = [seed EXCEPT ![t] = glob.era]
  /\ glob' = [glob EXCEPT !.count = @ + 1]
  /\ lock' = None
  /\ Goto(t, IF drbg[t].live THEN "threadReseed" ELSE "init")
  /\ UNCHANGED <<world, once, zonce, drbg, begun>>

----------------------------------------------------------------------------
\* tree_jitter_get_seed: tree_jitter_drbg_derive_seed of the thread's DRBG.

GetSeed(t) ==
  /\ pc[t] = "idle" /\ drbg[t].live
  /\ begun' = [begun EXCEPT ![t] = era]
  /\ Goto(t, "threadCheck")
  /\ UNCHANGED <<world, glob, once, zonce, lock, drbg, seed>>

ThreadCheck(t) ==
  /\ pc[t] = "threadCheck"
  /\ drbg' = [drbg EXCEPT ![t].gen = IF UbeSeen(drbg[t]) THEN era ELSE @]
  /\ Goto(t, IF UbeSeen(drbg[t]) \/ CalledOften(drbg[t], MaxThread) THEN "lock" ELSE "pred")
  /\ UNCHANGED <<world, glob, once, zonce, lock, seed, begun>>

ThreadReseed(t) ==
  /\ pc[t] = "threadReseed"
  /\ drbg' = [drbg EXCEPT ![t] = [@ EXCEPT !.era = Fresher(drbg[t].era, seed[t]), !.count = 1]]
  /\ Goto(t, "pred")
  /\ UNCHANGED <<world, glob, once, zonce, lock, seed, begun>>

\* tree_jitter_drbg_maybe_get_pred_resistance: OS entropy when UBEs are not
\* detected.
PredResistance(t) ==
  /\ pc[t] = "pred"
  /\ seed' = [seed EXCEPT ![t] = IF detected THEN 0 ELSE era]
  /\ Goto(t, "output")
  /\ UNCHANGED <<world, glob, once, zonce, lock, drbg, begun>>

\* CTR_DRBG_generate; the seed is returned.
ThreadGenerate(t) ==
  /\ pc[t] = "output"
  /\ seed' = [seed EXCEPT ![t] = Fresher(drbg[t].era, seed[t])]
  /\ drbg' = [drbg EXCEPT ![t].count = @ + 1]
  /\ Goto(t, "idle")
  /\ UNCHANGED <<world, glob, once, zonce, lock, begun>>

\* tree_jitter_free_thread_drbg, when the front end's state goes.
FreeThread(t) ==
  /\ pc[t] = "idle" /\ drbg[t].live
  /\ drbg' = [drbg EXCEPT ![t] = NoDrbg]
  /\ UNCHANGED <<world, glob, once, zonce, lock, local>>

----------------------------------------------------------------------------
\* Zeroization by the front end's destructor: the global DRBG once, under its
\* lock, then each thread's, which that thread may be using at the moment.
ZeroizeGlobal ==
  /\ ~ zonce /\ lock = None
  /\ zonce' = TRUE
  /\ \/ glob.live /\ \E e \in {glob.era, era} :
          glob' = [glob EXCEPT !.era = e, !.count = 1, !.zeroed = TRUE]
     \/ ~ glob.live /\ UNCHANGED glob
  /\ UNCHANGED <<world, once, lock, drbg, local>>

ZeroizeThread(t) ==
  /\ zonce /\ drbg[t].live
  /\ \E e \in IF pc[t] \in {"threadReseed", "output"} THEN 0 .. era ELSE {drbg[t].era, era} :
        drbg' = [drbg EXCEPT ![t] = [@ EXCEPT !.era = e, !.count = 1, !.zeroed = TRUE]]
  /\ UNCHANGED <<world, glob, once, zonce, lock, local>>

Ube ==
  /\ era < MaxEra
  /\ era' = era + 1
  /\ UNCHANGED <<detected, glob, once, zonce, lock, drbg, local>>

Step(t) ==
  \/ OnceBegin(t) \/ OnceRoot(t) \/ OnceEnd(t) \/ OnceSkip(t) \/ Sample(t) \/ ThreadInit(t)
  \/ Lock(t) \/ GlobalCheck(t) \/ RootSeed(t) \/ GlobalReseed(t) \/ GlobalGenerate(t)
  \/ ThreadCheck(t) \/ ThreadReseed(t) \/ PredResistance(t) \/ ThreadGenerate(t)

Next ==
  \/ \E t \in Thread : Initialize(t) \/ GetSeed(t) \/ Step(t) \/ FreeThread(t) \/ ZeroizeThread(t)
  \/ ZeroizeGlobal \/ Ube

Spec == Init /\ [][Next]_vars

----------------------------------------------------------------------------
\* Properties.

Drbg(max) == [live : BOOLEAN, era : 0 .. MaxEra, gen : 0 .. MaxEra, count : 0 .. max + 1,
              zeroed : BOOLEAN]

\* Every variable has its type; in particular tree_jitter_check_drbg_must_reseed
\* keeps the calls between two reseeds within |max_generate_calls|.
TypeOK ==
  /\ era \in 1 .. MaxEra /\ detected \in BOOLEAN
  /\ glob \in Drbg(MaxGlobal) /\ drbg \in [Thread -> Drbg(MaxThread)]
  /\ once \in {"no", "run", "done"} /\ zonce \in BOOLEAN
  /\ lock \in Thread \cup {None}
  /\ pc \in [Thread -> Pc]
  /\ seed \in [Thread -> 0 .. MaxEra] /\ begun \in [Thread -> 0 .. MaxEra]

GlobalBusy == \E t \in Thread : pc[t] \in {"root", "reseed"}
Reseeding(t) == pc[t] \in {"lock", "check", "root", "reseed", "generate", "threadReseed"}

\* The generation number a DRBG carries is never newer than its entropy,
\* outside the steps that are about to reseed it: otherwise a UBE could not be
\* observed afterwards.
Associated ==
  /\ TypeOK
  /\ (glob.live /\ ~ GlobalBusy) => glob.gen <= glob.era
  /\ \A t \in Thread :
       (drbg[t].live /\ ~ drbg[t].zeroed /\ ~ Reseeding(t)) => drbg[t].gen <= drbg[t].era

\* What the front end relies on: a seed is no older than the call that
\* returned it, so a UBE before the call cannot make two clones share it.
SeedFresh ==
  [][\A t \in Thread : (pc[t] = "output" /\ pc'[t] = "idle" /\ ~ drbg[t].zeroed)
                         => seed'[t] >= begun[t]]_vars
=============================================================================
