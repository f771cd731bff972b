---------------------------- MODULE EntropyProofs -----------------------------
(***************************************************************************)
(* Proofs about TreeDrbg, for any number of threads and of UBEs and for any *)
(* limits between two reseeds (2^20 and 2^24 calls in the code), and about  *)
(* Ube, where its generation numbers come from, for any number of threads   *)
(* and of events.                                                           *)
(***************************************************************************)
EXTENDS TreeDrbg, Ube, TLAPS

-----------------------------------------------------------------------------
(* TreeDrbg: the parts of the invariant.                                    *)

Locked == {"check", "root", "reseed", "generate"}
Known == {"root", "reseed", "generate"}
Derived == {"init", "threadReseed"}

\* One thread at most works on the global DRBG, and one initialises it.
LockInv ==
  /\ \A t \in Thread : pc[t] \in Locked => lock = t
  /\ \A t \in Thread : pc[t] \in {"onceRoot", "onceInit"} => once = "run"
  /\ \A s, t \in Thread :
       pc[s] \in {"onceRoot", "onceInit"} /\ pc[t] \in {"onceRoot", "onceInit"} => s = t
  /\ once # "done" => ~ glob.live
  /\ \A t \in Thread : pc[t] \in Locked => glob.live

\* A DRBG is reseeded before it is called too often.
CountInv ==
  \A t \in Thread : /\ pc[t] = "generate" => glob.count <= MaxGlobal
                    /\ pc[t] \in {"pred", "output"} => drbg[t].count <= MaxThread

\* Numbers are not ahead of the eras, and are not used without detection.
GenInv ==
  /\ glob.gen <= era /\ \A t \in Thread : drbg[t].gen <= era /\ begun[t] <= era
  /\ ~ detected => glob.gen = 0 /\ \A t \in Thread : drbg[t].gen = 0

\* What is at hand for a reseed is as fresh as the number already cached.
SeedInv ==
  \A t \in Thread :
    /\ pc[t] \in {"onceInit", "reseed"} => glob.gen <= seed[t]
    /\ pc[t] \in Known => drbg[t].gen <= glob.gen
    /\ pc[t] \in Derived => drbg[t].gen <= seed[t]

\* A call works on a live DRBG, whose number it has compared since it began.
CallInv ==
  \A t \in Thread :
    /\ pc[t] \in {"threadCheck", "threadReseed", "pred", "output"} => drbg[t].live
    /\ detected /\ drbg[t].live /\ (pc[t] \in {"pred", "output"} \/ Reseeding(t))
         => begun[t] <= drbg[t].gen
    /\ ~ detected /\ pc[t] = "output" => begun[t] <= seed[t]

\* The association without the types.
AssocInv ==
  /\ (glob.live /\ ~ GlobalBusy) => glob.gen <= glob.era
  /\ \A t \in Thread :
       (drbg[t].live /\ ~ drbg[t].zeroed /\ ~ Reseeding(t)) => drbg[t].gen <= drbg[t].era

IInv == TypeOK /\ LockInv /\ CountInv /\ GenInv /\ SeedInv /\ CallInv /\ AssocInv

\* A DRBG that is seeded is of its type.
LEMMA SeededDrbg ==
  ASSUME NEW max \in Nat \ {0}, NEW d \in Drbg(max), NEW e \in 0 .. MaxEra
  PROVE  /\ [d EXCEPT !.era = e, !.count = 1] \in Drbg(max)
         /\ [d EXCEPT !.live = TRUE, !.era = e, !.count = 1] \in Drbg(max)
         /\ [d EXCEPT !.era = e, !.count = 1, !.zeroed = TRUE] \in Drbg(max)
<1>1. 1 \in 0 .. max + 1
  OBVIOUS
<1>2. [d EXCEPT !.era = e, !.count = 1] \in Drbg(max)
  BY <1>1 DEF Drbg
<1>3. [d EXCEPT !.live = TRUE, !.era = e, !.count = 1] \in Drbg(max)
  BY <1>1 DEF Drbg
<1>4. [d EXCEPT !.era = e, !.count = 1, !.zeroed = TRUE] \in Drbg(max)
  BY <1>1 DEF Drbg
<1> QED
  BY <1>2, <1>3, <1>4

\* An assignment to the DRBG of one thread.
LEMMA OneDrbg ==
  ASSUME drbg \in [Thread -> Drbg(MaxThread)], NEW t \in Thread, NEW d \in Drbg(MaxThread),
         drbg' = [drbg EXCEPT ![t] = d]
  PROVE  /\ drbg' \in [Thread -> Drbg(MaxThread)]
         /\ drbg'[t] = d
         /\ \A s \in Thread \ {t} : drbg'[s] = drbg[s]
OBVIOUS

\* The tree as it is before the first use.
LEMMA InitHolds == Init => IInv
<1> SUFFICES ASSUME Init PROVE IInv
  OBVIOUS
<1> USE TreeAssumption DEF Init
<1>1. /\ glob = NoDrbg /\ \A t \in Thread : drbg[t] = NoDrbg /\ pc[t] = "idle" /\ begun[t] = 0
  OBVIOUS
<1>2. NoDrbg \in Drbg(MaxGlobal) /\ NoDrbg \in Drbg(MaxThread) /\ ~ NoDrbg.live /\ NoDrbg.gen = 0
  BY DEF NoDrbg, Drbg
<1>3. zonce \in BOOLEAN
  BY Zenon
<1>4. TypeOK
  BY <1>2, <1>3 DEF TypeOK, Pc
<1>5. LockInv /\ CountInv /\ SeedInv
  BY <1>1, <1>2 DEF LockInv, CountInv, SeedInv, Locked, Known, Derived
<1>6. GenInv /\ CallInv /\ AssocInv
  BY <1>1, <1>2 DEF GenInv, CallInv, AssocInv
<1> QED
  BY <1>4, <1>5, <1>6 DEF IInv

\* One thread goes to another place.
Moved(t, place) == pc'[t] = place /\ \A s \in Thread \ {t} : pc'[s] = pc[s]

\* Goto moves one thread.
LEMMA GotoMoves ==
  ASSUME TypeOK, NEW t \in Thread, NEW place \in Pc, Goto(t, place)
  PROVE  Moved(t, place) /\ pc' \in [Thread -> Pc]
BY DEF TypeOK, Goto, Moved

\* tree_jitter_initialize begins.
LEMMA InitializeKeeps == ASSUME IInv, NEW t \in Thread, Initialize(t) PROVE IInv'
<1>1. (Moved(t, "once")) /\ pc' \in [Thread -> Pc]
  BY GotoMoves DEF Initialize, Pc, IInv
<1>2. pc[t] = "idle" /\ ~ drbg[t].live
      /\ UNCHANGED <<era, detected, glob, once, zonce, lock, drbg, seed>>
  BY DEF Initialize, world
<1>a. begun' = [begun EXCEPT ![t] = era]
  BY DEF Initialize
<1>3. TypeOK'
  BY <1>1, <1>2, <1>a DEF IInv, TypeOK
<1>4. LockInv'
  BY <1>1, <1>2, <1>a DEF IInv, LockInv, Moved, Locked
<1>5. CountInv'
  BY <1>1, <1>2, <1>a DEF IInv, CountInv, Moved
<1>6. GenInv'
  BY <1>1, <1>2, <1>a DEF IInv, GenInv, TypeOK
<1>7. SeedInv'
  BY <1>1, <1>2, <1>a DEF IInv, SeedInv, Known, Derived, Moved
<1>8. CallInv'
  BY <1>1, <1>2, <1>a DEF IInv, CallInv, Moved, Reseeding
<1>9. AssocInv'
  BY <1>1, <1>2, <1>a DEF IInv, AssocInv, Moved, Reseeding, GlobalBusy
<1> QED
  BY <1>3, <1>4, <1>5, <1>6, <1>7, <1>8, <1>9 DEF IInv

\* The global DRBG gets its number before its seed.
LEMMA OnceBeginKeeps == ASSUME IInv, NEW t \in Thread, OnceBegin(t) PROVE IInv'
<1>1. (Moved(t, "onceRoot")) /\ pc' \in [Thread -> Pc]
  BY GotoMoves DEF OnceBegin, Pc, IInv
<1>2. pc[t] = "once" /\ once = "no" /\ UNCHANGED <<era, detected, zonce, lock, drbg, seed, begun>>
  BY DEF OnceBegin, world
<1>a. once' = "run"
  BY DEF OnceBegin
<1>b. glob' \in Drbg(MaxGlobal)
  BY <1>2 DEF OnceBegin, IInv, TypeOK, Drbg, UbeSeen, CalledOften, GenInv
<1>c. glob'.live = glob.live /\ glob'.era = glob.era /\ glob'.count = glob.count
  BY DEF OnceBegin
<1>d. glob'.gen \in {0, era} /\ (~ detected => glob'.gen = 0)
  BY DEF OnceBegin
<1>3. TypeOK'
  BY <1>1, <1>2, <1>a, <1>b, <1>c, <1>d DEF IInv, TypeOK
<1>4. LockInv'
  BY <1>1, <1>2, <1>a, <1>b, <1>c, <1>d DEF IInv, LockInv, Moved, Locked
<1>5. CountInv'
  BY <1>1, <1>2, <1>a, <1>b, <1>c, <1>d DEF IInv, CountInv, Moved
<1>6. GenInv'
  BY <1>1, <1>2, <1>a, <1>b, <1>c, <1>d DEF IInv, GenInv, TypeOK
<1>7. SeedInv'
  BY <1>1, <1>2, <1>a, <1>b, <1>c, <1>d DEF IInv, SeedInv, Known, Derived, Moved, LockInv, Locked
<1>8. CallInv'
  BY <1>1, <1>2, <1>a, <1>b, <1>c, <1>d DEF IInv, CallInv, Moved, Reseeding
<1>9. AssocInv'
  BY <1>1, <1>2, <1>a, <1>b, <1>c, <1>d DEF IInv, AssocInv, Moved, Reseeding, GlobalBusy,
     LockInv, Locked
<1> QED
  BY <1>3, <1>4, <1>5, <1>6, <1>7, <1>8, <1>9 DEF IInv

\* A root seed is drawn for the global DRBG.
LEMMA OnceRootKeeps == ASSUME IInv, NEW t \in Thread, OnceRoot(t) PROVE IInv'
<1>1. (Moved(t, "onceInit")) /\ pc' \in [Thread -> Pc]
  BY GotoMoves DEF OnceRoot, Pc, IInv
<1>2. pc[t] = "onceRoot" /\ UNCHANGED <<era, detected, glob, once, zonce, lock, drbg, begun>>
  BY DEF OnceRoot, world
<1>a. seed' = [seed EXCEPT ![t] = era]
  BY DEF OnceRoot
<1>3. TypeOK'
  BY <1>1, <1>2, <1>a DEF IInv, TypeOK
<1>4. LockInv'
  BY <1>1, <1>2, <1>a DEF IInv, LockInv, Moved, Locked
<1>5. CountInv'
  BY <1>1, <1>2, <1>a DEF IInv, CountInv, Moved
<1>6. GenInv'
  BY <1>1, <1>2, <1>a DEF IInv, GenInv
<1>7. SeedInv'
  BY <1>1, <1>2, <1>a DEF IInv, TypeOK, Drbg, SeedInv, Known, Derived, Moved, GenInv, LockInv,
     Locked
<1>8. CallInv'
  BY <1>1, <1>2, <1>a DEF IInv, CallInv, Moved, Reseeding
<1>9. AssocInv'
  BY <1>1, <1>2, <1>a DEF IInv, AssocInv, Moved, Reseeding, GlobalBusy
<1> QED
  BY <1>3, <1>4, <1>5, <1>6, <1>7, <1>8, <1>9 DEF IInv

\* The global DRBG is initialised.
LEMMA OnceEndKeeps == ASSUME IInv, NEW t \in Thread, OnceEnd(t) PROVE IInv'
<1>1. (Moved(t, "sample")) /\ pc' \in [Thread -> Pc]
  BY GotoMoves DEF OnceEnd, Pc, IInv
<1>2. pc[t] = "onceInit" /\ UNCHANGED <<era, detected, zonce, lock, drbg, seed, begun>>
  BY DEF OnceEnd, world
<1>a. once' = "done"
  BY DEF OnceEnd
<1>b. glob' \in Drbg(MaxGlobal)
  <2>1. glob \in Drbg(MaxGlobal) /\ seed[t] \in 0 .. MaxEra
    BY DEF IInv, TypeOK
  <2> QED
    BY <2>1, SeededDrbg, TreeAssumption DEF OnceEnd
<1>c. glob'.gen = glob.gen /\ glob'.zeroed = glob.zeroed
  BY DEF OnceEnd
<1>d. glob'.live /\ glob'.era = seed[t] /\ glob'.count = 1
  BY DEF OnceEnd
<1>3. TypeOK'
  BY <1>1, <1>2, <1>a, <1>b, <1>c, <1>d DEF IInv, TypeOK
<1>4. LockInv'
  BY <1>1, <1>2, <1>a, <1>b, <1>c, <1>d DEF IInv, LockInv, Moved, Locked
<1>5. CountInv'
  BY <1>1, <1>2, <1>a, <1>b, <1>c, <1>d DEF IInv, CountInv, Moved, LockInv, Locked
<1>6. GenInv'
  BY <1>1, <1>2, <1>a, <1>b, <1>c, <1>d DEF IInv, GenInv
<1>7. SeedInv'
  BY <1>1, <1>2, <1>a, <1>b, <1>c, <1>d DEF IInv, SeedInv, Known, Derived, Moved
<1>8. CallInv'
  BY <1>1, <1>2, <1>a, <1>b, <1>c, <1>d DEF IInv, CallInv, Moved, Reseeding
<1>9. AssocInv'
  BY <1>1, <1>2, <1>a, <1>b, <1>c, <1>d DEF IInv, AssocInv, Moved, Reseeding, GlobalBusy,
     SeedInv, Known, Derived
<1> QED
  BY <1>3, <1>4, <1>5, <1>6, <1>7, <1>8, <1>9 DEF IInv

\* The global DRBG was initialised already.
LEMMA OnceSkipKeeps == ASSUME IInv, NEW t \in Thread, OnceSkip(t) PROVE IInv'
<1>1. (Moved(t, "sample")) /\ pc' \in [Thread -> Pc]
  BY GotoMoves DEF OnceSkip, Pc, IInv
<1>2. pc[t] = "once" /\ once = "done"
      /\ UNCHANGED <<era, detected, glob, once, zonce, lock, drbg, seed, begun>>
  BY DEF OnceSkip, world
<1>3. TypeOK'
  BY <1>1, <1>2 DEF IInv, TypeOK
<1>4. LockInv'
  BY <1>1, <1>2 DEF IInv, LockInv, Moved, Locked
<1>5. CountInv'
  BY <1>1, <1>2 DEF IInv, CountInv, Moved
<1>6. GenInv'
  BY <1>1, <1>2 DEF IInv, GenInv
<1>7. SeedInv'
  BY <1>1, <1>2 DEF IInv, SeedInv, Known, Derived, Moved
<1>8. CallInv'
  BY <1>1, <1>2 DEF IInv, CallInv, Moved, Reseeding
<1>9. AssocInv'
  BY <1>1, <1>2 DEF IInv, AssocInv, Moved, Reseeding, GlobalBusy
<1> QED
  BY <1>3, <1>4, <1>5, <1>6, <1>7, <1>8, <1>9 DEF IInv

\* A new thread DRBG gets its number before its seed.
LEMMA SampleKeeps == ASSUME IInv, NEW t \in Thread, Sample(t) PROVE IInv'
<1>1. (Moved(t, "lock")) /\ pc' \in [Thread -> Pc]
  BY GotoMoves DEF Sample, Pc, IInv
<1>2. pc[t] = "sample" /\ UNCHANGED <<era, detected, glob, once, zonce, lock, seed, begun>>
  BY DEF Sample, world
<1>a. drbg' \in [Thread -> Drbg(MaxThread)] /\ \A s \in Thread \ {t} : drbg'[s] = drbg[s]
  BY <1>2 DEF Sample, IInv, TypeOK, Drbg, UbeSeen, CalledOften, GenInv
<1>b. drbg'[t].live = drbg[t].live /\ drbg'[t].era = drbg[t].era
      /\ drbg'[t].count = drbg[t].count /\ drbg'[t].zeroed = drbg[t].zeroed
  BY DEF Sample
<1>c. drbg'[t].gen \in {0, era} /\ (~ detected => drbg'[t].gen = 0) /\ (detected => drbg'[t].gen = era)
  BY DEF Sample, IInv, TypeOK
<1>3. TypeOK'
  BY <1>1, <1>2, <1>a, <1>b, <1>c DEF IInv, TypeOK
<1>4. LockInv'
  BY <1>1, <1>2, <1>a, <1>b, <1>c DEF IInv, LockInv, Moved, Locked
<1>5. CountInv'
  BY <1>1, <1>2, <1>a, <1>b, <1>c DEF IInv, CountInv, Moved
<1>6. GenInv'
  <2>1. era \in Nat /\ \A s \in Thread : drbg[s].gen \in Nat /\ drbg[s].gen <= era /\ begun[s] <= era
    BY DEF IInv, TypeOK, Drbg, GenInv
  <2>2. glob.gen <= era /\ (~ detected => glob.gen = 0 /\ \A s \in Thread : drbg[s].gen = 0)
    BY DEF IInv, GenInv
  <2>3. drbg'[t].gen \in {0, era, drbg[t].gen} /\ (~ detected => drbg'[t].gen = 0)
    BY <1>c, <2>2
  <2>4. \A s \in Thread : drbg'[s].gen <= era
    BY <1>a, <2>1, <2>3
  <2>5. ~ detected => \A s \in Thread : drbg'[s].gen = 0
    BY <1>a, <2>2, <2>3
  <2> QED
    BY <1>2, <2>1, <2>2, <2>4, <2>5 DEF GenInv
<1>7. SeedInv'
  BY <1>1, <1>2, <1>a, <1>b, <1>c DEF IInv, SeedInv, Known, Derived, Moved
<1>8. CallInv'
  BY <1>1, <1>2, <1>a, <1>b, <1>c DEF IInv, CallInv, Moved, Reseeding, GenInv
<1>9. AssocInv'
  BY <1>1, <1>2, <1>a, <1>b, <1>c DEF IInv, AssocInv, Moved, Reseeding, GlobalBusy
<1> QED
  BY <1>3, <1>4, <1>5, <1>6, <1>7, <1>8, <1>9 DEF IInv

\* A thread DRBG is initialised.
LEMMA ThreadInitKeeps == ASSUME IInv, NEW t \in Thread, ThreadInit(t) PROVE IInv'
<1>1. (Moved(t, "idle")) /\ pc' \in [Thread -> Pc]
  BY GotoMoves DEF ThreadInit, Pc, IInv
<1>2. pc[t] = "init" /\ UNCHANGED <<era, detected, glob, once, zonce, lock, seed, begun>>
  BY DEF ThreadInit, world
<1>a. drbg' \in [Thread -> Drbg(MaxThread)] /\ \A s \in Thread \ {t} : drbg'[s] = drbg[s]
  <2>1. drbg[t] \in Drbg(MaxThread) /\ drbg \in [Thread -> Drbg(MaxThread)]
        /\ seed[t] \in 0 .. MaxEra
    BY DEF IInv, TypeOK
  <2> DEFINE d == [drbg[t] EXCEPT !.live = TRUE, !.era = seed[t], !.count = 1]
  <2>2. d \in Drbg(MaxThread)
    BY <2>1, SeededDrbg, TreeAssumption
  <2>3. drbg' = [drbg EXCEPT ![t] = d]
    BY DEF ThreadInit
  <2> HIDE DEF d
  <2> QED
    BY <2>1, <2>2, <2>3, OneDrbg
<1>b. drbg'[t].gen = drbg[t].gen /\ drbg'[t].zeroed = drbg[t].zeroed
  BY DEF ThreadInit
<1>c. drbg'[t].live /\ drbg'[t].era = seed[t] /\ drbg'[t].count = 1
  BY DEF ThreadInit, IInv, TypeOK
<1>3. TypeOK'
  BY <1>1, <1>2, <1>a, <1>b, <1>c DEF IInv, TypeOK
<1>4. LockInv'
  BY <1>1, <1>2, <1>a, <1>b, <1>c DEF IInv, LockInv, Moved, Locked
<1>5. CountInv'
  BY <1>1, <1>2, <1>a, <1>b, <1>c DEF IInv, CountInv, Moved
<1>6. GenInv'
  BY <1>1, <1>2, <1>a, <1>b, <1>c DEF IInv, GenInv
<1>7. SeedInv'
  BY <1>1, <1>2, <1>a, <1>b, <1>c DEF IInv, SeedInv, Known, Derived, Moved
<1>8. CallInv'
  BY <1>1, <1>2, <1>a, <1>b, <1>c DEF IInv, CallInv, Moved, Reseeding
<1>9. AssocInv'
  BY <1>1, <1>2, <1>a, <1>b, <1>c DEF IInv, AssocInv, Moved, Reseeding, GlobalBusy, SeedInv,
     Known, Derived
<1> QED
  BY <1>3, <1>4, <1>5, <1>6, <1>7, <1>8, <1>9 DEF IInv

\* The lock of the global DRBG is taken.
LEMMA LockKeeps == ASSUME IInv, NEW t \in Thread, Lock(t) PROVE IInv'
<1>1. (Moved(t, "check")) /\ pc' \in [Thread -> Pc]
  BY GotoMoves DEF Lock, Pc, IInv
<1>2. pc[t] = "lock" /\ lock = None /\ glob.live
      /\ UNCHANGED <<era, detected, glob, once, zonce, drbg, seed, begun>>
  BY DEF Lock, world
<1>a. lock' = t
  BY DEF Lock
<1>3. TypeOK'
  BY <1>1, <1>2, <1>a DEF IInv, TypeOK
<1>4. LockInv'
  BY <1>1, <1>2, <1>a, TreeAssumption DEF IInv, LockInv, Moved, Locked
<1>5. CountInv'
  BY <1>1, <1>2, <1>a DEF IInv, CountInv, Moved
<1>6. GenInv'
  BY <1>1, <1>2, <1>a DEF IInv, GenInv
<1>7. SeedInv'
  BY <1>1, <1>2, <1>a DEF IInv, SeedInv, Known, Derived, Moved
<1>8. CallInv'
  BY <1>1, <1>2, <1>a DEF IInv, CallInv, Moved, Reseeding
<1>9. AssocInv'
  BY <1>1, <1>2, <1>a DEF IInv, AssocInv, Moved, Reseeding, GlobalBusy
<1> QED
  BY <1>3, <1>4, <1>5, <1>6, <1>7, <1>8, <1>9 DEF IInv

\* The number of the global DRBG is compared and cached.
LEMMA GlobalCheckKeeps == ASSUME IInv, NEW t \in Thread, GlobalCheck(t) PROVE IInv'
<1>1. (Moved(t, "root") \/ Moved(t, "generate")) /\ pc' \in [Thread -> Pc]
  BY GotoMoves DEF GlobalCheck, Pc, IInv
<1>2. pc[t] = "check" /\ UNCHANGED <<era, detected, once, zonce, lock, drbg, seed, begun>>
  BY DEF GlobalCheck, world
<1>a. glob' \in Drbg(MaxGlobal)
  BY DEF GlobalCheck, IInv, TypeOK, Drbg
<1>b. glob'.live = glob.live /\ glob'.era = glob.era /\ glob'.count = glob.count
      /\ glob'.zeroed = glob.zeroed
  BY DEF GlobalCheck
<1>c. (detected => glob'.gen = era) /\ (~ detected => glob'.gen = glob.gen)
  BY <1>2 DEF GlobalCheck, IInv, TypeOK, Drbg, UbeSeen
<1>d. pc'[t] = "generate" => glob'.gen = glob.gen /\ glob.count <= MaxGlobal
  BY <1>1, <1>2, TreeAssumption DEF GlobalCheck, IInv, TypeOK, Drbg, UbeSeen, CalledOften, Goto
<1>3. TypeOK'
  BY <1>1, <1>2, <1>a, <1>b, <1>c, <1>d DEF IInv, TypeOK
<1>4. LockInv'
  BY <1>1, <1>2, <1>a, <1>b, <1>c, <1>d DEF IInv, LockInv, Moved, Locked
<1>5. CountInv'
  BY <1>1, <1>2, <1>a, <1>b, <1>c, <1>d DEF IInv, CountInv, Moved
<1>6. GenInv'
  BY <1>1, <1>2, <1>a, <1>b, <1>c, <1>d DEF IInv, GenInv, TypeOK
<1>7. SeedInv'
  BY <1>1, <1>2, <1>a, <1>b, <1>c, <1>d DEF IInv, TypeOK, Drbg, SeedInv, Known, Derived, Moved,
     GenInv, LockInv, Locked
<1>8. CallInv'
  BY <1>1, <1>2, <1>a, <1>b, <1>c, <1>d DEF IInv, CallInv, Moved, Reseeding
<1>9. AssocInv'
  BY <1>1, <1>2, <1>a, <1>b, <1>c, <1>d DEF IInv, AssocInv, Moved, Reseeding, GlobalBusy
<1> QED
  BY <1>3, <1>4, <1>5, <1>6, <1>7, <1>8, <1>9 DEF IInv

\* A root seed is drawn for a reseed.
LEMMA RootSeedKeeps == ASSUME IInv, NEW t \in Thread, RootSeed(t) PROVE IInv'
<1>1. (Moved(t, "reseed")) /\ pc' \in [Thread -> Pc]
  BY GotoMoves DEF RootSeed, Pc, IInv
<1>2. pc[t] = "root" /\ UNCHANGED <<era, detected, glob, once, zonce, lock, drbg, begun>>
  BY DEF RootSeed, world
<1>a. seed' = [seed EXCEPT ![t] = era]
  BY DEF RootSeed
<1>3. TypeOK'
  BY <1>1, <1>2, <1>a DEF IInv, TypeOK
<1>4. LockInv'
  BY <1>1, <1>2, <1>a DEF IInv, LockInv, Moved, Locked
<1>5. CountInv'
  BY <1>1, <1>2, <1>a DEF IInv, CountInv, Moved
<1>6. GenInv'
  BY <1>1, <1>2, <1>a DEF IInv, GenInv
<1>7. SeedInv'
  BY <1>1, <1>2, <1>a DEF IInv, TypeOK, Drbg, SeedInv, Known, Derived, Moved, GenInv, LockInv,
     Locked
<1>8. CallInv'
  BY <1>1, <1>2, <1>a DEF IInv, CallInv, Moved, Reseeding
<1>9. AssocInv'
  BY <1>1, <1>2, <1>a DEF IInv, AssocInv, Moved, Reseeding, GlobalBusy
<1> QED
  BY <1>3, <1>4, <1>5, <1>6, <1>7, <1>8, <1>9 DEF IInv

\* The global DRBG is reseeded.
LEMMA GlobalReseedKeeps == ASSUME IInv, NEW t \in Thread, GlobalReseed(t) PROVE IInv'
<1>1. (Moved(t, "generate")) /\ pc' \in [Thread -> Pc]
  BY GotoMoves DEF GlobalReseed, Pc, IInv
<1>2. pc[t] = "reseed" /\ UNCHANGED <<era, detected, once, zonce, lock, drbg, seed, begun>>
  BY DEF GlobalReseed, world
<1>a. glob' \in Drbg(MaxGlobal)
  <2>1. glob \in Drbg(MaxGlobal) /\ glob.era \in 0 .. MaxEra /\ seed[t] \in 0 .. MaxEra
    BY DEF IInv, TypeOK, Drbg
  <2>2. Fresher(glob.era, seed[t]) \in 0 .. MaxEra
    BY <2>1 DEF Fresher
  <2> QED
    BY <2>1, <2>2, SeededDrbg, TreeAssumption DEF GlobalReseed
<1>b. glob'.live = glob.live /\ glob'.gen = glob.gen /\ glob'.zeroed = glob.zeroed
  BY DEF GlobalReseed
<1>c. glob'.era \in {glob.era, seed[t]} /\ glob'.era >= glob.era /\ glob'.era >= seed[t]
      /\ glob'.count = 1
  BY <1>2 DEF GlobalReseed, IInv, TypeOK, Drbg, Fresher
<1>3. TypeOK'
  BY <1>1, <1>2, <1>a, <1>b, <1>c DEF IInv, TypeOK
<1>4. LockInv'
  BY <1>1, <1>2, <1>a, <1>b, <1>c DEF IInv, LockInv, Moved, Locked
<1>5. CountInv'
  BY <1>1, <1>2, <1>a, <1>b, <1>c, TreeAssumption DEF IInv, CountInv, Moved, LockInv, Locked
<1>6. GenInv'
  BY <1>1, <1>2, <1>a, <1>b, <1>c DEF IInv, GenInv
<1>7. SeedInv'
  BY <1>1, <1>2, <1>a, <1>b, <1>c DEF IInv, SeedInv, Known, Derived, Moved
<1>8. CallInv'
  BY <1>1, <1>2, <1>a, <1>b, <1>c DEF IInv, CallInv, Moved, Reseeding
<1>9. AssocInv'
  BY <1>1, <1>2, <1>a, <1>b, <1>c DEF IInv, TypeOK, Drbg, AssocInv, Moved, Reseeding, GlobalBusy,
     SeedInv, Known, Derived
<1> QED
  BY <1>3, <1>4, <1>5, <1>6, <1>7, <1>8, <1>9 DEF IInv

\* The global DRBG makes a seed and is unlocked.
LEMMA GlobalGenerateKeeps == ASSUME IInv, NEW t \in Thread, GlobalGenerate(t) PROVE IInv'
<1>1. (Moved(t, "init") \/ Moved(t, "threadReseed")) /\ pc' \in [Thread -> Pc]
  BY GotoMoves DEF GlobalGenerate, Pc, IInv
<1>2. pc[t] = "generate" /\ UNCHANGED <<era, detected, once, zonce, drbg, begun>>
  BY DEF GlobalGenerate, world
<1>a. seed' = [seed EXCEPT ![t] = glob.era]
  BY DEF GlobalGenerate
<1>b. lock' = None
  BY DEF GlobalGenerate
<1>c. glob' \in Drbg(MaxGlobal)
  BY <1>2, TreeAssumption DEF GlobalGenerate, IInv, TypeOK, Drbg, CountInv
<1>d. glob'.live = glob.live /\ glob'.gen = glob.gen /\ glob'.era = glob.era
      /\ glob'.zeroed = glob.zeroed
  BY DEF GlobalGenerate
<1>e. pc'[t] = "threadReseed" <=> drbg[t].live
  BY <1>2 DEF GlobalGenerate, IInv, TypeOK, Goto
<1>f. glob.era \in 0 .. MaxEra
  BY DEF IInv, TypeOK, Drbg
<1>3. TypeOK'
  BY <1>1, <1>2, <1>a, <1>b, <1>c, <1>f DEF IInv, TypeOK
<1>4. LockInv'
  BY <1>1, <1>2, <1>a, <1>b, <1>c, <1>d, <1>e DEF IInv, LockInv, Moved, Locked
<1>5. CountInv'
  BY <1>1, <1>2, <1>a, <1>b, <1>c, <1>d, <1>e DEF IInv, CountInv, Moved, LockInv, Locked
<1>6. GenInv'
  BY <1>1, <1>2, <1>a, <1>b, <1>c, <1>d, <1>e DEF IInv, GenInv
<1>7. SeedInv'
  BY <1>1, <1>2, <1>a, <1>b, <1>c, <1>d, <1>e DEF IInv, TypeOK, Drbg, SeedInv, Known, Derived,
     Moved, AssocInv, GlobalBusy, LockInv, Locked
<1>8. CallInv'
  BY <1>1, <1>2, <1>a, <1>b, <1>c, <1>d, <1>e DEF IInv, CallInv, Moved, Reseeding
<1>9. AssocInv'
  BY <1>1, <1>2, <1>a, <1>b, <1>c, <1>d, <1>e DEF IInv, AssocInv, Moved, Reseeding, GlobalBusy
<1> QED
  BY <1>3, <1>4, <1>5, <1>6, <1>7, <1>8, <1>9 DEF IInv

\* tree_jitter_get_seed begins.
LEMMA GetSeedKeeps == ASSUME IInv, NEW t \in Thread, GetSeed(t) PROVE IInv'
<1>1. (Moved(t, "threadCheck")) /\ pc' \in [Thread -> Pc]
  BY GotoMoves DEF GetSeed, Pc, IInv
<1>2. pc[t] = "idle" /\ drbg[t].live
      /\ UNCHANGED <<era, detected, glob, once, zonce, lock, drbg, seed>>
  BY DEF GetSeed, world
<1>a. begun' = [begun EXCEPT ![t] = era]
  BY DEF GetSeed
<1>3. TypeOK'
  BY <1>1, <1>2, <1>a DEF IInv, TypeOK
<1>4. LockInv'
  BY <1>1, <1>2, <1>a DEF IInv, LockInv, Moved, Locked
<1>5. CountInv'
  BY <1>1, <1>2, <1>a DEF IInv, CountInv, Moved
<1>6. GenInv'
  BY <1>1, <1>2, <1>a DEF IInv, GenInv, TypeOK
<1>7. SeedInv'
  BY <1>1, <1>2, <1>a DEF IInv, SeedInv, Known, Derived, Moved
<1>8. CallInv'
  BY <1>1, <1>2, <1>a DEF IInv, CallInv, Moved, Reseeding
<1>9. AssocInv'
  BY <1>1, <1>2, <1>a DEF IInv, AssocInv, Moved, Reseeding, GlobalBusy
<1> QED
  BY <1>3, <1>4, <1>5, <1>6, <1>7, <1>8, <1>9 DEF IInv

\* The number of a thread DRBG is compared and cached.
LEMMA ThreadCheckKeeps == ASSUME IInv, NEW t \in Thread, ThreadCheck(t) PROVE IInv'
<1>1. (Moved(t, "lock") \/ Moved(t, "pred")) /\ pc' \in [Thread -> Pc]
  BY GotoMoves DEF ThreadCheck, Pc, IInv
<1>2. pc[t] = "threadCheck" /\ UNCHANGED <<era, detected, glob, once, zonce, lock, seed, begun>>
  BY DEF ThreadCheck, world
<1>a. drbg' \in [Thread -> Drbg(MaxThread)] /\ \A s \in Thread \ {t} : drbg'[s] = drbg[s]
  BY DEF ThreadCheck, IInv, TypeOK, Drbg
<1>b. drbg'[t].live = drbg[t].live /\ drbg'[t].era = drbg[t].era
      /\ drbg'[t].count = drbg[t].count /\ drbg'[t].zeroed = drbg[t].zeroed
  BY DEF ThreadCheck
<1>c. (detected => drbg'[t].gen = era) /\ (~ detected => drbg'[t].gen = drbg[t].gen)
  BY <1>2 DEF ThreadCheck, IInv, TypeOK, Drbg, UbeSeen
<1>d. pc'[t] = "pred" => drbg'[t].gen = drbg[t].gen /\ drbg[t].count <= MaxThread
  BY <1>1, <1>2, TreeAssumption DEF ThreadCheck, IInv, TypeOK, Drbg, UbeSeen, CalledOften, Goto
<1>3. TypeOK'
  BY <1>1, <1>2, <1>a, <1>b, <1>c, <1>d DEF IInv, TypeOK
<1>4. LockInv'
  BY <1>1, <1>2, <1>a, <1>b, <1>c, <1>d DEF IInv, LockInv, Moved, Locked
<1>5. CountInv'
  BY <1>1, <1>2, <1>a, <1>b, <1>c, <1>d DEF IInv, CountInv, Moved
<1>6. GenInv'
  <2>1. era \in Nat /\ \A s \in Thread : drbg[s].gen \in Nat /\ drbg[s].gen <= era /\ begun[s] <= era
    BY DEF IInv, TypeOK, Drbg, GenInv
  <2>2. glob.gen <= era /\ (~ detected => glob.gen = 0 /\ \A s \in Thread : drbg[s].gen = 0)
    BY DEF IInv, GenInv
  <2>3. drbg'[t].gen \in {0, era, drbg[t].gen} /\ (~ detected => drbg'[t].gen = 0)
    BY <1>c, <2>2
  <2>4. \A s \in Thread : drbg'[s].gen <= era
    BY <1>a, <2>1, <2>3
  <2>5. ~ detected => \A s \in Thread : drbg'[s].gen = 0
    BY <1>a, <2>2, <2>3
  <2> QED
    BY <1>2, <2>1, <2>2, <2>4, <2>5 DEF GenInv
<1>7. SeedInv'
  BY <1>1, <1>2, <1>a, <1>b, <1>c, <1>d DEF IInv, SeedInv, Known, Derived, Moved
<1>8. CallInv'
  BY <1>1, <1>2, <1>a, <1>b, <1>c, <1>d DEF IInv, CallInv, Moved, Reseeding, GenInv
<1>9. AssocInv'
  BY <1>1, <1>2, <1>a, <1>b, <1>c, <1>d DEF IInv, AssocInv, Moved, Reseeding, GlobalBusy
<1> QED
  BY <1>3, <1>4, <1>5, <1>6, <1>7, <1>8, <1>9 DEF IInv

\* A thread DRBG is reseeded.
LEMMA ThreadReseedKeeps == ASSUME IInv, NEW t \in Thread, ThreadReseed(t) PROVE IInv'
<1>1. (Moved(t, "pred")) /\ pc' \in [Thread -> Pc]
  BY GotoMoves DEF ThreadReseed, Pc, IInv
<1>2. pc[t] = "threadReseed" /\ UNCHANGED <<era, detected, glob, once, zonce, lock, seed, begun>>
  BY DEF ThreadReseed, world
<1>z. drbg[t] \in Drbg(MaxThread) /\ drbg \in [Thread -> Drbg(MaxThread)]
      /\ drbg[t].era \in 0 .. MaxEra
      /\ seed[t] \in 0 .. MaxEra
  BY DEF IInv, TypeOK, Drbg
<1> DEFINE e == Fresher(drbg[t].era, seed[t])
           d == [drbg[t] EXCEPT !.era = e, !.count = 1]
<1>e. e \in 0 .. MaxEra /\ e >= drbg[t].era /\ e >= seed[t]
  BY <1>z DEF Fresher
<1>d. drbg' = [drbg EXCEPT ![t] = d]
  BY DEF ThreadReseed
<1> HIDE DEF e
<1>y. d \in Drbg(MaxThread) /\ d.live = drbg[t].live /\ d.gen = drbg[t].gen
      /\ d.zeroed = drbg[t].zeroed
      /\ d.era = e /\ d.count = 1
  BY <1>z, <1>e, SeededDrbg, TreeAssumption DEF Drbg
<1> HIDE DEF d
<1>a. drbg' \in [Thread -> Drbg(MaxThread)] /\ \A s \in Thread \ {t} : drbg'[s] = drbg[s]
  BY <1>z, <1>y, <1>d, OneDrbg
<1>b. drbg'[t].live = drbg[t].live /\ drbg'[t].gen = drbg[t].gen /\ drbg'[t].zeroed = drbg[t].zeroed
  BY <1>z, <1>y, <1>d, OneDrbg
<1>c. drbg'[t].era >= drbg[t].era /\ drbg'[t].era >= seed[t] /\ drbg'[t].count = 1
  BY <1>z, <1>y, <1>d, <1>e, OneDrbg
<1>3. TypeOK'
  BY <1>1, <1>2, <1>a, <1>b, <1>c DEF IInv, TypeOK
<1>4. LockInv'
  BY <1>1, <1>2, <1>a, <1>b, <1>c DEF IInv, LockInv, Moved, Locked
<1>5. CountInv'
  BY <1>1, <1>2, <1>a, <1>b, <1>c, TreeAssumption DEF IInv, CountInv, Moved, LockInv, Locked
<1>6. GenInv'
  BY <1>1, <1>2, <1>a, <1>b, <1>c DEF IInv, GenInv
<1>7. SeedInv'
  BY <1>1, <1>2, <1>a, <1>b, <1>c DEF IInv, SeedInv, Known, Derived, Moved
<1>8. CallInv'
  BY <1>1, <1>2, <1>a, <1>b, <1>c DEF IInv, CallInv, Moved, Reseeding
<1>9. AssocInv'
  <2>1. GlobalBusy' <=> GlobalBusy
    BY <1>1, <1>2 DEF GlobalBusy, Moved
  <2>2. drbg[t].gen <= seed[t]
    BY <1>2 DEF IInv, SeedInv, Derived
  <2>3. drbg'[t].gen <= drbg'[t].era
    BY <1>z, <1>y, <1>a, <1>b, <1>c, <2>2 DEF Drbg
  <2>4. \A s \in Thread \ {t} : Reseeding(s)' <=> Reseeding(s)
    BY <1>1 DEF Reseeding, Moved
  <2> QED
    BY <1>2, <1>a, <2>1, <2>3, <2>4 DEF IInv, AssocInv
<1> QED
  BY <1>3, <1>4, <1>5, <1>6, <1>7, <1>8, <1>9 DEF IInv

\* Prediction resistance, when UBEs are not detected.
LEMMA PredResistanceKeeps == ASSUME IInv, NEW t \in Thread, PredResistance(t) PROVE IInv'
<1>1. (Moved(t, "output")) /\ pc' \in [Thread -> Pc]
  BY GotoMoves DEF PredResistance, Pc, IInv
<1>2. pc[t] = "pred" /\ UNCHANGED <<era, detected, glob, once, zonce, lock, drbg, begun>>
  BY DEF PredResistance, world
<1>a. seed' = [seed EXCEPT ![t] = IF detected THEN 0 ELSE era]
  BY DEF PredResistance
<1>3. TypeOK'
  BY <1>1, <1>2, <1>a, TreeAssumption DEF IInv, TypeOK
<1>4. LockInv'
  BY <1>1, <1>2, <1>a DEF IInv, LockInv, Moved, Locked
<1>5. CountInv'
  BY <1>1, <1>2, <1>a DEF IInv, CountInv, Moved
<1>6. GenInv'
  BY <1>1, <1>2, <1>a DEF IInv, GenInv
<1>7. SeedInv'
  BY <1>1, <1>2, <1>a DEF IInv, SeedInv, Known, Derived, Moved
<1>8. CallInv'
  BY <1>1, <1>2, <1>a DEF IInv, TypeOK, CallInv, Moved, Reseeding, GenInv
<1>9. AssocInv'
  BY <1>1, <1>2, <1>a DEF IInv, AssocInv, Moved, Reseeding, GlobalBusy
<1> QED
  BY <1>3, <1>4, <1>5, <1>6, <1>7, <1>8, <1>9 DEF IInv

\* A thread DRBG makes the seed of a call.
LEMMA ThreadGenerateKeeps == ASSUME IInv, NEW t \in Thread, ThreadGenerate(t) PROVE IInv'
<1>1. (Moved(t, "idle")) /\ pc' \in [Thread -> Pc]
  BY GotoMoves DEF ThreadGenerate, Pc, IInv
<1>2. pc[t] = "output" /\ UNCHANGED <<era, detected, glob, once, zonce, lock, begun>>
  BY DEF ThreadGenerate, world
<1>a. seed' \in [Thread -> 0 .. MaxEra] /\ (\A s \in Thread \ {t} : seed'[s] = seed[s])
      /\ seed'[t] >= drbg[t].era /\ seed'[t] >= seed[t]
  BY <1>2 DEF ThreadGenerate, IInv, TypeOK, Drbg, Fresher
<1>b. drbg' \in [Thread -> Drbg(MaxThread)] /\ \A s \in Thread \ {t} : drbg'[s] = drbg[s]
  BY <1>2, TreeAssumption DEF ThreadGenerate, IInv, TypeOK, Drbg, CountInv
<1>c. drbg'[t].live = drbg[t].live /\ drbg'[t].gen = drbg[t].gen /\ drbg'[t].era = drbg[t].era
      /\ drbg'[t].zeroed = drbg[t].zeroed
  BY DEF ThreadGenerate
<1>3. TypeOK'
  BY <1>1, <1>2, <1>a, <1>b, <1>c DEF IInv, TypeOK
<1>4. LockInv'
  BY <1>1, <1>2, <1>a, <1>b, <1>c DEF IInv, LockInv, Moved, Locked
<1>5. CountInv'
  BY <1>1, <1>2, <1>a, <1>b, <1>c DEF IInv, CountInv, Moved
<1>6. GenInv'
  BY <1>1, <1>2, <1>a, <1>b, <1>c DEF IInv, GenInv
<1>7. SeedInv'
  BY <1>1, <1>2, <1>a, <1>b, <1>c DEF IInv, SeedInv, Known, Derived, Moved
<1>8. CallInv'
  BY <1>1, <1>2, <1>a, <1>b, <1>c DEF IInv, CallInv, Moved, Reseeding
<1>9. AssocInv'
  BY <1>1, <1>2, <1>a, <1>b, <1>c DEF IInv, AssocInv, Moved, Reseeding, GlobalBusy
<1> QED
  BY <1>3, <1>4, <1>5, <1>6, <1>7, <1>8, <1>9 DEF IInv

\* A thread DRBG is freed.
LEMMA FreeThreadKeeps == ASSUME IInv, NEW t \in Thread, FreeThread(t) PROVE IInv'
<1>1. pc' = pc
  BY DEF FreeThread, local
<1>2. pc[t] = "idle" /\ UNCHANGED <<era, detected, glob, once, zonce, lock, seed, begun>>
  BY DEF FreeThread, world, local
<1>a. drbg' \in [Thread -> Drbg(MaxThread)] /\ \A s \in Thread \ {t} : drbg'[s] = drbg[s]
  <2>1. NoDrbg \in Drbg(MaxThread)
    BY TreeAssumption DEF NoDrbg, Drbg
  <2>2. drbg' = [drbg EXCEPT ![t] = NoDrbg] /\ drbg \in [Thread -> Drbg(MaxThread)]
    BY DEF FreeThread, IInv, TypeOK
  <2> QED
    BY <2>1, <2>2, OneDrbg
<1>b. drbg'[t] = NoDrbg
  BY DEF FreeThread, IInv, TypeOK
<1>3. TypeOK'
  BY <1>1, <1>2, <1>a, <1>b DEF IInv, TypeOK
<1>4. LockInv'
  BY <1>1, <1>2, <1>a, <1>b DEF IInv, LockInv
<1>5. CountInv'
  BY <1>1, <1>2, <1>a, <1>b DEF IInv, CountInv
<1>6. GenInv'
  <2>1. era \in Nat /\ \A s \in Thread : drbg[s].gen \in Nat /\ drbg[s].gen <= era /\ begun[s] <= era
    BY DEF IInv, TypeOK, Drbg, GenInv
  <2>2. glob.gen <= era /\ (~ detected => glob.gen = 0 /\ \A s \in Thread : drbg[s].gen = 0)
    BY DEF IInv, GenInv
  <2>3. drbg'[t].gen \in {0, era, drbg[t].gen} /\ (~ detected => drbg'[t].gen = 0)
    BY <1>b, <2>2 DEF NoDrbg
  <2>4. \A s \in Thread : drbg'[s].gen <= era
    BY <1>a, <2>1, <2>3
  <2>5. ~ detected => \A s \in Thread : drbg'[s].gen = 0
    BY <1>a, <2>2, <2>3
  <2> QED
    BY <1>2, <2>1, <2>2, <2>4, <2>5 DEF GenInv
<1>7. SeedInv'
  BY <1>1, <1>2, <1>a, <1>b DEF IInv, SeedInv, Known, Derived
<1>8. CallInv'
  BY <1>1, <1>2, <1>a, <1>b DEF IInv, CallInv, Reseeding
<1>9. AssocInv'
  <2>1. (GlobalBusy' <=> GlobalBusy) /\ \A s \in Thread : Reseeding(s)' <=> Reseeding(s)
    BY <1>1 DEF GlobalBusy, Reseeding
  <2>2. ~ drbg'[t].live
    BY <1>b DEF NoDrbg
  <2> QED
    BY <1>2, <1>a, <2>1, <2>2 DEF IInv, AssocInv
<1> QED
  BY <1>3, <1>4, <1>5, <1>6, <1>7, <1>8, <1>9 DEF IInv

\* A thread DRBG is zeroised under its thread.
LEMMA ZeroizeThreadKeeps == ASSUME IInv, NEW t \in Thread, ZeroizeThread(t) PROVE IInv'
<1>1. pc' = pc
  BY DEF ZeroizeThread, local
<1>2. drbg[t].live /\ UNCHANGED <<era, detected, glob, once, zonce, lock, seed, begun>>
  BY DEF ZeroizeThread, world, local
<1>z. drbg[t] \in Drbg(MaxThread) /\ drbg \in [Thread -> Drbg(MaxThread)]
      /\ drbg[t].era \in 0 .. MaxEra
      /\ era \in 1 .. MaxEra
  BY DEF IInv, TypeOK, Drbg
<1>e. PICK e \in IF pc[t] \in {"threadReseed", "output"} THEN 0 .. era ELSE {drbg[t].era, era} :
        drbg' = [drbg EXCEPT ![t] = [drbg[t] EXCEPT !.era = e, !.count = 1, !.zeroed = TRUE]]
  BY DEF ZeroizeThread
<1> DEFINE d == [drbg[t] EXCEPT !.era = e, !.count = 1, !.zeroed = TRUE]
<1>f. e \in 0 .. MaxEra
  BY <1>z, TreeAssumption
<1>y. d \in Drbg(MaxThread) /\ d.live = drbg[t].live /\ d.gen = drbg[t].gen /\ d.zeroed
      /\ d.count = 1
  BY <1>z, <1>f, SeededDrbg, TreeAssumption DEF Drbg
<1> HIDE DEF d
<1>d. drbg' = [drbg EXCEPT ![t] = d]
  BY <1>e DEF d
<1>a. drbg' \in [Thread -> Drbg(MaxThread)] /\ \A s \in Thread \ {t} : drbg'[s] = drbg[s]
  BY <1>z, <1>y, <1>d, OneDrbg
<1>b. drbg'[t].live = drbg[t].live /\ drbg'[t].gen = drbg[t].gen
  BY <1>z, <1>y, <1>d, OneDrbg
<1>c. drbg'[t].zeroed /\ drbg'[t].count = 1
  BY <1>z, <1>y, <1>d, OneDrbg
<1>3. TypeOK'
  BY <1>1, <1>2, <1>a, <1>b, <1>c DEF IInv, TypeOK
<1>4. LockInv'
  BY <1>1, <1>2, <1>a, <1>b, <1>c DEF IInv, LockInv
<1>5. CountInv'
  BY <1>1, <1>2, <1>a, <1>b, <1>c, TreeAssumption DEF IInv, CountInv, Moved, LockInv, Locked
<1>6. GenInv'
  BY <1>1, <1>2, <1>a, <1>b, <1>c DEF IInv, GenInv
<1>7. SeedInv'
  BY <1>1, <1>2, <1>a, <1>b, <1>c DEF IInv, SeedInv
<1>8. CallInv'
  BY <1>1, <1>2, <1>a, <1>b, <1>c DEF IInv, CallInv, Reseeding
<1>9. AssocInv'
  BY <1>1, <1>2, <1>a, <1>b, <1>c DEF IInv, AssocInv, Reseeding, GlobalBusy
<1> QED
  BY <1>3, <1>4, <1>5, <1>6, <1>7, <1>8, <1>9 DEF IInv

\* The global DRBG is zeroised while no thread holds its lock.
LEMMA ZeroizeGlobalKeeps == ASSUME IInv, ZeroizeGlobal PROVE IInv'
<1>1. pc' = pc /\ lock = None /\ zonce' = TRUE
  BY DEF ZeroizeGlobal, local
<1>2. UNCHANGED <<era, detected, once, lock, drbg, seed, begun>>
  BY DEF ZeroizeGlobal, world, local
<1>3. glob \in Drbg(MaxGlobal) /\ glob.era \in 0 .. MaxEra /\ glob.gen \in 0 .. MaxEra
      /\ era \in 1 .. MaxEra
  BY DEF IInv, TypeOK, Drbg
<1>4. \A t \in Thread : pc[t] \notin Locked
  BY <1>1, TreeAssumption DEF IInv, LockInv
<1>5. ~ GlobalBusy
  BY <1>4 DEF GlobalBusy, Locked
<1>6. CASE UNCHANGED glob
  <2>1. TypeOK'
    <3>1. zonce' \in BOOLEAN
      BY <1>1, Zenon
    <3> QED
      BY <1>1, <1>2, <1>6, <3>1 DEF IInv, TypeOK
  <2>2. LockInv' /\ CountInv' /\ GenInv'
    BY <1>1, <1>2, <1>6 DEF IInv, LockInv, CountInv, GenInv
  <2>3. SeedInv' /\ CallInv' /\ AssocInv'
    BY <1>1, <1>2, <1>6 DEF IInv, SeedInv, CallInv, AssocInv, Reseeding, GlobalBusy
  <2> QED
    BY <2>1, <2>2, <2>3 DEF IInv
<1>7. CASE glob.live /\ ~ UNCHANGED glob
  <2>1. PICK e \in {glob.era, era} : glob' = [glob EXCEPT !.era = e, !.count = 1, !.zeroed = TRUE]
    BY <1>7 DEF ZeroizeGlobal
  <2>2. e \in 0 .. MaxEra /\ glob.gen <= e
    BY <1>3, <1>5, <1>7 DEF IInv, GenInv, AssocInv
  <2>3. glob' \in Drbg(MaxGlobal) /\ glob'.live = glob.live /\ glob'.gen = glob.gen /\ glob'.era = e
    BY <1>3, <2>1, <2>2, SeededDrbg, TreeAssumption DEF Drbg
  <2>4. TypeOK'
    <3>1. zonce' \in BOOLEAN
      BY <1>1, Zenon
    <3> QED
      BY <1>1, <1>2, <2>3, <3>1 DEF IInv, TypeOK
  <2>5. LockInv'
    BY <1>1, <1>2, <2>3 DEF IInv, LockInv
  <2>6. CountInv'
    BY <1>1, <1>2, <1>4 DEF IInv, CountInv, Locked
  <2>7. GenInv'
    BY <1>2, <2>3 DEF IInv, GenInv
  <2>8. SeedInv' /\ CallInv'
    BY <1>1, <1>2, <2>3 DEF IInv, SeedInv, CallInv, Reseeding
  <2>9. AssocInv'
    BY <1>1, <1>2, <2>2, <2>3 DEF IInv, AssocInv, Reseeding
  <2> QED
    BY <2>4, <2>5, <2>6, <2>7, <2>8, <2>9 DEF IInv
<1> QED
  BY <1>6, <1>7 DEF ZeroizeGlobal

\* A UBE changes the era alone.
LEMMA UbeKeeps == ASSUME IInv, Ube PROVE IInv'
<1>1. era < MaxEra /\ era' = era + 1
      /\ UNCHANGED <<detected, glob, once, zonce, lock, drbg, pc, seed, begun>>
  BY DEF Ube, local
<1>2. TypeOK'
  BY <1>1, TreeAssumption DEF IInv, TypeOK
<1>3. LockInv' /\ CountInv' /\ SeedInv'
  BY <1>1 DEF IInv, LockInv, CountInv, SeedInv
<1>4. CallInv' /\ AssocInv'
  BY <1>1 DEF IInv, CallInv, AssocInv, Reseeding, GlobalBusy
<1>5. GenInv'
  <2>1. era \in Nat /\ glob.gen \in Nat /\ \A t \in Thread : drbg[t].gen \in Nat /\ begun[t] \in Nat
    BY DEF IInv, TypeOK, Drbg
  <2> QED
    BY <1>1, <2>1 DEF IInv, GenInv
<1> QED
  BY <1>2, <1>3, <1>4, <1>5 DEF IInv

\* A step that changes nothing.
LEMMA StutterKeeps == ASSUME IInv, UNCHANGED vars PROVE IInv'
<1>1. UNCHANGED <<era, detected, glob, once, zonce, lock, drbg, pc, seed, begun>>
  BY DEF vars, world
<1>2. TypeOK' /\ LockInv' /\ CountInv' /\ GenInv'
  BY <1>1 DEF IInv, TypeOK, LockInv, CountInv, GenInv
<1>3. SeedInv' /\ CallInv' /\ AssocInv'
  BY <1>1 DEF IInv, SeedInv, CallInv, AssocInv, Reseeding, GlobalBusy
<1> QED
  BY <1>2, <1>3 DEF IInv

\* Every step of the tree keeps the invariant.
LEMMA NextKeeps == IInv /\ [Next]_vars => IInv'
<1> SUFFICES ASSUME IInv, [Next]_vars PROVE IInv'
  OBVIOUS
<1>1. ASSUME NEW t \in Thread, Step(t) PROVE IInv'
  <2>1. CASE OnceBegin(t) \/ OnceRoot(t) \/ OnceEnd(t) \/ OnceSkip(t) \/ Sample(t) \/ ThreadInit(t)
    BY <2>1, OnceBeginKeeps, OnceRootKeeps, OnceEndKeeps, OnceSkipKeeps, SampleKeeps,
       ThreadInitKeeps
  <2>2. CASE Lock(t) \/ GlobalCheck(t) \/ RootSeed(t) \/ GlobalReseed(t) \/ GlobalGenerate(t)
    BY <2>2, LockKeeps, GlobalCheckKeeps, RootSeedKeeps, GlobalReseedKeeps, GlobalGenerateKeeps
  <2>3. CASE ThreadCheck(t) \/ ThreadReseed(t) \/ PredResistance(t) \/ ThreadGenerate(t)
    BY <2>3, ThreadCheckKeeps, ThreadReseedKeeps, PredResistanceKeeps, ThreadGenerateKeeps
  <2> QED
    BY <1>1, <2>1, <2>2, <2>3 DEF Step
<1>2. ASSUME NEW t \in Thread, Initialize(t) \/ GetSeed(t) \/ FreeThread(t) \/ ZeroizeThread(t)
      PROVE IInv'
  BY <1>2, InitializeKeeps, GetSeedKeeps, FreeThreadKeeps, ZeroizeThreadKeeps
<1> QED
  BY <1>1, <1>2, ZeroizeGlobalKeeps, UbeKeeps, StutterKeeps DEF Next

-----------------------------------------------------------------------------
(* TreeDrbg: the theorems.                                                  *)

\* The invariant is inductive.
THEOREM Inductive == Spec => []IInv
<1> QED
  BY InitHolds, NextKeeps, PTL DEF Spec

\* A DRBG never carries a generation number newer than its entropy
\* (Associated), for any number of threads and any generate limits: a UBE after
\* the entropy was drawn is seen at the next check.
THEOREM AssociatedAlways == Spec => []Associated
<1>1. IInv => Associated
  BY DEF IInv, AssocInv, Associated
<1> QED
  BY Inductive, <1>1, PTL

\* The seed a call returns is no older than the call (SeedFresh), with and
\* without detection of UBEs: either the number was compared after the call
\* began, or prediction resistance was drawn after it.
THEOREM SeedsAreFresh == Spec => SeedFresh
<1>1. ASSUME IInv, [Next]_vars, NEW t \in Thread,
             pc[t] = "output", pc'[t] = "idle", ~ drbg[t].zeroed
      PROVE  seed'[t] >= begun[t]
  <2>1. ThreadGenerate(t)
    <3>1. \A s \in Thread, place \in Pc : Goto(s, place) /\ s # t => pc'[t] = pc[t]
      BY <1>1 DEF IInv, TypeOK, Goto
    <3>2. ASSUME NEW s \in Thread, Step(s), ~ ThreadGenerate(t) PROVE FALSE
      BY <1>1, <3>1, <3>2 DEF Step, OnceBegin, OnceRoot, OnceEnd, OnceSkip, Sample, ThreadInit,
         Lock,
         GlobalCheck, RootSeed, GlobalReseed, GlobalGenerate, ThreadCheck, ThreadReseed,
         PredResistance, ThreadGenerate, Pc
    <3>3. ASSUME NEW s \in Thread, Initialize(s) \/ GetSeed(s) \/ FreeThread(s) \/ ZeroizeThread(s)
          PROVE FALSE
      BY <1>1, <3>1, <3>3 DEF Initialize, GetSeed, FreeThread, ZeroizeThread, Pc, local
    <3>4. ~ ZeroizeGlobal /\ ~ Ube /\ ~ UNCHANGED vars
      BY <1>1 DEF ZeroizeGlobal, Ube, vars, local
    <3> QED
      BY <1>1, <3>2, <3>3, <3>4 DEF Next
  <2>2. seed'[t] = Fresher(drbg[t].era, seed[t])
    BY <1>1, <2>1 DEF ThreadGenerate, IInv, TypeOK
  <2>3. drbg[t].era \in Nat /\ drbg[t].gen \in Nat /\ seed[t] \in Nat /\ begun[t] \in Nat
    BY <1>1 DEF IInv, TypeOK, Drbg
  <2>4. CASE detected
    <3>1. drbg[t].live
      BY <1>1 DEF IInv, CallInv
    <3>2. begun[t] <= drbg[t].gen
      BY <1>1, <2>4, <3>1 DEF IInv, CallInv
    <3>3. drbg[t].gen <= drbg[t].era
      BY <1>1, <3>1 DEF IInv, AssocInv, Reseeding
    <3> QED
      BY <2>2, <2>3, <3>2, <3>3 DEF Fresher
  <2>5. CASE ~ detected
    <3>1. begun[t] <= seed[t]
      BY <1>1, <2>5 DEF IInv, CallInv
    <3> QED
      BY <2>2, <2>3, <3>1 DEF Fresher
  <2> QED
    BY <2>4, <2>5
<1>2. IInv /\ [Next]_vars =>
        [\A t \in Thread : (pc[t] = "output" /\ pc'[t] = "idle" /\ ~ drbg[t].zeroed)
                             => seed'[t] >= begun[t]]_vars
  BY <1>1
<1> QED
  BY Inductive, <1>2, PTL DEF Spec, SeedFresh

-------------------------------------------------------------------------------
(* Ube: the inductive invariant.                                           *)

\* What the detection methods would answer now.
ForkNow == IF forkPage = "wiped" THEN fgn + 1 ELSE fgn
VmNow == IF vmState = "success" THEN sysgenid ELSE 0

\* An event has happened that the cached numbers do not account for.
Undetected == cachedFork < ForkNow \/ cachedVm < VmNow

Started == {"fork_1", "vm_1", "compare", "lock", "fork_2", "vm_2", "update"}

\* How far the initialisation is.
UbeOnceInv ==
  /\ ubeOnce # "done" =>
       /\ vmState = "unknown" /\ cachedVm = 0 /\ highest = 0 /\ floor = 0 /\ ~unavailable
       /\ \A t \in Threads : result[t].ret = 0
  /\ \A t \in Threads : ubePc[t] \in Started \cup {"check"} => ubeOnce = "done"
  /\ \A t \in Threads : ubePc[t] \in {"init_fork", "init_vm"} => ubeOnce = "running"
  /\ \A t, u \in Threads : ubePc[t] \in {"init_fork", "init_vm"} /\ ubePc[u] \in {"init_fork", "init_vm"} => t = u
  /\ ubeOnce = "no" => forkPage = "unmapped"
  /\ \A t \in Threads : ubePc[t] = "init_fork" => forkPage = "unmapped"
  /\ \A t \in Threads : ubePc[t] = "init_vm" =>
       forkPage # "unmapped" /\ (ok[t] <=> forkPage # "none")
  /\ ubeOnce = "done" /\ ~unavailable =>
       forkPage \in {"set", "wiped"} /\ vmState \in {"unsupported", "success"}
  /\ unavailable => \A t \in Threads : result[t].ret = 0 /\ ubePc[t] \notin Started

\* The cached numbers are never ahead of the methods, and neither the methods nor
\* the generation number count more than the events.
UbeCountInv ==
  /\ forkPage \in {"unmapped", "none"} => fgn = 0 /\ cachedFork = 0
  /\ forkPage \notin {"unmapped", "none"} => cachedFork >= 1
  /\ forkPage = "unmapped" => gn = 0
  /\ vmState # "success" => sysgenid = 0
  /\ cachedFork <= fgn
  /\ cachedVm <= VmNow
  /\ gn = 0 \/ gn + 1 <= cachedFork + cachedVm
  /\ ForkNow + sysgenid <= events + 1

\* A floor above the generation number means that an event is still undetected.
UbeFloorInv ==
  /\ highest <= gn
  /\ floor <= gn + 1
  /\ floor > gn => Undetected

\* The same for the running calls, whatever they have read so far.
UbeCallInv(t) ==
  /\ result[t].ret = 1 /\ ubePc[t] = "idle" => result[t].gn >= low[t]
  /\ low[t] <= gn + 1
  /\ ubePc[t] \notin {"idle", "vm_1", "compare", "vm_2", "update"} /\ low[t] > gn => Undetected
  /\ ubePc[t] \in {"vm_1", "vm_2"} /\ low[t] > gn => fork[t] > cachedFork \/ VmNow > cachedVm
  /\ ubePc[t] \in {"compare", "update"} /\ low[t] > gn => fork[t] > cachedFork \/ vm[t] > cachedVm
  /\ ubePc[t] \in {"vm_1", "compare", "vm_2", "update"} => fork[t] <= fgn /\ ok[t]
  /\ ubePc[t] \in {"compare", "update"} => vm[t] <= VmNow
  /\ ubePc[t] \in {"vm_2", "update"} => cachedFork <= fork[t]
  /\ ubePc[t] = "update" => cachedVm <= vm[t]
  /\ ubePc[t] \in {"fork_2", "vm_2", "update"} <=> writer = t

UbeIInv ==
  /\ UbeTypeOK
  /\ UbeOnceInv
  /\ UbeCountInv
  /\ UbeFloorInv
  /\ \A t \in Threads : UbeCallInv(t)
-------------------------------------------------------------------------------
(* Ube: initially, and one lemma per action.                               *)

\* What a call may return.
LEMMA UbeReturns ==
  /\ UbeNone \in [ret : {0, 1}, gn : Nat] /\ UbeNone.ret = 0
  /\ \A n \in Nat : [ret |-> 1, gn |-> n] \in [ret : {0, 1}, gn : Nat]
BY DEF UbeNone

\* The invariant holds initially.
LEMMA UbeInitIInv == UbeInit => UbeIInv
<1> SUFFICES ASSUME UbeInit PROVE UbeIInv
  OBVIOUS
<1> USE UbeAssumption DEF UbeInit
<1>1. UbeTypeOK
  <2>1. events \in 0..MaxEvents
    BY DEF UbeInit
  <2>2. result \in [Threads -> [ret : {0, 1}, gn : Nat]]
    BY UbeReturns
  <2> QED BY <2>1, <2>2 DEF UbeTypeOK, PCs
<1>2. UbeOnceInv
  BY DEF UbeOnceInv, Started, UbeNone
<1>3. UbeCountInv /\ UbeFloorInv
  BY DEF UbeCountInv, UbeFloorInv, ForkNow, VmNow
<1>4. ASSUME NEW t \in Threads PROVE UbeCallInv(t)
  <2>1. ubePc[t] = "idle" /\ result[t].ret = 0 /\ low[t] = 0 /\ gn = 0 /\ writer # t
    BY UbeReturns
  <2> QED BY <2>1 DEF UbeCallInv
<1> QED
  BY <1>1, <1>2, <1>3, <1>4 DEF UbeIInv

\* WipePage: what has been returned is stale, and the wiped page will tell.
LEMMA UbeWipeKeeps ==
  ASSUME UbeIInv, WipePage
  PROVE  UbeIInv'
<1> USE UbeAssumption DEF WipePage, Break, state, locals
<1>1. UbeTypeOK /\ UbeOnceInv /\ UbeCountInv /\ UbeFloorInv
      /\ \A u \in Threads : UbeCallInv(u)
  BY DEF UbeIInv
<1>2. UbeTypeOK'
  BY <1>1 DEF UbeTypeOK, PCs, UbeNone
<1>3. UbeOnceInv'
  BY <1>1 DEF UbeTypeOK, UbeOnceInv, Started, UbeNone
<1>4. UbeCountInv'
  BY <1>1 DEF UbeTypeOK, UbeOnceInv, UbeCountInv, ForkNow, VmNow, UbeCallInv, Started
<1>5. UbeFloorInv'
  BY <1>1 DEF UbeTypeOK, UbeOnceInv, UbeCountInv, UbeFloorInv, Undetected, ForkNow, VmNow,
     UbeCallInv
<1>6. ASSUME NEW u \in Threads PROVE UbeCallInv(u)'
  BY <1>1 DEF UbeTypeOK, UbeOnceInv, UbeCountInv, UbeFloorInv, Undetected, ForkNow, VmNow,
     UbeCallInv, Started
<1> QED
  BY <1>2, <1>3, <1>4, <1>5, <1>6 DEF UbeIInv

\* ResumeVm: what has been returned is stale, and the VM number will tell.
LEMMA UbeResumeKeeps ==
  ASSUME UbeIInv, ResumeVm
  PROVE  UbeIInv'
<1> USE UbeAssumption DEF ResumeVm, Break, state, locals
<1>1. UbeTypeOK /\ UbeOnceInv /\ UbeCountInv /\ UbeFloorInv
      /\ \A u \in Threads : UbeCallInv(u)
  BY DEF UbeIInv
<1>2. UbeTypeOK'
  BY <1>1 DEF UbeTypeOK, PCs, UbeNone
<1>3. UbeOnceInv'
  BY <1>1 DEF UbeTypeOK, UbeOnceInv, Started, UbeNone
<1>4. UbeCountInv'
  BY <1>1 DEF UbeTypeOK, UbeOnceInv, UbeCountInv, ForkNow, VmNow, UbeCallInv, Started
<1>5. UbeFloorInv'
  BY <1>1 DEF UbeTypeOK, UbeOnceInv, UbeCountInv, UbeFloorInv, Undetected, ForkNow, VmNow,
     UbeCallInv
<1>6. ASSUME NEW u \in Threads PROVE UbeCallInv(u)'
  BY <1>1 DEF UbeTypeOK, UbeOnceInv, UbeCountInv, UbeFloorInv, Undetected, ForkNow, VmNow,
     UbeCallInv, Started
<1> QED
  BY <1>2, <1>3, <1>4, <1>5, <1>6 DEF UbeIInv

\* Call: the call is bound by the floor and by what was returned.
LEMMA UbeCallKeeps ==
  ASSUME UbeIInv, NEW t \in Threads, Call(t)
  PROVE  UbeIInv'
<1> USE UbeAssumption DEF Call, UbeGoto, detectors, state, locals
<1>1. UbeTypeOK /\ UbeOnceInv /\ UbeCountInv /\ UbeFloorInv
      /\ \A u \in Threads : UbeCallInv(u)
  BY DEF UbeIInv
<1>2. UbeTypeOK'
  BY <1>1 DEF UbeTypeOK, PCs, UbeNone
<1>3. UbeOnceInv'
  BY <1>1 DEF UbeTypeOK, UbeOnceInv, Started, UbeNone
<1>4. UbeCountInv'
  BY <1>1 DEF UbeTypeOK, UbeOnceInv, UbeCountInv, ForkNow, VmNow, UbeCallInv, Started
<1>5. UbeFloorInv'
  BY <1>1 DEF UbeTypeOK, UbeOnceInv, UbeCountInv, UbeFloorInv, Undetected, ForkNow, VmNow,
     UbeCallInv
<1>6. ASSUME NEW u \in Threads PROVE UbeCallInv(u)'
  BY <1>1 DEF UbeTypeOK, UbeOnceInv, UbeCountInv, UbeFloorInv, Undetected, ForkNow, VmNow,
     UbeCallInv, Started
<1> QED
  BY <1>2, <1>3, <1>4, <1>5, <1>6 DEF UbeIInv

\* Once: one thread initialises.
LEMMA UbeOnceKeeps ==
  ASSUME UbeIInv, NEW t \in Threads, Once(t)
  PROVE  UbeIInv'
<1> USE UbeAssumption DEF Once, UbeGoto, detectors, state, locals, history
<1>1. UbeTypeOK /\ UbeOnceInv /\ UbeCountInv /\ UbeFloorInv
      /\ \A u \in Threads : UbeCallInv(u)
  BY DEF UbeIInv
<1>2. UbeTypeOK'
  BY <1>1 DEF UbeTypeOK, PCs, UbeNone
<1>3. UbeOnceInv'
  BY <1>1 DEF UbeTypeOK, UbeOnceInv, Started, UbeNone
<1>4. UbeCountInv'
  BY <1>1 DEF UbeTypeOK, UbeOnceInv, UbeCountInv, ForkNow, VmNow, UbeCallInv, Started
<1>5. UbeFloorInv'
  BY <1>1 DEF UbeTypeOK, UbeOnceInv, UbeCountInv, UbeFloorInv, Undetected, ForkNow, VmNow,
     UbeCallInv
<1>6. ASSUME NEW u \in Threads PROVE UbeCallInv(u)'
  BY <1>1 DEF UbeTypeOK, UbeOnceInv, UbeCountInv, UbeFloorInv, Undetected, ForkNow, VmNow,
     UbeCallInv, Started
<1> QED
  BY <1>2, <1>3, <1>4, <1>5, <1>6 DEF UbeIInv

\* InitFork: the fork number is cached.
LEMMA UbeInitForkKeeps ==
  ASSUME UbeIInv, NEW t \in Threads, InitFork(t)
  PROVE  UbeIInv'
<1> USE UbeAssumption DEF InitFork, init_fork_detect, UbeGoto, history
<1>1. UbeTypeOK /\ UbeOnceInv /\ UbeCountInv /\ UbeFloorInv
      /\ \A u \in Threads : UbeCallInv(u)
  BY DEF UbeIInv
<1>2. UbeTypeOK'
  BY <1>1 DEF UbeTypeOK, PCs, UbeNone
<1>3. UbeOnceInv'
  BY <1>1 DEF UbeTypeOK, UbeOnceInv, Started, UbeNone
<1>4. UbeCountInv'
  BY <1>1 DEF UbeTypeOK, UbeOnceInv, UbeCountInv, ForkNow, VmNow, UbeCallInv, Started
<1>5. UbeFloorInv'
  BY <1>1 DEF UbeTypeOK, UbeOnceInv, UbeCountInv, UbeFloorInv, Undetected, ForkNow, VmNow,
     UbeCallInv
<1>6. ASSUME NEW u \in Threads PROVE UbeCallInv(u)'
  BY <1>1 DEF UbeTypeOK, UbeOnceInv, UbeCountInv, UbeFloorInv, Undetected, ForkNow, VmNow,
     UbeCallInv, Started
<1> QED
  BY <1>2, <1>3, <1>4, <1>5, <1>6 DEF UbeIInv

\* InitVm: the VM number is cached, and the outcome settled.
LEMMA UbeInitVmKeeps ==
  ASSUME UbeIInv, NEW t \in Threads, InitVm(t)
  PROVE  UbeIInv'
<1> USE UbeAssumption DEF InitVm, do_sysgenid_init, UbeGoto, locals, history
<1>1. UbeTypeOK /\ UbeOnceInv /\ UbeCountInv /\ UbeFloorInv
      /\ \A u \in Threads : UbeCallInv(u)
  BY DEF UbeIInv
<1>2. UbeTypeOK'
  BY <1>1 DEF UbeTypeOK, PCs, UbeNone
<1>3. UbeOnceInv'
  BY <1>1 DEF UbeTypeOK, UbeOnceInv, Started, UbeNone
<1>4. UbeCountInv'
  BY <1>1 DEF UbeTypeOK, UbeOnceInv, UbeCountInv, ForkNow, VmNow, UbeCallInv, Started
<1>5. UbeFloorInv'
  BY <1>1 DEF UbeTypeOK, UbeOnceInv, UbeCountInv, UbeFloorInv, Undetected, ForkNow, VmNow,
     UbeCallInv
<1>6. ASSUME NEW u \in Threads PROVE UbeCallInv(u)'
  BY <1>1 DEF UbeTypeOK, UbeOnceInv, UbeCountInv, UbeFloorInv, Undetected, ForkNow, VmNow,
     UbeCallInv, Started
<1> QED
  BY <1>2, <1>3, <1>4, <1>5, <1>6 DEF UbeIInv

\* Check: the call goes on, or detection is unavailable.
LEMMA UbeCheckKeeps ==
  ASSUME UbeIInv, NEW t \in Threads, Check(t)
  PROVE  UbeIInv'
<1> USE UbeAssumption DEF Check, Return, UbeGoto, detectors, state, locals, history
<1>1. UbeTypeOK /\ UbeOnceInv /\ UbeCountInv /\ UbeFloorInv
      /\ \A u \in Threads : UbeCallInv(u)
  BY DEF UbeIInv
<1>2. CASE unavailable
  <2>1. /\ ubePc' = [ubePc EXCEPT ![t] = "idle"]
        /\ result' = [result EXCEPT ![t] = UbeNone]
        /\ fork' = [fork EXCEPT ![t] = 0] /\ vm' = [vm EXCEPT ![t] = 0] /\ ok' = [ok EXCEPT ![t] = TRUE]
        /\ UNCHANGED <<forkPage, fgn, vmState, sysgenid, ubeOnce, unavailable, gn, cachedFork,
                       cachedVm,
                       writer, events, highest, floor, low>>
    BY <1>2, UbeReturns
  <2> HIDE DEF Check
  <2>2. UbeTypeOK'
    BY <1>1, <2>1, UbeReturns DEF UbeTypeOK, PCs
  <2>3. UbeOnceInv'
    BY <1>1, <1>2, <2>1, UbeReturns DEF UbeTypeOK, UbeOnceInv, Started
  <2>4. UbeCountInv' /\ UbeFloorInv'
    BY <1>1, <2>1 DEF UbeCountInv, UbeFloorInv, Undetected, ForkNow, VmNow
  <2>5. ASSUME NEW u \in Threads PROVE UbeCallInv(u)'
    <3>1. result'[u].ret = 0
      BY <1>1, <1>2, <2>1, UbeReturns DEF UbeTypeOK, UbeOnceInv
    <3>2. ubePc[t] = "check"
      BY DEF Check
    <3> QED
      BY <1>1, <2>1, <3>1, <3>2 DEF UbeTypeOK, UbeCallInv, Undetected, ForkNow, VmNow
  <2> QED
    BY <2>2, <2>3, <2>4, <2>5 DEF UbeIInv
<1>3. CASE ~unavailable
  <2>1. UbeTypeOK' /\ UbeOnceInv'
    BY <1>1, <1>3 DEF UbeTypeOK, PCs, UbeOnceInv, Started
  <2>2. UbeCountInv' /\ UbeFloorInv'
    BY <1>1, <1>3 DEF UbeCountInv, UbeFloorInv, Undetected, ForkNow, VmNow
  <2>3. ASSUME NEW u \in Threads PROVE UbeCallInv(u)'
    BY <1>1, <1>3 DEF UbeTypeOK, UbeCallInv, Undetected, ForkNow, VmNow
  <2> QED
    BY <2>1, <2>2, <2>3 DEF UbeIInv
<1> QED
  BY <1>2, <1>3

\* ReadFork: whoever sees the wiped page turns it into a number.
LEMMA UbeReadForkKeeps ==
  ASSUME UbeIInv, NEW t \in Threads, ReadFork(t)
  PROVE  UbeIInv'
<1> USE UbeAssumption DEF ReadFork, CRYPTO_get_fork_ube_generation, UbeGoto, state, history
<1>1. UbeTypeOK /\ UbeOnceInv /\ UbeCountInv /\ UbeFloorInv
      /\ \A u \in Threads : UbeCallInv(u)
  BY DEF UbeIInv
<1>2. UbeTypeOK'
  BY <1>1 DEF UbeTypeOK, PCs, UbeNone
<1>3. UbeOnceInv'
  BY <1>1 DEF UbeTypeOK, UbeOnceInv, Started, UbeNone
<1>4. UbeCountInv'
  BY <1>1 DEF UbeTypeOK, UbeOnceInv, UbeCountInv, ForkNow, VmNow, UbeCallInv, Started
<1>5. UbeFloorInv'
  BY <1>1 DEF UbeTypeOK, UbeOnceInv, UbeCountInv, UbeFloorInv, Undetected, ForkNow, VmNow,
     UbeCallInv
<1>6. ASSUME NEW u \in Threads PROVE UbeCallInv(u)'
  <2>1. ForkNow' = ForkNow /\ VmNow' = VmNow /\ fgn <= fgn' /\ (Undetected' <=> Undetected)
    BY <1>1 DEF UbeTypeOK, ForkNow, VmNow, Undetected
  <2>2. CASE u = t
    <3>1. fork'[t] = ForkNow /\ fgn' = ForkNow /\ vm' = vm /\ low' = low
      BY <1>1 DEF UbeTypeOK, ForkNow
    <3>2. ok'[t]
      BY <1>1 DEF UbeTypeOK, UbeOnceInv, Started
    <3>3. ForkNow \in Nat /\ VmNow \in Nat /\ cachedFork <= ForkNow
      BY <1>1 DEF UbeTypeOK, ForkNow, VmNow, UbeCountInv
    <3> QED
      BY <1>1, <2>1, <2>2, <3>1, <3>2, <3>3 DEF UbeTypeOK, UbeCallInv, Undetected
  <2>3. CASE u # t
    BY <1>1, <2>1, <2>3 DEF UbeTypeOK, UbeCallInv
  <2> QED BY <2>2, <2>3
<1> QED
  BY <1>2, <1>3, <1>4, <1>5, <1>6 DEF UbeIInv

\* ReadVm: the VM number is read after the fork number.
LEMMA UbeReadVmKeeps ==
  ASSUME UbeIInv, NEW t \in Threads, ReadVm(t)
  PROVE  UbeIInv'
<1> USE UbeAssumption DEF ReadVm, CRYPTO_get_vm_ube_generation, UbeGoto, state, history
<1>1. UbeTypeOK /\ UbeOnceInv /\ UbeCountInv /\ UbeFloorInv
      /\ \A u \in Threads : UbeCallInv(u)
  BY DEF UbeIInv
<1>2. UbeTypeOK'
  BY <1>1 DEF UbeTypeOK, PCs, UbeNone
<1>3. UbeOnceInv'
  BY <1>1 DEF UbeTypeOK, UbeOnceInv, Started, UbeNone
<1>4. UbeCountInv'
  BY <1>1 DEF UbeTypeOK, UbeOnceInv, UbeCountInv, ForkNow, VmNow, UbeCallInv, Started
<1>5. UbeFloorInv'
  BY <1>1 DEF UbeTypeOK, UbeOnceInv, UbeCountInv, UbeFloorInv, Undetected, ForkNow, VmNow,
     UbeCallInv
<1>6. ASSUME NEW u \in Threads PROVE UbeCallInv(u)'
  BY <1>1 DEF UbeTypeOK, UbeOnceInv, UbeCountInv, UbeFloorInv, Undetected, ForkNow, VmNow,
     UbeCallInv, Started
<1> QED
  BY <1>2, <1>3, <1>4, <1>5, <1>6 DEF UbeIInv

\* Compare: numbers that match the cached ones prove that nothing is undetected.
LEMMA UbeCompareKeeps ==
  ASSUME UbeIInv, NEW t \in Threads, Compare(t)
  PROVE  UbeIInv'
<1> USE UbeAssumption DEF Compare, ube_is_detected, Return, UbeGoto, detectors, state,
        locals, history
<1>1. UbeTypeOK /\ UbeOnceInv /\ UbeCountInv /\ UbeFloorInv
      /\ \A u \in Threads : UbeCallInv(u)
  BY DEF UbeIInv
<1>2. UbeTypeOK'
  <2>1. [ret |-> 1, gn |-> gn] \in [ret : {0, 1}, gn : Nat] /\ gn \in Nat
    BY <1>1, UbeReturns DEF UbeTypeOK
  <2>2. result' \in [Threads -> [ret : {0, 1}, gn : Nat]]
    BY <1>1, <2>1 DEF UbeTypeOK
  <2>3. highest' \in Nat
    BY <1>1, <2>1 DEF UbeTypeOK
  <2>4. /\ ubePc' \in [Threads -> PCs] /\ fork' \in [Threads -> Nat] /\ vm' \in [Threads -> Nat]
        /\ ok' \in [Threads -> BOOLEAN]
    <3> HIDE DEF ube_is_detected
    <3>1. CASE ube_is_detected(t)
      BY <1>1, <3>1 DEF UbeTypeOK, PCs
    <3>2. CASE ~ube_is_detected(t)
      <4>1. /\ ubePc' = [ubePc EXCEPT ![t] = "idle"] /\ fork' = [fork EXCEPT ![t] = 0]
            /\ vm' = [vm EXCEPT ![t] = 0] /\ ok' = [ok EXCEPT ![t] = TRUE]
        BY <3>2
      <4> HIDE DEF Compare
      <4> QED BY <1>1, <4>1 DEF UbeTypeOK, PCs
    <3> QED BY <3>1, <3>2
  <2>5. UNCHANGED <<forkPage, fgn, vmState, sysgenid, ubeOnce, unavailable, gn, cachedFork,
                    cachedVm,
                    writer, events, floor, low>>
    OBVIOUS
  <2> HIDE DEF Compare
  <2> QED BY <1>1, <2>2, <2>3, <2>4, <2>5 DEF UbeTypeOK
<1>3. UbeOnceInv'
  BY <1>1 DEF UbeTypeOK, UbeOnceInv, Started, UbeNone
<1>4. UbeCountInv'
  BY <1>1 DEF UbeTypeOK, UbeOnceInv, UbeCountInv, ForkNow, VmNow, UbeCallInv, Started
<1>5. UbeFloorInv'
  BY <1>1 DEF UbeTypeOK, UbeOnceInv, UbeCountInv, UbeFloorInv, Undetected, ForkNow, VmNow,
     UbeCallInv
<1>6. ASSUME NEW u \in Threads PROVE UbeCallInv(u)'
  BY <1>1 DEF UbeTypeOK, UbeOnceInv, UbeCountInv, UbeFloorInv, Undetected, ForkNow, VmNow,
     UbeCallInv, Started
<1> QED
  BY <1>2, <1>3, <1>4, <1>5, <1>6 DEF UbeIInv

\* Lock: from here on the cached numbers stay.
LEMMA UbeLockKeeps ==
  ASSUME UbeIInv, NEW t \in Threads, UbeLock(t)
  PROVE  UbeIInv'
<1> USE UbeAssumption DEF UbeLock, UbeGoto, detectors, state, locals, history
<1>1. UbeTypeOK /\ UbeOnceInv /\ UbeCountInv /\ UbeFloorInv
      /\ \A u \in Threads : UbeCallInv(u)
  BY DEF UbeIInv
<1>2. UbeTypeOK'
  BY <1>1 DEF UbeTypeOK, PCs, UbeNone
<1>3. UbeOnceInv'
  BY <1>1 DEF UbeTypeOK, UbeOnceInv, Started, UbeNone
<1>4. UbeCountInv'
  BY <1>1 DEF UbeTypeOK, UbeOnceInv, UbeCountInv, ForkNow, VmNow, UbeCallInv, Started
<1>5. UbeFloorInv'
  BY <1>1 DEF UbeTypeOK, UbeOnceInv, UbeCountInv, UbeFloorInv, Undetected, ForkNow, VmNow,
     UbeCallInv
<1>6. ASSUME NEW u \in Threads PROVE UbeCallInv(u)'
  BY <1>1 DEF UbeTypeOK, UbeOnceInv, UbeCountInv, UbeFloorInv, Undetected, ForkNow, VmNow,
     UbeCallInv, Started
<1> QED
  BY <1>2, <1>3, <1>4, <1>5, <1>6 DEF UbeIInv

\* Update: the number grows if, and only if, the numbers did.
LEMMA UbeUpdateKeeps ==
  ASSUME UbeIInv, NEW t \in Threads, Update(t)
  PROVE  UbeIInv'
<1> USE UbeAssumption DEF Update, ube_update_state, ube_is_detected, Return, UbeGoto,
        detectors, state
<1>1. UbeTypeOK /\ UbeOnceInv /\ UbeCountInv /\ UbeFloorInv
      /\ \A u \in Threads : UbeCallInv(u)
  BY DEF UbeIInv
<1>2. UbeTypeOK'
  BY <1>1 DEF UbeTypeOK, PCs, UbeNone
<1>3. UbeOnceInv'
  BY <1>1 DEF UbeTypeOK, UbeOnceInv, Started, UbeNone
<1>4. UbeCountInv'
  <2>1. /\ UNCHANGED <<forkPage, fgn, vmState, sysgenid, events>> /\ ubePc[t] = "update"
        /\ \/ /\ cachedFork # fork[t] \/ cachedVm # vm[t]
              /\ gn' = gn + 1 /\ cachedFork' = fork[t] /\ cachedVm' = vm[t]
           \/ UNCHANGED <<gn, cachedFork, cachedVm>>
    BY <1>1
  <2>2. /\ fork[t] <= fgn /\ cachedFork <= fork[t] /\ vm[t] <= VmNow /\ cachedVm <= vm[t]
        /\ fork[t] \in Nat /\ vm[t] \in Nat /\ gn \in Nat /\ cachedFork \in Nat /\ cachedVm \in Nat
        /\ fgn \in Nat /\ VmNow \in Nat
    BY <1>1, <2>1 DEF UbeCallInv, UbeTypeOK, VmNow
  <2>3. ubeOnce = "done" /\ ~unavailable /\ forkPage \in {"set", "wiped"}
    BY <1>1, <2>1 DEF UbeOnceInv, Started, UbeTypeOK
  <2>4. VmNow' = VmNow /\ ForkNow' = ForkNow
    BY <2>1 DEF VmNow, ForkNow
  <2> QED
    BY <1>1, <2>1, <2>2, <2>3, <2>4 DEF UbeCountInv
<1>5. UbeFloorInv'
  BY <1>1 DEF UbeTypeOK, UbeOnceInv, UbeCountInv, UbeFloorInv, Undetected, ForkNow, VmNow,
     UbeCallInv
<1>6. ASSUME NEW u \in Threads PROVE UbeCallInv(u)'
  BY <1>1 DEF UbeTypeOK, UbeOnceInv, UbeCountInv, UbeFloorInv, Undetected, ForkNow, VmNow,
     UbeCallInv, Started
<1> QED
  BY <1>2, <1>3, <1>4, <1>5, <1>6 DEF UbeIInv

-------------------------------------------------------------------------------
(* Ube: the theorems.                                                      *)

\* Every step preserves the invariant.
LEMMA UbeNextKeeps == UbeIInv /\ [UbeNext]_ubeVars => UbeIInv'
<1> SUFFICES ASSUME UbeIInv, [UbeNext]_ubeVars PROVE UbeIInv'
  OBVIOUS
<1>1. CASE UNCHANGED ubeVars
  BY <1>1 DEF ubeVars, detectors, state, locals, history, UbeIInv, UbeTypeOK, UbeOnceInv,
     UbeCountInv, UbeFloorInv, UbeCallInv, Undetected, ForkNow, VmNow
<1>2. CASE \E t \in Threads : UbeStep(t)
  BY <1>2, UbeCallKeeps, UbeOnceKeeps, UbeInitForkKeeps, UbeInitVmKeeps, UbeCheckKeeps,
     UbeReadForkKeeps, UbeReadVmKeeps, UbeCompareKeeps, UbeLockKeeps, UbeUpdateKeeps
  DEF UbeStep
<1>3. CASE WipePage \/ ResumeVm
  BY <1>3, UbeWipeKeeps, UbeResumeKeeps
<1> QED
  BY <1>1, <1>2, <1>3 DEF UbeNext

\* The invariant that relates the cached numbers, the detection methods, the
\* events and what every running call has read holds in every reachable state.
THEOREM UbeInductive == UbeSpec => []UbeIInv
<1>1. UbeIInv /\ [UbeNext]_ubeVars => UbeIInv'
  BY UbeNextKeeps
<1> QED
  BY <1>1, UbeInitIInv, PTL DEF UbeSpec

\* A call that starts after a UBE returns more than all that returned before it.
THEOREM FreshAfterUbe == UbeSpec => []Fresh
<1>1. UbeIInv => Fresh
  BY DEF UbeIInv, UbeCallInv, Fresh
<1> QED
  BY <1>1, UbeInductive, PTL

\* Threads that detect the same UBE increment the generation number once.
THEOREM CountsEachUbeOnce == UbeSpec => []NoRedundantIncrement
<1>1. ASSUME UbeIInv PROVE NoRedundantIncrement
  <2>1. UbeTypeOK /\ UbeCountInv
    BY <1>1 DEF UbeIInv
  <2>2. cachedFork + cachedVm <= ForkNow + sysgenid
    BY <2>1 DEF UbeTypeOK, UbeCountInv, ForkNow, VmNow
  <2> QED
    BY <2>1, <2>2 DEF UbeTypeOK, UbeCountInv, ForkNow, NoRedundantIncrement
<1> QED
  BY <1>1, UbeInductive, PTL

\* The branches of CRYPTO_get_ube_generation_number that give detection up after a
\* successful initialisation are never taken.
THEOREM DetectionLasts == UbeSpec => []NeverFailsLate
<1>1. UbeIInv => NeverFailsLate
  BY DEF UbeIInv, UbeCallInv, NeverFailsLate, FailedLate
<1> QED
  BY <1>1, UbeInductive, PTL

\* Type correctness.
THEOREM UbeTypeCorrect == UbeSpec => []UbeTypeOK
<1>1. UbeIInv => UbeTypeOK
  BY DEF UbeIInv
<1> QED
  BY <1>1, UbeInductive, PTL
===============================================================================
