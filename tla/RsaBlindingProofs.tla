-------------------------- MODULE RsaBlindingProofs --------------------------
(***************************************************************************)
(* Proofs about RsaBlinding for any number of threads, any limit of the     *)
(* cache (1024 in the code) and any number of uses of a factor (32).        *)
(***************************************************************************)
EXTENDS RsaBlinding, SequenceTheorems, TLAPS

Value == Factor \cup {Unset}
Rec == [live : BOOLEAN, counter : 0 .. Counter - 1, A : Value, Ai : Value]
Local == [pc : Pc, b : Blinding \cup {None}, index : 0 .. MaxBlindings + 1, used : Value]

Holds(t) == th[t].pc \in Holding
InCache(b) == \E i \in DOMAIN blindings : blindings[i] = b

-----------------------------------------------------------------------------
(* The parts of the invariant.                                              *)

\* Types of the key, and of the rest.
KeyType ==
  /\ mont \in 0 .. made /\ made \in 0 .. MaxMont
  /\ parts \in 0 .. Parts /\ frozen \in BOOLEAN

ArrayType ==
  /\ blindings \in Seq(Blinding) /\ Len(blindings) <= MaxBlindings
  /\ inuse \in Seq(BOOLEAN) /\ Len(inuse) = Len(blindings)
  /\ gen \in 1 .. MaxGen /\ rsaGen \in 0 .. gen

FactorType ==
  /\ bases \in 0 .. MaxBase /\ spent \subseteq Factor
  /\ bn \in [Blinding -> Rec]

ThreadType == th \in [Thread -> Local]

\* The components of the key are complete for whoever uses them.
KeyInv ==
  /\ frozen => mont # 0 /\ parts = Parts
  /\ \A t \in Thread : th[t].pc \in UsesKey \ {"public"} => frozen
  /\ \A t \in Thread : th[t].pc = "public" => mont # 0

\* Where the object of an operation is: in its slot, or outside the cache.
HoldsSlot(t) ==
  /\ th[t].index \in DOMAIN blindings
  /\ inuse[th[t].index] /\ blindings[th[t].index] = th[t].b

HoldsOwn(t) == th[t].index = MaxBlindings + 1 /\ ~ InCache(th[t].b)

\* An operation works with a live object, of the current generation.
HoldInv ==
  \A t \in Thread : Holds(t) =>
     /\ th[t].b \in Blinding /\ bn[th[t].b].live /\ rsaGen = gen
     /\ HoldsSlot(t) \/ HoldsOwn(t)

\* The cache holds different live objects, and nothing is lost.
CacheInv ==
  /\ \A i, j \in DOMAIN blindings : blindings[i] = blindings[j] => i = j
  /\ \A i \in DOMAIN blindings : bn[blindings[i]].live
  /\ \A i \in DOMAIN blindings : inuse[i] => \E t \in Thread : Holds(t) /\ th[t].index = i
  /\ \A b \in Blinding : bn[b].live =>
        InCache(b) \/ \E t \in Thread : Holds(t) /\ HoldsOwn(t) /\ th[t].b = b

\* An object that goes on with its values has a pair of them that match, and
\* has squared them less often than it counts.
Steady(b) == bn[b].live /\ ~ Recreates(bn[b])

PairInv ==
  \A b \in Blinding : Steady(b) =>
     bn[b].A \in Factor /\ bn[b].A = bn[b].Ai /\ bn[b].A[2] <= bn[b].counter

\* Bases are drawn once; what an object of the current generation will use
\* next lies after everything spent of its base.
SpentInv ==
  /\ \A b \in Blinding : bn[b].A[1] <= bases
  /\ \A f \in spent : f[1] <= bases
  /\ \A b, c \in Blinding : Steady(b) /\ Steady(c) /\ bn[b].A[1] = bn[c].A[1] => b = c
  /\ rsaGen = gen => \A b \in Blinding : Steady(b) =>
        \A f \in spent : f[1] = bn[b].A[1] => f[2] <= bn[b].A[2]

Types == KeyType /\ ArrayType /\ FactorType /\ ThreadType

\* The cache and the factors; with Types and KeyInv this is inductive.
Rest == HoldInv /\ CacheInv /\ Exclusive /\ PairInv /\ SpentInv /\ Unblinds

-----------------------------------------------------------------------------
(* Helpers.                                                                 *)

\* The two halves of a factor.
LEMMA FactorIs ==
  ASSUME NEW f \in Factor
  PROVE  f[1] \in 1 .. MaxBase /\ f[2] \in 0 .. Counter - 1 /\ f = <<f[1], f[2]>> /\ f # Unset
BY DEF Factor, Unset

\* A base and a number of squarings make a factor.
LEMMA FactorMade ==
  ASSUME NEW m \in 1 .. MaxBase, NEW n \in 0 .. Counter - 1
  PROVE  <<m, n>> \in Factor
BY DEF Factor

\* The type invariant is the conjunction of its parts.
LEMMA TypeParts == TypeOK <=> Types
BY DEF TypeOK, Types, KeyType, ArrayType, FactorType, ThreadType, Rec, Local, Value

\* What Wiped changes: counters, and nothing when the generation is current.
LEMMA WipedIs ==
  ASSUME FactorType, RsaAssumption
  PROVE  /\ Wiped \in [Blinding -> Rec]
         /\ \A b \in Blinding :
              /\ Wiped[b].live = bn[b].live
              /\ Wiped[b].A = bn[b].A /\ Wiped[b].Ai = bn[b].Ai
              /\ Wiped[b].counter \in {bn[b].counter, Counter - 1}
              /\ rsaGen = gen => Wiped[b] = bn[b]
              /\ rsaGen # gen /\ InCache(b) => Wiped[b].counter = Counter - 1
<1>1. ASSUME NEW r \in Rec
      PROVE  /\ BN_BLINDING_invalidate(r) \in Rec
             /\ BN_BLINDING_invalidate(r).live = r.live
             /\ BN_BLINDING_invalidate(r).A = r.A /\ BN_BLINDING_invalidate(r).Ai = r.Ai
             /\ BN_BLINDING_invalidate(r).counter = Counter - 1
  BY RsaAssumption DEF Rec, BN_BLINDING_invalidate
<1>2. ASSUME NEW b \in Blinding
      PROVE  bn[b] \in Rec
  BY DEF FactorType
<1>3. ASSUME NEW b \in Blinding
      PROVE  Wiped[b] = IF rsaGen # gen /\ InCache(b) THEN BN_BLINDING_invalidate(bn[b]) ELSE bn[b]
  BY DEF Wiped, InCache
<1>4. Wiped \in [Blinding -> Rec]
  BY <1>1, <1>2 DEF Wiped
<1> QED
  BY <1>1, <1>2, <1>3, <1>4

-----------------------------------------------------------------------------
(* The frozen key.                                                          *)

\* One thread goes to another place.
Moved(t, place) ==
  /\ th' \in [Thread -> Local]
  /\ \A s \in Thread \ {t} : th'[s] = th[s]
  /\ th'[t].pc = place
  /\ th'[t].b = th[t].b /\ th'[t].index = th[t].index /\ th'[t].used = th[t].used

\* Goto moves one thread.
LEMMA GotoMoves ==
  ASSUME ThreadType, NEW t \in Thread, NEW place \in Pc, Goto(t, place)
  PROVE  Moved(t, place)
BY DEF ThreadType, Goto, Moved, Local

\* A thread moves and the key is as it was.
LEMMA KeyUnchanged ==
  ASSUME KeyInv, NEW t \in Thread, UNCHANGED keyVars,
         \A s \in Thread \ {t} : th'[s] = th[s],
         th'[t].pc \in UsesKey \ {"public"} => frozen,
         th'[t].pc = "public" => mont # 0
  PROVE  KeyInv'
BY DEF KeyInv, keyVars

\* ComputeParts leaves a context, and never replaces one.
LEMMA ComputeKeeps ==
  ASSUME KeyType, ComputeParts
  PROVE  mont' # 0 /\ (mont # 0 => mont' = mont) /\ made' \in 0 .. MaxMont /\ mont' \in 0 .. made'
BY RsaAssumption DEF KeyType, ComputeParts, NewMont

\* The operations that only look at the key, or move on.
KeyAction(t) ==
  \/ Start(t) \/ FreezeCheck(t) \/ freeze_private_key(t)
  \/ MontCheck(t) \/ MontSet(t) \/ PublicDone(t) \/ BN_BLINDING_invert(t)

\* What such an operation does to the threads and to the key.
LEMMA KeyStep ==
  ASSUME Types, KeyInv, NEW t \in Thread, KeyAction(t)
  PROVE  /\ UNCHANGED <<cacheVars, factorVars, gen>>
         /\ \E place \in Pc :
              /\ Moved(t, place)
              /\ place \in Holding <=> th[t].pc \in Holding
              /\ place # "invert"
         /\ KeyType' /\ KeyInv'
         /\ \A s \in Thread : th[s].pc \in UsesKey =>
               /\ mont # 0 /\ mont' = mont
               /\ th[s].pc # "public" => frozen /\ parts = Parts /\ parts' = parts
<1> USE DEF Types
<1> DEFINE Kept ==
      \A s \in Thread : th[s].pc \in UsesKey =>
               /\ mont # 0 /\ mont' = mont
               /\ th[s].pc # "public" => frozen /\ parts = Parts /\ parts' = parts
           To(p) == /\ p \in Pc /\ Moved(t, p)
                    /\ p \in Holding <=> th[t].pc \in Holding
                    /\ p # "invert"
<1>k. ASSUME UNCHANGED keyVars PROVE KeyType' /\ Kept
  BY <1>k DEF KeyInv, keyVars, KeyType, UsesKey
<1>m. ASSUME NEW p, To(p), UNCHANGED keyVars, p \in UsesKey \ {"public"} => frozen, p = "public" => mont # 0
      PROVE  KeyInv'
  BY <1>m, KeyUnchanged DEF Moved
<1>1. ASSUME Start(t)
      PROVE  UNCHANGED <<keyVars, cacheVars, factorVars, gen>> /\ \E p \in {"check", "montCheck"} : To(p)
  BY <1>1, GotoMoves DEF Start, Pc, UsesKey, Holding
<1>2. ASSUME FreezeCheck(t)
      PROVE  UNCHANGED <<keyVars, cacheVars, factorVars, gen>>
             /\ ((frozen /\ To("get")) \/ To("freeze"))
  BY <1>2, GotoMoves DEF FreezeCheck, Pc, UsesKey, Holding
<1>3. ASSUME freeze_private_key(t)
      PROVE  /\ UNCHANGED <<cacheVars, factorVars, gen>>
             /\ KeyType' /\ Kept /\ KeyInv'
             /\ \E p \in {"get", "idle"} : To(p)
  <2>1. UNCHANGED <<cacheVars, factorVars, gen>>
    BY <1>3 DEF freeze_private_key
  <2>2. CASE frozen
    <3>1. UNCHANGED keyVars /\ To("get")
      BY <1>3, <2>2, GotoMoves DEF freeze_private_key, Pc, UsesKey, Holding
    <3> QED
      BY <2>1, <3>1, <1>k, <1>m, <2>2
  <2>3. CASE ~ frozen
    <3>1. To("get") \/ To("idle")
      BY <1>3, <2>3, GotoMoves DEF freeze_private_key, Pc, UsesKey, Holding
    <3>2. ASSUME ComputeParts, parts' = Parts, frozen' = TRUE, To("get")
          PROVE  KeyType' /\ KeyInv' /\ Kept
      <4>1. KeyType' /\ mont' # 0 /\ (mont # 0 => mont' = mont)
        BY <3>2, ComputeKeeps DEF KeyType, Parts
      <4>2. \A s \in Thread : th[s].pc \in UsesKey => th[s].pc = "public" /\ mont # 0
        BY <2>3 DEF KeyInv, UsesKey
      <4> QED
        BY <4>1, <4>2, <3>2 DEF KeyInv, Moved, UsesKey
    <3>3. ASSUME ComputeParts, parts' \in parts .. Parts - 1, frozen' = frozen, To("idle")
          PROVE  KeyType' /\ KeyInv' /\ Kept
      <4>1. KeyType' /\ mont' # 0 /\ (mont # 0 => mont' = mont)
        BY <3>3, ComputeKeeps DEF KeyType, Parts
      <4>2. \A s \in Thread : th[s].pc \in UsesKey => th[s].pc = "public" /\ mont # 0
        BY <2>3 DEF KeyInv, UsesKey
      <4>3. \A s \in Thread : th'[s].pc \in UsesKey => th[s].pc \in UsesKey /\ th'[s].pc = th[s].pc
        BY <3>3 DEF Moved, UsesKey, Holding
      <4> QED
        BY <4>1, <4>2, <4>3, <3>3, <2>3 DEF KeyInv, UsesKey
    <3>4. ASSUME UNCHANGED keyVars, To("idle")
          PROVE  KeyType' /\ KeyInv' /\ Kept
      BY <3>4, <1>k, <1>m DEF UsesKey, Holding
    <3>5. \/ ComputeParts /\ parts' = Parts /\ frozen' = TRUE /\ To("get")
          \/ ComputeParts /\ parts' \in parts .. Parts - 1 /\ frozen' = frozen /\ To("idle")
          \/ UNCHANGED keyVars /\ To("idle")
      BY <1>3, <2>3, GotoMoves DEF freeze_private_key, Pc, UsesKey, Holding
    <3> QED
      BY <2>1, <3>2, <3>3, <3>4, <3>5
  <2> QED
    BY <2>2, <2>3
<1>4. ASSUME MontCheck(t)
      PROVE  UNCHANGED <<keyVars, cacheVars, factorVars, gen>>
             /\ ((mont # 0 /\ To("public")) \/ To("montSet"))
  BY <1>4, GotoMoves DEF MontCheck, Pc, UsesKey, Holding
<1>5. ASSUME MontSet(t)
      PROVE  /\ UNCHANGED <<cacheVars, factorVars, gen>>
             /\ KeyType' /\ Kept /\ KeyInv'
             /\ \E p \in {"public", "idle"} : To(p)
  <2>1. UNCHANGED <<parts, frozen, cacheVars, factorVars, gen>>
    BY <1>5 DEF MontSet
  <2>2. \/ ComputeParts /\ To("public")
        \/ UNCHANGED <<mont, made>> /\ To("idle")
    BY <1>5, GotoMoves DEF MontSet, Pc, UsesKey, Holding
  <2>3. CASE ComputeParts /\ To("public")
    <3>1. KeyType' /\ mont' # 0 /\ (mont # 0 => mont' = mont)
      BY <2>1, <2>3, ComputeKeeps DEF KeyType
    <3>2. \A s \in Thread : th[s].pc \in UsesKey => mont # 0
      BY DEF KeyInv, UsesKey
    <3>3. \A s \in Thread : th'[s].pc \in UsesKey \ {"public"} => th[s].pc \in UsesKey \ {"public"}
      BY <2>3 DEF Moved, UsesKey, Holding
    <3> QED
      BY <2>1, <2>3, <3>1, <3>2, <3>3 DEF KeyInv, UsesKey
  <2>4. CASE UNCHANGED <<mont, made>> /\ To("idle")
    BY <2>1, <2>4, <1>k, <1>m DEF UsesKey, Holding, keyVars
  <2> QED
    BY <2>2, <2>3, <2>4
<1>6. ASSUME PublicDone(t)
      PROVE  UNCHANGED <<keyVars, cacheVars, factorVars, gen>> /\ To("idle")
  BY <1>6, GotoMoves DEF PublicDone, Pc, UsesKey, Holding
<1>7. ASSUME BN_BLINDING_invert(t)
      PROVE  UNCHANGED <<keyVars, cacheVars, factorVars, gen>> /\ To("release") /\ frozen
  <2>1. th[t].pc = "invert" /\ Goto(t, "release") /\ UNCHANGED <<keyVars, cacheVars, factorVars, gen>>
    BY <1>7 DEF BN_BLINDING_invert
  <2>2. To("release")
    BY <2>1, GotoMoves DEF Pc, UsesKey, Holding
  <2> QED
    BY <2>1, <2>2 DEF KeyInv, UsesKey, Holding
<1>u. ASSUME NEW p \in Pc, To(p), UNCHANGED <<keyVars, cacheVars, factorVars, gen>>,
             p \in UsesKey \ {"public"} => frozen, p = "public" => mont # 0
      PROVE  /\ UNCHANGED <<cacheVars, factorVars, gen>>
             /\ \E place \in Pc : To(place)
             /\ KeyType' /\ KeyInv' /\ Kept
  BY <1>u, <1>k, <1>m
<1>pc. {"check", "montCheck", "get", "freeze", "public", "montSet", "idle", "release"} \subseteq Pc
  BY DEF Pc, UsesKey, Holding
<1>un. "check" \notin UsesKey /\ "montCheck" \notin UsesKey /\ "freeze" \notin UsesKey
       /\ "montSet" \notin UsesKey /\ "idle" \notin UsesKey
  BY DEF UsesKey, Holding
<1> QED
  <2>1. CASE Start(t)
    BY <1>1, <2>1, <1>u, <1>pc, <1>un
  <2>2. CASE FreezeCheck(t)
    BY <1>2, <2>2, <1>u, <1>pc, <1>un
  <2>3. CASE freeze_private_key(t)
    BY <1>3, <2>3
  <2>4. CASE MontCheck(t)
    BY <1>4, <2>4, <1>u, <1>pc, <1>un
  <2>5. CASE MontSet(t)
    BY <1>5, <2>5
  <2>6. CASE PublicDone(t)
    BY <1>6, <2>6, <1>u, <1>pc, <1>un
  <2>7. CASE BN_BLINDING_invert(t)
    BY <1>7, <2>7, <1>u, <1>pc
  <2> QED
    BY <2>1, <2>2, <2>3, <2>4, <2>5, <2>6, <2>7 DEF KeyAction

-----------------------------------------------------------------------------
(* The cache and the factors.                                               *)

\* Threads that keep their objects and an unchanged cache keep the invariant.
LEMMA Quiet ==
  ASSUME Types, Rest, UNCHANGED <<cacheVars, factorVars, gen>>,
         \A s \in Thread :
            /\ th'[s].b = th[s].b /\ th'[s].index = th[s].index /\ th'[s].used = th[s].used
            /\ th'[s].pc \in Holding <=> th[s].pc \in Holding
            /\ th'[s].pc = "invert" => th[s].pc = "invert"
  PROVE  ArrayType' /\ FactorType' /\ Rest'
<1> USE DEF cacheVars, factorVars
<1>1. ArrayType' /\ FactorType'
  BY DEF Types, ArrayType, FactorType
<1>2. \A s \in Thread : /\ Holds(s)' <=> Holds(s)
                        /\ HoldsSlot(s)' <=> HoldsSlot(s)
                        /\ HoldsOwn(s)' <=> HoldsOwn(s)
  BY DEF Holds, HoldsSlot, HoldsOwn, InCache
<1>3. \A b \in Blinding : (InCache(b)' <=> InCache(b)) /\ (Steady(b)' <=> Steady(b))
  BY DEF InCache, Steady, Recreates
<1>4. HoldInv'
  BY <1>2 DEF HoldInv, Rest
<1>5. CacheInv'
  BY <1>2, <1>3 DEF CacheInv, Rest
<1>6. Exclusive'
  BY DEF Exclusive, Rest
<1>7. PairInv' /\ SpentInv'
  BY <1>3 DEF PairInv, SpentInv, Rest
<1>8. Unblinds'
  BY DEF Unblinds, Rest
<1> QED
  BY <1>1, <1>4, <1>5, <1>6, <1>7, <1>8 DEF Rest

\* The slots, the objects and the indices of operations do not overlap.
LEMMA SlotsApart ==
  ASSUME Types
  PROVE  /\ DOMAIN blindings = 1 .. Len(blindings) /\ DOMAIN inuse = DOMAIN blindings
         /\ Len(blindings) \in Nat
         /\ MaxBlindings + 1 \notin DOMAIN blindings
         /\ \A i \in DOMAIN blindings : blindings[i] \in Blinding /\ inuse[i] \in BOOLEAN
         /\ \A b \in Blinding : bn[b] \in Rec
         /\ \A t \in Thread : th[t] \in Local
BY RsaAssumption DEF Types, ArrayType, FactorType, ThreadType

\* rsa_blinding_release gives a slot back, or frees the object.
LEMMA ReleaseKeeps ==
  ASSUME Types, Rest, NEW t \in Thread, rsa_blinding_release(t)
  PROVE  ArrayType' /\ FactorType' /\ ThreadType' /\ Rest'
<1> DEFINE x == th[t].b
           k == th[t].index
<1> USE DEF Types
<1>0. /\ UNCHANGED <<blindings, rsaGen, bases, spent, gen>>
      /\ th[t].pc = "release" /\ th' = [th EXCEPT ![t] = Idle]
  BY DEF rsa_blinding_release
<1>a. Holds(t) /\ x \in Blinding /\ bn[x].live /\ rsaGen = gen /\ (HoldsSlot(t) \/ HoldsOwn(t))
  BY <1>0 DEF Holds, Holding, HoldInv, Rest
<1>th. /\ ThreadType' /\ ~ Holds(t)' /\ th'[t].pc = "idle"
       /\ \A s \in Thread \ {t} : th'[s] = th[s]
  BY <1>0, RsaAssumption DEF ThreadType, Idle, Local, Pc, Holds, UsesKey, Holding, Value
<1>ex. \A s \in Thread \ {t} : Holds(s) => th[s].b # x
  BY <1>a DEF Exclusive, Rest, Holds
<1>e. Exclusive'
  BY <1>th DEF Exclusive, Rest, Holding
<1>1. CASE k = MaxBlindings + 1
  <2>1. inuse' = inuse /\ bn' = [bn EXCEPT ![x] = Freed]
    BY <1>1 DEF rsa_blinding_release
  <2>2. FactorType' /\ ArrayType'
    <3>1. Freed \in Rec
      BY RsaAssumption DEF Freed, Rec, Value
    <3> QED
      BY <1>0, <2>1, <3>1 DEF FactorType, ArrayType
  <2>3. ~ bn'[x].live /\ bn'[x].A[1] = 0 /\ \A b \in Blinding \ {x} : bn'[b] = bn[b]
    BY <2>1, <1>a DEF FactorType, Freed, Unset
  <2>4. HoldsOwn(t) /\ ~ InCache(x)
    BY <1>a, <1>1, SlotsApart DEF HoldsSlot, HoldsOwn
  <2>5. \A s \in Thread \ {t} : /\ Holds(s)' <=> Holds(s)
                                /\ HoldsSlot(s)' <=> HoldsSlot(s)
                                /\ HoldsOwn(s)' <=> HoldsOwn(s)
    BY <1>0, <1>th, <2>1 DEF Holds, HoldsSlot, HoldsOwn, InCache
  <2>6. \A b \in Blinding : InCache(b)' <=> InCache(b)
    BY <1>0 DEF InCache
  <2>7. \A b \in Blinding : Steady(b)' => b # x /\ Steady(b)
    BY <2>3 DEF Steady, Recreates
  <2>8. HoldInv'
    BY <1>0, <1>th, <1>ex, <2>3, <2>5 DEF HoldInv, Rest
  <2>9. CacheInv'
    <3>1. \A i \in DOMAIN blindings : blindings[i] # x /\ blindings[i] \in Blinding
      BY <2>4, SlotsApart DEF InCache
    <3>2. \A i \in DOMAIN blindings : inuse[i] => \E s \in Thread : Holds(s)' /\ th'[s].index = i
      <4> SUFFICES ASSUME NEW i \in DOMAIN blindings, inuse[i]
                   PROVE  \E s \in Thread : Holds(s)' /\ th'[s].index = i
        OBVIOUS
      <4>1. PICK s \in Thread : Holds(s) /\ th[s].index = i
        BY DEF CacheInv, Rest
      <4>2. s # t
        BY <4>1, <1>1, SlotsApart
      <4> QED
        BY <4>1, <4>2, <2>5, <1>th
    <3>3. \A b \in Blinding : bn'[b].live =>
            InCache(b)' \/ \E s \in Thread : Holds(s)' /\ HoldsOwn(s)' /\ th'[s].b = b
      <4> SUFFICES ASSUME NEW b \in Blinding, bn'[b].live, ~ InCache(b)
                   PROVE  \E s \in Thread : Holds(s)' /\ HoldsOwn(s)' /\ th'[s].b = b
        BY <2>6
      <4>1. b # x /\ bn[b].live
        BY <2>3
      <4>2. PICK s \in Thread : Holds(s) /\ HoldsOwn(s) /\ th[s].b = b
        BY <4>1 DEF CacheInv, Rest
      <4> QED
        BY <4>1, <4>2, <2>5, <1>th
    <3> QED
      BY <1>0, <2>1, <2>3, <3>1, <3>2, <3>3 DEF CacheInv, Rest
  <2>10. PairInv' /\ SpentInv'
    <3>1. PairInv'
      BY <2>3, <2>7 DEF PairInv, Rest
    <3>2. \A b \in Blinding : bn'[b].A[1] <= bases
      BY <2>3, <1>a DEF SpentInv, Rest, FactorType
    <3> QED
      BY <1>0, <2>3, <2>7, <3>1, <3>2 DEF SpentInv, Rest
  <2>11. Unblinds'
    <3>1. \A s \in Thread : th'[s].pc = "invert" => s # t /\ Holds(s)
      BY <1>th DEF Holds, Holding
    <3>2. \A s \in Thread : th'[s].pc = "invert" => th'[s] = th[s] /\ th[s].b \in Blinding \ {x}
      BY <3>1, <1>th, <1>ex DEF HoldInv, Rest
    <3> QED
      BY <3>2, <2>3 DEF Unblinds, Rest
  <2> QED
    BY <1>th, <1>e, <2>2, <2>8, <2>9, <2>10, <2>11 DEF Rest
<1>2. CASE k # MaxBlindings + 1
  <2>1. inuse' = [inuse EXCEPT ![k] = FALSE] /\ bn' = bn
    BY <1>2 DEF rsa_blinding_release
  <2>2. HoldsSlot(t) /\ k \in DOMAIN inuse
    BY <1>a, <1>2, SlotsApart DEF HoldsOwn, HoldsSlot
  <2>3. ArrayType' /\ FactorType'
    BY <1>0, <2>1, <2>2 DEF ArrayType, FactorType
  <2>4. \A i \in DOMAIN blindings : inuse'[i] <=> (i # k /\ inuse[i])
    BY <2>1, <2>2, SlotsApart
  <2>5. \A s \in Thread \ {t} : Holds(s) => th[s].index # k
    BY <1>ex, <2>2, <1>2 DEF HoldInv, HoldsSlot, HoldsOwn, Rest, CacheInv
  <2>6. \A s \in Thread \ {t} : /\ Holds(s)' <=> Holds(s)
                                /\ (HoldsOwn(s)' <=> HoldsOwn(s))
                                /\ Holds(s) /\ HoldsSlot(s) => HoldsSlot(s)'
    BY <1>0, <1>th, <2>4, <2>5 DEF Holds, HoldsSlot, HoldsOwn, InCache
  <2>7. HoldInv'
    BY <1>0, <1>th, <2>1, <2>6 DEF HoldInv, Rest
  <2>8. \A b \in Blinding : (InCache(b)' <=> InCache(b)) /\ (Steady(b)' <=> Steady(b))
    BY <1>0, <2>1 DEF InCache, Steady, Recreates
  <2>9. CacheInv'
    <3>2. \A i \in DOMAIN blindings : inuse'[i] => \E s \in Thread : Holds(s)' /\ th'[s].index = i
      <4> SUFFICES ASSUME NEW i \in DOMAIN blindings, inuse'[i]
                   PROVE  \E s \in Thread : Holds(s)' /\ th'[s].index = i
        OBVIOUS
      <4>1. PICK s \in Thread : Holds(s) /\ th[s].index = i
        BY <2>4 DEF CacheInv, Rest
      <4>2. s # t
        BY <4>1, <2>4
      <4> QED
        BY <4>1, <4>2, <2>6, <1>th
    <3>3. \A b \in Blinding : bn'[b].live =>
            InCache(b)' \/ \E s \in Thread : Holds(s)' /\ HoldsOwn(s)' /\ th'[s].b = b
      <4> SUFFICES ASSUME NEW b \in Blinding, bn[b].live, ~ InCache(b)
                   PROVE  \E s \in Thread : Holds(s)' /\ HoldsOwn(s)' /\ th'[s].b = b
        BY <2>1, <2>8
      <4>2. PICK s \in Thread : Holds(s) /\ HoldsOwn(s) /\ th[s].b = b
        BY DEF CacheInv, Rest
      <4>3. s # t
        BY <4>2, <1>2 DEF HoldsOwn
      <4> QED
        BY <4>2, <4>3, <2>6, <1>th
    <3> QED
      BY <1>0, <2>1, <3>2, <3>3 DEF CacheInv, Rest
  <2>10. PairInv' /\ SpentInv'
    BY <1>0, <2>1, <2>8 DEF PairInv, SpentInv, Rest
  <2>11. Unblinds'
    BY <1>th, <2>1 DEF Unblinds, Rest
  <2> QED
    BY <1>th, <1>e, <2>3, <2>7, <2>9, <2>10, <2>11 DEF Rest
<1> QED
  BY <1>1, <1>2

\* The values of b have a base of their own: a new one, or the one b had.
Based(b) ==
  \/ bn'[b].A[1] = bases + 1 /\ bases' = bases + 1
  \/ Steady(b) /\ bn'[b].A[1] = bn[b].A[1] /\ bn[b].A[2] <= bn'[b].A[2]

\* An operation changes the values of its own object.
LEMMA ObjectChanges ==
  ASSUME Types, Rest, NEW t \in Thread, Holds(t),
         UNCHANGED <<cacheVars, gen>>,
         bn' \in [Blinding -> Rec], bases' \in 0 .. MaxBase, bases <= bases',
         \A b \in Blinding \ {th[t].b} : bn'[b] = bn[b],
         bn'[th[t].b].live, bn'[th[t].b].A[1] <= bases',
         ~ Recreates(bn'[th[t].b]) =>
            /\ bn'[th[t].b].A \in Factor /\ bn'[th[t].b].A = bn'[th[t].b].Ai
            /\ bn'[th[t].b].A[2] <= bn'[th[t].b].counter
            /\ Based(th[t].b),
         \/ spent' = spent
         \/ /\ spent' = spent \cup {bn'[th[t].b].A}
            /\ bn'[th[t].b].A \in Factor /\ Based(th[t].b),
         th' \in [Thread -> Local], \A s \in Thread \ {t} : th'[s] = th[s],
         th'[t].b = th[t].b, th'[t].index = th[t].index, Holds(t)',
         th'[t].pc = "invert" => th'[t].used = bn'[th[t].b].Ai
  PROVE  ArrayType' /\ FactorType' /\ ThreadType' /\ Rest'
<1> DEFINE x == th[t].b
<1> USE DEF Types, cacheVars
<1>1. x \in Blinding /\ bn[x].live /\ rsaGen = gen
  BY DEF HoldInv, Rest
<1>2. ArrayType' /\ ThreadType'
  BY DEF ArrayType, ThreadType
<1>3. FactorType'
  BY DEF FactorType
<1>4. \A s \in Thread : /\ Holds(s)' <=> Holds(s)
                        /\ th'[s].b = th[s].b /\ th'[s].index = th[s].index
                        /\ HoldsSlot(s)' <=> HoldsSlot(s)
                        /\ HoldsOwn(s)' <=> HoldsOwn(s)
  BY DEF Holds, HoldsSlot, HoldsOwn, InCache
<1>5. \A b \in Blinding : (InCache(b)' <=> InCache(b)) /\ (bn'[b].live <=> bn[b].live)
  BY <1>1 DEF InCache
<1>6. \A b \in Blinding \ {x} : Steady(b)' <=> Steady(b)
  BY DEF Steady, Recreates
<1>7. Steady(x)' <=> ~ Recreates(bn'[x])
  BY DEF Steady, Recreates
<1>8. HoldInv'
  BY <1>4, <1>5 DEF HoldInv, Rest
<1>9. CacheInv'
  <2>1. \A i \in DOMAIN blindings : blindings[i] \in Blinding
    BY SlotsApart
  <2> QED
    BY <1>4, <1>5, <2>1 DEF CacheInv, Rest
<1>10. Exclusive'
  BY <1>4 DEF Exclusive, Rest, Holds
<1>11. PairInv'
  BY <1>1, <1>6, <1>7 DEF PairInv, Rest
<1>12. SpentInv'
  <2>b. \A b \in Blinding : bn[b].A[1] \in Nat /\ bn[b].A[2] \in Nat /\ bn'[b].A[1] \in Nat /\ bn'[b].A[2] \in Nat
    BY FactorIs, RsaAssumption DEF FactorType, Rec, Value, Unset
  <2>f. \A f \in spent \cup spent' : f \in Factor /\ f[1] \in Nat /\ f[2] \in Nat
    BY FactorIs, RsaAssumption, <1>3 DEF FactorType
  <2>n. bases \in Nat /\ bases' \in Nat /\ bases <= bases'
    BY DEF FactorType
  <2>1. \A b \in Blinding : bn'[b].A[1] <= bases'
    BY <2>b, <2>n, <1>1 DEF SpentInv, Rest
  <2>2. \A f \in spent : f[1] <= bases
    BY DEF SpentInv, Rest
  <2>3. \A f \in spent' : f[1] <= bases'
    BY <2>2, <2>f, <2>n, <2>1, <1>1
  <2>4. ASSUME NEW b \in Blinding \ {x}, Steady(b), Based(x)
        PROVE  bn'[b].A[1] # bn'[x].A[1]
    <3>1. bn'[b].A[1] = bn[b].A[1] /\ bn[b].A[1] <= bases
      BY DEF SpentInv, Rest
    <3>2. CASE bn'[x].A[1] = bases + 1
      BY <3>1, <3>2, <2>b, <2>n
    <3>3. CASE Steady(x) /\ bn'[x].A[1] = bn[x].A[1]
      BY <3>1, <3>3, <2>4, <1>1 DEF SpentInv, Rest
    <3> QED
      BY <3>2, <3>3, <2>4 DEF Based
  <2>5. \A b, c \in Blinding : Steady(b)' /\ Steady(c)' /\ bn'[b].A[1] = bn'[c].A[1] => b = c
    <3>1. \A b, c \in Blinding \ {x} : Steady(b)' /\ Steady(c)' /\ bn'[b].A[1] = bn'[c].A[1] => b = c
      BY <1>6 DEF SpentInv, Rest
    <3>2. \A b \in Blinding \ {x} : Steady(b)' /\ Steady(x)' => bn'[b].A[1] # bn'[x].A[1]
      BY <1>6, <1>7, <2>4
    <3> QED
      BY <3>1, <3>2
  <2>6. ASSUME NEW b \in Blinding, Steady(b)', NEW f \in spent', f[1] = bn'[b].A[1]
        PROVE  f[2] <= bn'[b].A[2]
    <3>1. CASE b # x /\ f \in spent
      BY <3>1, <2>6, <1>6, <1>1 DEF SpentInv, Rest
    <3>2. CASE b # x /\ f \notin spent
      BY <3>2, <2>6, <1>6, <2>4
    <3>3. CASE b = x /\ f \notin spent
      <4>1. f = bn'[x].A
        BY <3>3
      <4> QED
        BY <4>1, <3>3, <2>b, <1>1
    <3>4. CASE b = x /\ f \in spent
      <4>1. Based(x)
        BY <3>4, <2>6, <1>7
      <4>2. f[1] <= bases /\ f[1] = bn'[x].A[1]
        BY <2>2, <3>4, <2>6
      <4>3. Steady(x) /\ bn'[x].A[1] = bn[x].A[1] /\ bn[x].A[2] <= bn'[x].A[2]
        BY <4>1, <4>2, <2>n, <2>f DEF Based
      <4>4. f[2] <= bn[x].A[2]
        BY <4>2, <4>3, <3>4, <1>1 DEF SpentInv, Rest
      <4> QED
        BY <4>3, <4>4, <3>4, <2>b, <2>f, <1>1
    <3> QED
      BY <3>1, <3>2, <3>3, <3>4
  <2> QED
    BY <2>1, <2>3, <2>5, <2>6 DEF SpentInv
<1>13. Unblinds'
  <2>1. \A s \in Thread \ {t} : th[s].pc = "invert" => Holds(s) /\ th[s].b \in Blinding \ {x}
    BY DEF Exclusive, HoldInv, Rest, Holds, Holding
  <2> QED
    BY <2>1 DEF Unblinds, Rest
<1> QED
  BY <1>2, <1>3, <1>8, <1>9, <1>10, <1>11, <1>12, <1>13 DEF Rest

\* What both kinds of bn_blinding_update do to the object and to the bases.
Updated(b) ==
  /\ bn' \in [Blinding -> Rec] /\ bases' \in 0 .. MaxBase /\ bases <= bases'
  /\ \A c \in Blinding \ {b} : bn'[c] = bn[c]
  /\ bn'[b].live = bn[b].live /\ bn'[b].A[1] <= bases'

\* A successful bn_blinding_update leaves a matching pair with a base of its
\* own, and a factor that was never used.
LEMMA UpdateOkIs ==
  ASSUME Types, Rest, NEW b \in Blinding, bn[b].live, rsaGen = gen, UpdateOk(b)
  PROVE  /\ Updated(b) /\ Based(b)
         /\ bn'[b].A \in Factor /\ bn'[b].A = bn'[b].Ai
         /\ bn'[b].A[2] <= bn'[b].counter
         /\ bn'[b].A \notin spent
<1> USE DEF Types, FactorType
<1>1. bn[b] \in Rec /\ bases \in Nat /\ MaxBase \in Nat /\ Counter \in Nat \ {0}
  BY RsaAssumption
<1>2. CASE Recreates(bn[b]) /\ CreateParam(b)
  <2>1. bases' = bases + 1 /\ bases + 1 \in 1 .. MaxBase
    BY <1>1, <1>2 DEF CreateParam
  <2> DEFINE f == <<bases + 1, 0>>
             r == [bn[b] EXCEPT !.A = f, !.Ai = f, !.counter = 0]
  <2>2. f \in Factor /\ f[1] = bases + 1 /\ f[2] = 0
    BY <1>1, <2>1, FactorMade
  <2>3. bn' = [bn EXCEPT ![b] = r]
    BY <1>2 DEF CreateParam
  <2>4. r \in Rec /\ r.A = f /\ r.Ai = f /\ r.counter = 0 /\ r.live = bn[b].live
    <3>1. f \in Value /\ 0 \in 0 .. Counter - 1
      BY <1>1, <2>2 DEF Value
    <3> HIDE DEF f
    <3> QED
      BY <1>1, <3>1 DEF Rec
  <2> HIDE DEF r, f
  <2>5. bn' \in [Blinding -> Rec] /\ bn'[b] = r /\ \A c \in Blinding \ {b} : bn'[c] = bn[c]
    BY <2>3, <2>4
  <2>6. f \notin spent
    <3>1. \A g \in spent : g[1] <= bases
      BY DEF SpentInv, Rest
    <3> QED
      BY <3>1, <2>2, <1>1
  <2>7. Updated(b)
    <3>1. bases' \in 0 .. MaxBase /\ bases <= bases'
      BY <1>1, <2>1
    <3>2. bn'[b].A[1] <= bases'
      BY <1>1, <2>1, <2>2, <2>4, <2>5
    <3> QED
      BY <2>4, <2>5, <3>1, <3>2 DEF Updated
  <2>8. Based(b)
    BY <2>1, <2>2, <2>4, <2>5 DEF Based
  <2> QED
    BY <2>2, <2>4, <2>5, <2>6, <2>7, <2>8
<1>3. CASE ~ Recreates(bn[b]) /\ UNCHANGED bases
           /\ bn' = [bn EXCEPT ![b].A = Squared(@), ![b].Ai = Squared(@), ![b].counter = @ + 1]
  <2>1. Steady(b) /\ bn[b].A \in Factor /\ bn[b].A = bn[b].Ai /\ bn[b].A[2] <= bn[b].counter
    BY <1>3 DEF Steady, PairInv, Rest
  <2>2. bn[b].counter \in Nat /\ bn[b].counter + 1 \in 0 .. Counter - 1
    BY <1>1, <1>3 DEF Recreates, Rec
  <2> DEFINE f == Squared(bn[b].A)
             r == [bn[b] EXCEPT !.A = f, !.Ai = f, !.counter = bn[b].counter + 1]
  <2>3. bn[b].A[1] \in 1 .. MaxBase /\ bn[b].A[2] \in 0 .. Counter - 1
    BY <2>1, FactorIs
  <2>4. bn[b].A[2] + 1 \in 0 .. Counter - 1
    BY <2>1, <2>2, <2>3, <1>1
  <2>5. f \in Factor /\ f[1] = bn[b].A[1] /\ f[2] = bn[b].A[2] + 1
    BY <2>3, <2>4, FactorMade DEF Squared
  <2>6. bn' = [bn EXCEPT ![b] = r]
    BY <1>3, <2>1
  <2>7. r \in Rec /\ r.A = f /\ r.Ai = f /\ r.counter = bn[b].counter + 1 /\ r.live = bn[b].live
    <3>1. f \in Value
      BY <2>5 DEF Value
    <3> HIDE DEF f
    <3> QED
      BY <1>1, <2>2, <3>1 DEF Rec
  <2> HIDE DEF r, f
  <2>8. bn' \in [Blinding -> Rec] /\ bn'[b] = r /\ \A c \in Blinding \ {b} : bn'[c] = bn[c]
    BY <2>6, <2>7
  <2>9. f \notin spent
    <3>1. \A g \in spent : g[1] = bn[b].A[1] => g[2] <= bn[b].A[2]
      BY <2>1 DEF SpentInv, Rest
    <3> QED
      BY <3>1, <2>5, <2>3
  <2>10. bn[b].A[1] <= bases
    BY DEF SpentInv, Rest
  <2>11. Updated(b)
    <3>1. bases' = bases /\ bases' \in 0 .. MaxBase /\ bases <= bases'
      BY <1>1, <1>3
    <3>2. bn'[b].A[1] <= bases'
      BY <3>1, <2>5, <2>7, <2>8, <2>10
    <3> QED
      BY <2>7, <2>8, <3>1, <3>2 DEF Updated
  <2>12. Based(b)
    BY <2>1, <2>3, <2>5, <2>7, <2>8 DEF Based
  <2>13. f[2] <= r.counter
    BY <2>1, <2>2, <2>3, <2>5, <2>7
  <2> QED
    BY <2>5, <2>7, <2>8, <2>9, <2>11, <2>12, <2>13
<1> QED
  BY <1>2, <1>3 DEF UpdateOk

\* A failed bn_blinding_update makes the next one draw a new base.
LEMMA UpdateFailsIs ==
  ASSUME Types, Rest, NEW b \in Blinding, bn[b].live, UpdateFails(b)
  PROVE  Updated(b) /\ Recreates(bn'[b])
<1> USE DEF Types, FactorType
<1>1. bn[b] \in Rec /\ bases \in Nat /\ MaxBase \in Nat /\ Counter \in Nat \ {0}
  BY RsaAssumption
<1>2. PICK drawn \in BOOLEAN, set \in BOOLEAN :
     /\ drawn => Recreates(bn[b]) /\ bases < MaxBase
     /\ bases' = bases + (IF drawn THEN 1 ELSE 0)
     /\ bn' = [bn EXCEPT
          ![b].A = IF drawn THEN <<bases + 1, 0>>
                   ELSE IF set /\ ~ Recreates(bn[b]) THEN Squared(@) ELSE @,
          ![b].Ai = IF drawn /\ set THEN <<bases + 1, 0>> ELSE @,
          ![b].counter = ResetCounter(@)]
  BY DEF UpdateFails
<1> DEFINE f == <<bases + 1, 0>>
           a == IF drawn THEN f ELSE IF set /\ ~ Recreates(bn[b]) THEN Squared(bn[b].A) ELSE bn[b].A
           ai == IF drawn /\ set THEN f ELSE bn[b].Ai
           r == [bn[b] EXCEPT !.A = a, !.Ai = ai, !.counter = Counter - 1]
<1>3. bn' = [bn EXCEPT ![b] = r]
  BY <1>2 DEF ResetCounter
<1>4. bases' \in 0 .. MaxBase /\ bases <= bases' /\ (drawn => bases' = bases + 1)
  BY <1>1, <1>2
<1>5. drawn => f \in Factor /\ f[1] = bases + 1
  BY <1>1, <1>4, FactorMade
<1>6. bn[b].A[1] <= bases
  BY DEF SpentInv, Rest
<1>7. ~ Recreates(bn[b]) => Squared(bn[b].A) \in Factor /\ Squared(bn[b].A)[1] = bn[b].A[1]
  <2> SUFFICES ASSUME ~ Recreates(bn[b])
               PROVE  Squared(bn[b].A) \in Factor /\ Squared(bn[b].A)[1] = bn[b].A[1]
    OBVIOUS
  <2>1. bn[b].A \in Factor /\ bn[b].A[2] <= bn[b].counter
    BY DEF Steady, PairInv, Rest
  <2>2. bn[b].A[1] \in 1 .. MaxBase /\ bn[b].A[2] \in 0 .. Counter - 1
    BY <2>1, FactorIs
  <2>3. bn[b].counter \in Nat /\ bn[b].counter + 1 \in 0 .. Counter - 1
    BY <1>1 DEF Recreates, Rec
  <2>4. bn[b].A[2] + 1 \in 0 .. Counter - 1
    BY <2>1, <2>2, <2>3, <1>1
  <2> QED
    BY <2>2, <2>4, FactorMade DEF Squared
<1>8. bn[b].A \in Value /\ bn[b].Ai \in Value
  BY <1>1 DEF Rec
<1>9. a \in Value /\ ai \in Value
  BY <1>5, <1>7, <1>8 DEF Value
<1>10. a[1] <= bases'
  <2>1. bn[b].A[1] \in Nat
    BY <1>8, FactorIs, RsaAssumption DEF Value, Unset
  <2>2. a[1] = bn[b].A[1] \/ (drawn /\ a[1] = bases + 1)
    BY <1>5, <1>7
  <2> QED
    BY <2>1, <2>2, <1>1, <1>4, <1>6
<1>11. r \in Rec /\ r.A = a /\ r.counter = Counter - 1 /\ r.live = bn[b].live
  <2>1. Counter - 1 \in 0 .. Counter - 1
    BY <1>1
  <2> HIDE DEF a, ai
  <2> QED
    BY <1>1, <1>9, <2>1 DEF Rec
<1> HIDE DEF r, a, ai, f
<1>12. bn' \in [Blinding -> Rec] /\ bn'[b] = r /\ \A c \in Blinding \ {b} : bn'[c] = bn[c]
  BY <1>3, <1>11
<1>13. Updated(b)
  BY <1>4, <1>10, <1>11, <1>12 DEF Updated
<1> QED
  BY <1>1, <1>11, <1>12, <1>13 DEF Recreates

\* BN_BLINDING_convert keeps the invariant and blinds with an unused factor.
LEMMA ConvertKeeps ==
  ASSUME Types, Rest, NEW t \in Thread, BN_BLINDING_convert(t)
  PROVE  /\ ArrayType' /\ FactorType' /\ ThreadType' /\ Rest'
         /\ UNCHANGED keyVars
         /\ \A s \in Thread \ {t} : th'[s] = th[s]
         /\ th[t].pc = "convert" /\ th'[t].pc \in Holding
         /\ th'[t].pc = "invert" => th'[t].used \notin spent
<1> DEFINE x == th[t].b
<1>1. th[t].pc = "convert" /\ Holds(t) /\ UNCHANGED <<keyVars, cacheVars, gen>>
  BY DEF BN_BLINDING_convert, Holds, Holding
<1>2. x \in Blinding /\ bn[x].live /\ rsaGen = gen
  BY <1>1 DEF HoldInv, Rest
<1>3. CASE /\ UpdateOk(x) /\ spent' = spent \cup {bn'[x].A}
           /\ th' = [th EXCEPT ![t] = [@ EXCEPT !.pc = "invert", !.used = bn'[x].A]]
  <2>1. /\ Updated(x) /\ Based(x)
        /\ bn'[x].A \in Factor /\ bn'[x].A = bn'[x].Ai
        /\ bn'[x].A[2] <= bn'[x].counter
        /\ bn'[x].A \notin spent
    BY <1>2, <1>3, UpdateOkIs
  <2>2. /\ th' \in [Thread -> Local] /\ \A s \in Thread \ {t} : th'[s] = th[s]
        /\ th'[t].pc = "invert" /\ th'[t].b = th[t].b /\ th'[t].index = th[t].index
        /\ th'[t].used = bn'[x].A
    BY <1>3, <2>1 DEF Types, ThreadType, Local, Pc, UsesKey, Holding, Value
  <2>3. Holds(t)'
    BY <2>2 DEF Holds, Holding
  <2>4. ArrayType' /\ FactorType' /\ ThreadType' /\ Rest'
    BY <1>1, <1>2, <1>3, <2>1, <2>2, <2>3, ObjectChanges DEF Updated
  <2> QED
    BY <1>1, <2>1, <2>2, <2>4 DEF Holding
<1>4. CASE (UpdateOk(x) \/ UpdateFails(x)) /\ Goto(t, "release") /\ UNCHANGED spent
  <2>1. /\ Updated(x)
        /\ ~ Recreates(bn'[x]) =>
             /\ Based(x) /\ bn'[x].A \in Factor /\ bn'[x].A = bn'[x].Ai
             /\ bn'[x].A[2] <= bn'[x].counter
    BY <1>2, <1>4, UpdateOkIs, UpdateFailsIs
  <2>2. Moved(t, "release")
    BY <1>4, GotoMoves DEF Types, Pc, UsesKey, Holding
  <2>3. Holds(t)' /\ th'[t].pc # "invert"
    BY <2>2 DEF Holds, Holding, Moved
  <2>4. ArrayType' /\ FactorType' /\ ThreadType' /\ Rest'
    BY <1>1, <1>2, <1>4, <2>1, <2>2, <2>3, ObjectChanges DEF Updated, Moved
  <2> QED
    BY <1>1, <2>2, <2>3, <2>4 DEF Moved, Holding
<1> QED
  BY <1>3, <1>4 DEF BN_BLINDING_convert

-----------------------------------------------------------------------------
(* rsa_blinding_get.                                                        *)

\* An object that rsa_blinding_get allocated, or one that was there.
Renewed(b) == \/ ~ bn[b].live /\ bn'[b] = BN_BLINDING_new
              \/ bn'[b] = Wiped[b]

\* BN_BLINDING_new has no values, and draws them first.
LEMMA NewIs ==
  /\ BN_BLINDING_new \in Rec /\ BN_BLINDING_new.live
  /\ Recreates(BN_BLINDING_new) /\ BN_BLINDING_new.A[1] = 0
<1>1. Counter - 1 \in 0 .. Counter - 1 /\ Counter - 1 + 1 = Counter
  BY RsaAssumption
<1>2. BN_BLINDING_new \in Rec /\ BN_BLINDING_new.live /\ BN_BLINDING_new.A = Unset
  BY <1>1 DEF BN_BLINDING_new, Rec, Value
<1>3. Recreates(BN_BLINDING_new)
  BY <1>1 DEF BN_BLINDING_new, Recreates
<1> QED
  BY <1>2, <1>3 DEF Unset

\* After a change of generation every object in the cache draws a new base;
\* otherwise nothing that goes on has changed.
LEMMA AfterGet ==
  ASSUME Types, Rest, rsaGen' = gen, UNCHANGED <<gen, bases, spent>>,
         bn' \in [Blinding -> Rec], \A b \in Blinding : Renewed(b)
  PROVE  /\ FactorType' /\ PairInv' /\ SpentInv'
         /\ \A b \in Blinding : bn[b].live => bn'[b].live /\ bn'[b].Ai = bn[b].Ai
         /\ \A b \in Blinding : bn'[b].live => bn[b].live \/ bn'[b] = BN_BLINDING_new
<1> USE DEF Types
<1>1. FactorType'
  BY DEF FactorType
<1>2. \A b \in Blinding : /\ bn[b].live => bn'[b].live /\ bn'[b].Ai = bn[b].Ai
                          /\ bn'[b].live => bn[b].live \/ bn'[b] = BN_BLINDING_new
  BY WipedIs, RsaAssumption DEF Renewed
<1>3. ASSUME NEW b \in Blinding, Steady(b)'
      PROVE  Steady(b) /\ rsaGen = gen /\ bn'[b] = bn[b]
  <2>1. bn'[b].live /\ ~ Recreates(bn'[b])
    BY <1>3 DEF Steady, Recreates
  <2>2. bn'[b] = Wiped[b] /\ bn[b].live
    BY <2>1, NewIs, WipedIs, RsaAssumption DEF Renewed
  <2>3. CASE rsaGen = gen
    BY <2>1, <2>2, <2>3, WipedIs, RsaAssumption DEF Steady
  <2>4. CASE rsaGen # gen
    <3>1. InCache(b)
      BY <2>2, <2>4 DEF CacheInv, HoldInv, Rest
    <3>2. Wiped[b].counter = Counter - 1
      BY <2>4, <3>1, WipedIs, RsaAssumption
    <3> QED
      BY <2>1, <2>2, <3>2, RsaAssumption DEF Recreates
  <2> QED
    BY <2>3, <2>4
<1>4. PairInv'
  BY <1>3 DEF PairInv, Rest
<1>5. \A b \in Blinding : bn'[b].A[1] <= bases
  <2>1. bases \in Nat
    BY DEF FactorType
  <2>2. \A b \in Blinding : bn'[b].A[1] \in {0, bn[b].A[1]}
    BY NewIs, WipedIs, RsaAssumption DEF Renewed
  <2> QED
    BY <2>1, <2>2 DEF SpentInv, Rest
<1>6. SpentInv'
  BY <1>3, <1>5 DEF SpentInv, Rest
<1> QED
  BY <1>1, <1>2, <1>4, <1>6

\* What Take does.
LEMMA TakeIs ==
  ASSUME ThreadType, NEW t \in Thread, NEW b \in Blinding, NEW i \in 0 .. MaxBlindings + 1, Take(t, b, i)
  PROVE  /\ ThreadType' /\ \A s \in Thread \ {t} : th'[s] = th[s]
         /\ th'[t].pc = "convert" /\ th'[t].b = b /\ th'[t].index = i
BY DEF ThreadType, Take, Local, Pc, UsesKey, Holding

\* Who is in the middle of an operation keeps what it unblinds with.
LEMMA StillUnblinds ==
  ASSUME Types, Rest, NEW t \in Thread, \A s \in Thread \ {t} : th'[s] = th[s],
         th'[t].pc # "invert",
         \A b \in Blinding : bn[b].live => bn'[b].live /\ bn'[b].Ai = bn[b].Ai
  PROVE  Unblinds'
<1>1. \A s \in Thread \ {t} : th[s].pc = "invert" => th[s].b \in Blinding /\ bn[th[s].b].live
  BY DEF HoldInv, Rest, Holds, Holding
<1> QED
  BY <1>1 DEF Unblinds, Rest

\* rsa_blinding_get gives out a slot that nobody holds.
LEMMA GetCachedKeeps ==
  ASSUME Types, Rest, NEW t \in Thread, th[t].pc = "get", GetCached(t),
         rsaGen' = gen, UNCHANGED <<bases, spent, gen>>
  PROVE  ArrayType' /\ FactorType' /\ ThreadType' /\ Rest' /\ th'[t].pc = "convert"
         /\ \A s \in Thread \ {t} : th'[s] = th[s]
<1> USE DEF Types
<1>1. PICK i \in DOMAIN inuse :
        /\ ~ inuse[i] /\ inuse' = [inuse EXCEPT ![i] = TRUE]
        /\ Take(t, blindings[i], i) /\ bn' = Wiped /\ UNCHANGED blindings
  BY DEF GetCached, FirstFree
<1>2. i \in DOMAIN blindings /\ blindings[i] \in Blinding /\ i \in 0 .. MaxBlindings + 1
  BY SlotsApart, RsaAssumption DEF ArrayType
<1>3. /\ ThreadType' /\ \A s \in Thread \ {t} : th'[s] = th[s]
      /\ th'[t].pc = "convert" /\ th'[t].b = blindings[i] /\ th'[t].index = i
  BY <1>1, <1>2, TakeIs
<1>4. ArrayType'
  BY <1>1 DEF ArrayType
<1>5. /\ FactorType' /\ PairInv' /\ SpentInv'
      /\ \A b \in Blinding : bn[b].live => bn'[b].live /\ bn'[b].Ai = bn[b].Ai
      /\ \A b \in Blinding : bn'[b].live => bn[b].live
  <2>1. bn' \in [Blinding -> Rec] /\ \A b \in Blinding : Renewed(b)
    BY <1>1, WipedIs, RsaAssumption DEF Renewed
  <2> QED
    BY <2>1, <1>1, AfterGet, WipedIs, RsaAssumption
<1>6. Unblinds'
  BY <1>3, <1>5, StillUnblinds
<1>7. \A j \in DOMAIN blindings : inuse'[j] <=> (j = i \/ inuse[j])
  BY <1>1, SlotsApart
<1>8. \A s \in Thread : Holds(s)' <=> (s = t \/ Holds(s))
  BY <1>3 DEF Holds, Holding
<1>9. ~ Holds(t)
  BY DEF Holds, Holding
<1>10. \A b \in Blinding : InCache(b)' <=> InCache(b)
  BY <1>1 DEF InCache
<1>11. \A s \in Thread \ {t} : /\ HoldsSlot(s) => HoldsSlot(s)'
                               /\ HoldsOwn(s)' <=> HoldsOwn(s)
  BY <1>1, <1>3, <1>7 DEF HoldsSlot, HoldsOwn, InCache
<1>12. HoldsSlot(t)'
  BY <1>1, <1>2, <1>3, <1>7 DEF HoldsSlot
<1>13. HoldInv'
  <2>1. bn'[blindings[i]].live
    BY <1>2, <1>5 DEF CacheInv, Rest
  <2> QED
    BY <1>2, <1>3, <1>5, <1>8, <1>11, <1>12, <2>1 DEF HoldInv, Rest
<1>14. CacheInv'
  <2>1. \A j \in DOMAIN blindings : inuse'[j] => \E s \in Thread : Holds(s)' /\ th'[s].index = j
    BY <1>3, <1>7, <1>8, <1>9 DEF CacheInv, Rest
  <2>2. \A b \in Blinding : bn'[b].live =>
          InCache(b)' \/ \E s \in Thread : Holds(s)' /\ HoldsOwn(s)' /\ th'[s].b = b
    BY <1>3, <1>5, <1>8, <1>9, <1>10, <1>11 DEF CacheInv, Rest
  <2>3. \A j \in DOMAIN blindings : bn'[blindings[j]].live
    BY <1>5, SlotsApart DEF CacheInv, Rest
  <2> QED
    BY <1>1, <2>1, <2>2, <2>3 DEF CacheInv, Rest
<1>15. Exclusive'
  <2>1. \A s \in Thread : Holds(s) => th[s].b # blindings[i]
    BY <1>1, <1>2 DEF HoldInv, HoldsSlot, HoldsOwn, InCache, CacheInv, Rest
  <2> QED
    BY <1>3, <1>8, <2>1 DEF Exclusive, Rest, Holds
<1> QED
  BY <1>3, <1>4, <1>5, <1>6, <1>13, <1>14, <1>15 DEF Rest

\* rsa_blinding_get makes an object for a full cache.
LEMMA GetUncachedKeeps ==
  ASSUME Types, Rest, NEW t \in Thread, th[t].pc = "get", GetUncached(t),
         rsaGen' = gen, UNCHANGED <<bases, spent, gen>>
  PROVE  ArrayType' /\ FactorType' /\ ThreadType' /\ Rest' /\ th'[t].pc = "convert"
         /\ \A s \in Thread \ {t} : th'[s] = th[s]
<1> USE DEF Types
<1>1. PICK x \in Blinding :
        /\ ~ bn[x].live /\ bn' = [Wiped EXCEPT ![x] = BN_BLINDING_new]
        /\ Take(t, x, MaxBlindings + 1) /\ UNCHANGED <<blindings, inuse>>
  BY DEF GetUncached
<1>2. /\ ThreadType' /\ \A s \in Thread \ {t} : th'[s] = th[s]
      /\ th'[t].pc = "convert" /\ th'[t].b = x /\ th'[t].index = MaxBlindings + 1
  BY <1>1, TakeIs, RsaAssumption
<1>3. ArrayType'
  BY <1>1 DEF ArrayType
<1>4. /\ FactorType' /\ PairInv' /\ SpentInv'
      /\ \A b \in Blinding : bn[b].live => bn'[b].live /\ bn'[b].Ai = bn[b].Ai
      /\ \A b \in Blinding \ {x} : bn'[b].live => bn[b].live
      /\ bn'[x].live
  <2>1. /\ bn' \in [Blinding -> Rec] /\ bn'[x] = BN_BLINDING_new
        /\ \A b \in Blinding \ {x} : bn'[b] = Wiped[b]
    BY <1>1, WipedIs, NewIs, RsaAssumption
  <2>2. \A b \in Blinding : Renewed(b)
    BY <1>1, <2>1 DEF Renewed
  <2> QED
    BY <2>1, <2>2, <1>1, AfterGet, NewIs, WipedIs, RsaAssumption
<1>5. Unblinds'
  BY <1>2, <1>4, StillUnblinds
<1>6. \A s \in Thread : Holds(s)' <=> (s = t \/ Holds(s))
  BY <1>2 DEF Holds, Holding
<1>7. ~ Holds(t)
  BY DEF Holds, Holding
<1>8. \A b \in Blinding : InCache(b)' <=> InCache(b)
  BY <1>1 DEF InCache
<1>9. \A s \in Thread \ {t} : (HoldsSlot(s)' <=> HoldsSlot(s)) /\ (HoldsOwn(s)' <=> HoldsOwn(s))
  BY <1>1, <1>2 DEF HoldsSlot, HoldsOwn, InCache
<1>10. ~ InCache(x)
  BY <1>1 DEF InCache, CacheInv, Rest
<1>11. HoldsOwn(t)'
  BY <1>2, <1>8, <1>10 DEF HoldsOwn
<1>12. HoldInv'
  BY <1>2, <1>4, <1>6, <1>9, <1>11 DEF HoldInv, Rest
<1>13. CacheInv'
  <2>1. \A j \in DOMAIN blindings : inuse'[j] => \E s \in Thread : Holds(s)' /\ th'[s].index = j
    BY <1>1, <1>2, <1>6, <1>7 DEF CacheInv, Rest
  <2>2. \A b \in Blinding : bn'[b].live =>
          InCache(b)' \/ \E s \in Thread : Holds(s)' /\ HoldsOwn(s)' /\ th'[s].b = b
    <3> SUFFICES ASSUME NEW b \in Blinding, bn'[b].live, ~ InCache(b)
                 PROVE  \E s \in Thread : Holds(s)' /\ HoldsOwn(s)' /\ th'[s].b = b
      BY <1>8
    <3>1. CASE b = x
      BY <3>1, <1>2, <1>6, <1>11
    <3>2. CASE b # x
      <4>1. bn[b].live
        BY <3>2, <1>4
      <4>2. PICK s \in Thread : Holds(s) /\ HoldsOwn(s) /\ th[s].b = b
        BY <4>1 DEF CacheInv, Rest
      <4> QED
        BY <4>2, <1>2, <1>6, <1>7, <1>9
    <3> QED
      BY <3>1, <3>2
  <2>3. \A j \in DOMAIN blindings : bn'[blindings[j]].live
    BY <1>4, SlotsApart DEF CacheInv, Rest
  <2> QED
    BY <1>1, <2>1, <2>2, <2>3 DEF CacheInv, Rest
<1>14. Exclusive'
  <2>1. \A s \in Thread : Holds(s) => th[s].b # x
    BY <1>1 DEF HoldInv, Rest
  <2> QED
    BY <1>2, <1>6, <2>1 DEF Exclusive, Rest, Holds
<1> QED
  BY <1>2, <1>3, <1>4, <1>5, <1>12, <1>13, <1>14 DEF Rest

\* The arrays after the cache has grown by k objects.
Grown(t, new, k) ==
  LET n == Len(blindings) IN
  /\ \A j \in 1 .. k : ~ bn[new[j]].live
  /\ \A i, j \in 1 .. k : new[i] = new[j] => i = j
  /\ blindings' \in Seq(Blinding) /\ inuse' \in Seq(BOOLEAN)
  /\ Len(blindings') = n + k /\ Len(inuse') = n + k /\ n + k <= MaxBlindings
  /\ \A i \in 1 .. n : blindings'[i] = blindings[i] /\ (inuse'[i] <=> inuse[i])
  /\ \A i \in n + 1 .. n + k : blindings'[i] = new[i - n] /\ (inuse'[i] <=> i = n + 1)
  /\ bn' = [b \in Blinding |-> IF \E i \in 1 .. k : new[i] = b
                               THEN BN_BLINDING_new ELSE Wiped[b]]
  /\ Take(t, new[1], n + 1)

\* What GetGrown leaves in the two arrays.
LEMMA GrownIs ==
  ASSUME Types, NEW t \in Thread, GetGrown(t)
  PROVE  \E k \in Nat \ {0} : \E new \in [1 .. k -> Blinding] : Grown(t, new, k)
<1> DEFINE n == Len(blindings)
           k == Doubled - n
           flags == [i \in 1 .. k |-> i = 1]
<1> USE DEF Types, ArrayType
<1>1. PICK new \in [1 .. k -> {b \in Blinding : ~ bn[b].live}] :
         /\ \A i, j \in DOMAIN new : new[i] = new[j] => i = j
         /\ blindings' = blindings \o new
         /\ bn' = [b \in Blinding |-> IF \E i \in DOMAIN new : new[i] = b
                                      THEN BN_BLINDING_new ELSE Wiped[b]]
         /\ Take(t, new[1], n + 1)
  BY DEF GetGrown
<1>2. n < MaxBlindings /\ inuse' = inuse \o flags
  BY DEF GetGrown
<1>3. n \in Nat /\ MaxBlindings \in Nat /\ Len(inuse) = n
  BY RsaAssumption
<1>4. k \in Nat \ {0} /\ n + k <= MaxBlindings
  BY <1>2, <1>3 DEF Doubled
<1> HIDE DEF k
<1>5. DOMAIN new = 1 .. k /\ new \in [1 .. k -> Blinding]
  BY <1>4
<1>5a. new \in Seq(Blinding) /\ Len(new) = k
  BY <1>4, <1>5
<1>5b. blindings \in Seq(Blinding) /\ blindings' = blindings \o new
  BY <1>1
<1>6. flags \in Seq(BOOLEAN) /\ Len(flags) = k /\ \A i \in 1 .. k : flags[i] <=> i = 1
  <2>1. flags \in [1 .. k -> BOOLEAN]
    BY Zenon
  <2>2. flags \in Seq(BOOLEAN) /\ Len(flags) = k
    BY <2>1, <1>4
  <2> QED
    BY <2>2, Zenon
<1> HIDE DEF flags
<1>7. /\ blindings' \in Seq(Blinding) /\ Len(blindings') = n + k
      /\ \A i \in 1 .. n + k : blindings'[i] = IF i <= n THEN blindings[i] ELSE new[i - n]
  <2> HIDE DEF Types, ArrayType
  <2>1. /\ blindings \o new \in Seq(Blinding)
        /\ Len(blindings \o new) = Len(blindings) + Len(new)
        /\ \A i \in 1 .. Len(blindings) + Len(new) : (blindings \o new)[i] =
              IF i <= Len(blindings) THEN blindings[i] ELSE new[i - Len(blindings)]
    BY ONLY <1>5a, <1>5b, ConcatProperties
  <2> QED
    BY ONLY <2>1, <1>5a, <1>5b
<1>8. /\ inuse' \in Seq(BOOLEAN) /\ Len(inuse') = n + k
      /\ \A i \in 1 .. n + k : inuse'[i] = IF i <= n THEN inuse[i] ELSE flags[i - n]
  BY <1>2, <1>3, <1>6, ConcatProperties
<1>9. \A i \in 1 .. n : blindings'[i] = blindings[i] /\ (inuse'[i] <=> inuse[i])
  <2>1. \A i \in 1 .. n : i \in 1 .. n + k /\ i <= n
    BY <1>3, <1>4
  <2>2. \A i \in 1 .. n : blindings'[i] = blindings[i] /\ inuse'[i] = inuse[i]
    BY <2>1, <1>7, <1>8
  <2> QED
    BY <2>2
<1>10. \A i \in n + 1 .. n + k : blindings'[i] = new[i - n] /\ (inuse'[i] <=> i = n + 1)
  <2> SUFFICES ASSUME NEW i \in n + 1 .. n + k
               PROVE  blindings'[i] = new[i - n] /\ (inuse'[i] <=> i = n + 1)
    OBVIOUS
  <2>1. i \in 1 .. n + k /\ ~ (i <= n) /\ i - n \in 1 .. k /\ (i - n = 1 <=> i = n + 1)
    BY <1>3, <1>4
  <2>2. blindings'[i] = new[i - n]
    BY <2>1, <1>7
  <2>3. inuse'[i] = flags[i - n]
    BY <2>1, <1>8
  <2> QED
    BY <2>1, <2>2, <2>3, <1>6
<1>14. \A j \in 1 .. k : ~ bn[new[j]].live
  BY <1>1
<1>15. bn' = [b \in Blinding |-> IF \E i \in 1 .. k : new[i] = b THEN BN_BLINDING_new ELSE Wiped[b]]
  BY <1>1, <1>5
<1>16. \A i, j \in 1 .. k : new[i] = new[j] => i = j
  BY <1>1, <1>5
<1>17. Grown(t, new, k)
  BY <1>1, <1>4, <1>7, <1>8, <1>9, <1>10, <1>14, <1>15, <1>16 DEF Grown
<1> QED
  BY <1>4, <1>5, <1>17

\* rsa_blinding_get doubles the cache and gives out a new slot.
LEMMA GetGrownKeeps ==
  ASSUME Types, Rest, NEW t \in Thread, th[t].pc = "get", GetGrown(t),
         rsaGen' = gen, UNCHANGED <<bases, spent, gen>>
  PROVE  ArrayType' /\ FactorType' /\ ThreadType' /\ Rest' /\ th'[t].pc = "convert"
         /\ \A s \in Thread \ {t} : th'[s] = th[s]
<1> DEFINE n == Len(blindings)
<1>p. PICK k \in Nat \ {0} : \E new \in [1 .. k -> Blinding] : Grown(t, new, k)
  BY GrownIs
<1>q. PICK new \in [1 .. k -> Blinding] : Grown(t, new, k)
  BY <1>p
<1>n. n \in Nat /\ MaxBlindings \in Nat /\ DOMAIN blindings = 1 .. n
  BY SlotsApart, RsaAssumption
<1>h. /\ blindings' \in Seq(Blinding) /\ inuse' \in Seq(BOOLEAN)
      /\ Len(blindings') = n + k /\ Len(inuse') = n + k /\ n + k <= MaxBlindings
  BY <1>q DEF Grown
<1>i. DOMAIN blindings' = 1 .. n + k
  BY <1>h, <1>n
<1>a. ArrayType'
  BY <1>h DEF ArrayType, Types
<1>1. /\ \A j \in 1 .. k : ~ bn[new[j]].live
      /\ \A i, j \in 1 .. k : new[i] = new[j] => i = j
      /\ \A i \in 1 .. n : blindings'[i] = blindings[i] /\ (inuse'[i] <=> inuse[i])
      /\ \A i \in n + 1 .. n + k : blindings'[i] = new[i - n] /\ (inuse'[i] <=> i = n + 1)
      /\ bn' = [b \in Blinding |-> IF \E i \in 1 .. k : new[i] = b
                                   THEN BN_BLINDING_new ELSE Wiped[b]]
      /\ Take(t, new[1], n + 1)
      /\ DOMAIN blindings' = 1 .. n + k
  BY <1>q, <1>i DEF Grown
<1> DEFINE x == new[1]
           IsNew(b) == \E i \in 1 .. k : new[i] = b
<1>2. /\ n \in Nat /\ k \in Nat \ {0} /\ MaxBlindings \in Nat /\ DOMAIN blindings = 1 .. n
      /\ n + 1 \in 0 .. MaxBlindings + 1 /\ 1 \in 1 .. k /\ \A j \in 1 .. k : new[j] \in Blinding
      /\ n + 1 \in DOMAIN blindings'
  BY <1>n, <1>h, <1>i
<1> HIDE DEF n
<1>3. /\ ThreadType' /\ \A s \in Thread \ {t} : th'[s] = th[s]
      /\ th'[t].pc = "convert" /\ th'[t].b = x /\ th'[t].index = n + 1
  BY <1>1, <1>2, TakeIs DEF Types
<1>4. /\ bn' \in [Blinding -> Rec]
      /\ \A b \in Blinding : IsNew(b) => ~ bn[b].live /\ bn'[b] = BN_BLINDING_new
      /\ \A b \in Blinding : ~ IsNew(b) => bn'[b] = Wiped[b]
  <2>1. FactorType
    BY DEF Types
  <2> QED
    BY <1>1, <2>1, WipedIs, NewIs, RsaAssumption
<1>5. /\ FactorType' /\ PairInv' /\ SpentInv'
      /\ \A b \in Blinding : bn[b].live => bn'[b].live /\ bn'[b].Ai = bn[b].Ai
      /\ \A b \in Blinding : bn'[b].live => bn[b].live \/ IsNew(b)
  <2>0. FactorType
    BY DEF Types
  <2>1. \A b \in Blinding : Renewed(b)
    BY <1>4 DEF Renewed
  <2>2. \A b \in Blinding : ~ IsNew(b) => bn'[b].live = bn[b].live
    BY <1>4, <2>0, WipedIs, RsaAssumption
  <2> QED
    BY <2>1, <2>2, <1>4, AfterGet
<1>6. Unblinds'
  BY <1>3, <1>5, StillUnblinds
<1>7. \A s \in Thread : Holds(s)' <=> (s = t \/ Holds(s))
  BY <1>3 DEF Holds, Holding
<1>8. ~ Holds(t)
  BY DEF Holds, Holding
<1>9. \A b \in Blinding : InCache(b)' <=> InCache(b) \/ IsNew(b)
  <2> SUFFICES ASSUME NEW b \in Blinding PROVE InCache(b)' <=> InCache(b) \/ IsNew(b)
    OBVIOUS
  <2>1. ASSUME NEW i \in DOMAIN blindings', blindings'[i] = b PROVE InCache(b) \/ IsNew(b)
    <3>1. CASE i \in 1 .. n
      BY <1>1, <1>2, <2>1, <3>1 DEF InCache
    <3>2. CASE i \in n + 1 .. n + k
      <4>1. i - n \in 1 .. k /\ new[i - n] = b
        BY <1>1, <1>2, <2>1, <3>2
      <4> QED
        BY <4>1
    <3> QED
      BY <1>1, <1>2, <3>1, <3>2
  <2>2. ASSUME NEW i \in DOMAIN blindings, blindings[i] = b PROVE InCache(b)'
    <3>1. i \in DOMAIN blindings' /\ blindings'[i] = b
      BY <1>1, <1>2, <2>2
    <3> QED
      BY <3>1 DEF InCache
  <2>3. ASSUME NEW j \in 1 .. k, new[j] = b PROVE InCache(b)'
    <3>1. n + j \in n + 1 .. n + k /\ n + j \in DOMAIN blindings' /\ (n + j) - n = j
      BY <1>1, <1>2
    <3>2. blindings'[n + j] = b
      BY <1>1, <3>1, <2>3
    <3> QED
      BY <3>1, <3>2 DEF InCache
  <2> QED
    BY <2>1, <2>2, <2>3 DEF InCache
<1>10. \A s \in Thread \ {t} : HoldsSlot(s) => HoldsSlot(s)'
  <2>1. \A i \in DOMAIN blindings : i \in DOMAIN blindings' /\ blindings'[i] = blindings[i] /\ (inuse'[i] <=> inuse[i])
    BY <1>1, <1>2
  <2> QED
    BY <2>1, <1>3 DEF HoldsSlot
<1>11. \A s \in Thread \ {t} : Holds(s) /\ HoldsOwn(s) => HoldsOwn(s)'
  <2> SUFFICES ASSUME NEW s \in Thread \ {t}, Holds(s), HoldsOwn(s) PROVE HoldsOwn(s)'
    OBVIOUS
  <2>1. th[s].b \in Blinding /\ bn[th[s].b].live /\ th'[s] = th[s]
    BY <1>3 DEF HoldInv, Rest
  <2>2. ~ IsNew(th[s].b)
    BY <2>1, <1>4
  <2>3. ~ InCache(th[s].b)'
    BY <2>1, <2>2, <1>9 DEF HoldsOwn
  <2> QED
    BY <2>1, <2>3 DEF HoldsOwn, InCache
<1>12. HoldsSlot(t)'
  <2>1. n + 1 \in n + 1 .. n + k /\ (n + 1) - n = 1
    BY <1>2
  <2>2. blindings'[n + 1] = x /\ inuse'[n + 1]
    BY <1>1, <2>1
  <2> QED
    BY <1>2, <1>3, <2>2 DEF HoldsSlot
<1>13. HoldInv'
  <2>1. x \in Blinding /\ bn'[x].live
    BY <1>2, <1>4, NewIs
  <2> QED
    BY <1>3, <1>5, <1>7, <1>10, <1>11, <1>12, <2>1 DEF HoldInv, Rest
<1>14. CacheInv'
  <2>0. \A i \in DOMAIN blindings' : i \in 1 .. n \/ (i \in n + 1 .. n + k /\ i - n \in 1 .. k)
    BY <1>1, <1>2
  <2>1. ASSUME NEW i \in DOMAIN blindings', NEW j \in DOMAIN blindings', blindings'[i] = blindings'[j]
        PROVE  i = j
    <3>0. \A p \in 1 .. n : blindings'[p] = blindings[p] /\ bn[blindings[p]].live
      BY <1>1, <1>2 DEF CacheInv, Rest
    <3>1. \A p \in n + 1 .. n + k : p - n \in 1 .. k /\ blindings'[p] = new[p - n] /\ ~ bn[blindings'[p]].live
      BY <1>1, <1>2
    <3>2. CASE i \in 1 .. n /\ j \in 1 .. n
      BY <3>0, <3>2, <2>1, <1>2 DEF CacheInv, Rest
    <3>3. CASE i \in n + 1 .. n + k /\ j \in n + 1 .. n + k
      <4>1. new[i - n] = new[j - n]
        BY <3>1, <3>3, <2>1
      <4>2. i - n = j - n
        BY <4>1, <3>1, <3>3, <1>1
      <4> QED
        BY <4>2, <3>3, <1>2
    <3> QED
      BY <2>0, <3>0, <3>1, <3>2, <3>3, <2>1
  <2>2. \A i \in DOMAIN blindings' : bn'[blindings'[i]].live
    <3>1. \A i \in 1 .. n : blindings[i] \in Blinding /\ bn[blindings[i]].live
      BY <1>2, SlotsApart DEF CacheInv, Rest
    <3>2. \A i \in 1 .. n : bn'[blindings'[i]].live
      BY <3>1, <1>1, <1>5
    <3>3. \A j \in 1 .. k : bn'[new[j]].live
      BY <1>2, <1>4, NewIs
    <3>4. \A i \in n + 1 .. n + k : i - n \in 1 .. k /\ blindings'[i] = new[i - n]
      BY <1>1, <1>2
    <3>5. \A i \in n + 1 .. n + k : bn'[blindings'[i]].live
      BY <3>3, <3>4
    <3> QED
      BY <2>0, <3>2, <3>5
  <2>3. ASSUME NEW i \in DOMAIN blindings', inuse'[i] PROVE \E s \in Thread : Holds(s)' /\ th'[s].index = i
    <3>1. CASE i \in 1 .. n
      <4>1. PICK s \in Thread : Holds(s) /\ th[s].index = i
        BY <3>1, <2>3, <1>1, <1>2 DEF CacheInv, Rest
      <4> QED
        BY <4>1, <1>3, <1>7, <1>8
    <3>2. CASE i \in n + 1 .. n + k
      BY <3>2, <2>3, <1>1, <1>3, <1>7
    <3> QED
      BY <2>0, <3>1, <3>2
  <2>4. ASSUME NEW b \in Blinding, bn'[b].live
        PROVE  InCache(b)' \/ \E s \in Thread : Holds(s)' /\ HoldsOwn(s)' /\ th'[s].b = b
    <3>1. CASE InCache(b) \/ IsNew(b)
      BY <3>1, <1>9
    <3>2. CASE ~ InCache(b) /\ ~ IsNew(b)
      <4>1. bn[b].live
        BY <2>4, <3>2, <1>5
      <4>2. PICK s \in Thread : Holds(s) /\ HoldsOwn(s) /\ th[s].b = b
        BY <4>1, <3>2 DEF CacheInv, Rest
      <4> QED
        BY <4>2, <1>3, <1>7, <1>8, <1>11
    <3> QED
      BY <3>1, <3>2
  <2> QED
    BY <2>1, <2>2, <2>3, <2>4 DEF CacheInv
<1>15. Exclusive'
  <2>1. \A s \in Thread : Holds(s) => th[s].b # x
    BY <1>1, <1>2 DEF HoldInv, Rest
  <2> QED
    BY <1>3, <1>7, <2>1 DEF Exclusive, Rest, Holds
<1> QED
  BY <1>a, <1>3, <1>5, <1>6, <1>13, <1>14, <1>15 DEF Rest

\* rsa_blinding_get fails.
LEMMA GetFailsKeeps ==
  ASSUME Types, Rest, NEW t \in Thread, th[t].pc = "get", GetFails(t),
         rsaGen' = gen, UNCHANGED <<bases, spent, gen>>
  PROVE  ArrayType' /\ FactorType' /\ ThreadType' /\ Rest' /\ th'[t].pc = "idle"
         /\ \A s \in Thread \ {t} : th'[s] = th[s]
<1> USE DEF Types
<1>1. bn' = Wiped /\ Goto(t, "idle") /\ UNCHANGED <<blindings, inuse>>
  BY DEF GetFails
<1>2. Moved(t, "idle")
  BY <1>1, GotoMoves DEF Pc, UsesKey, Holding
<1>3. ThreadType' /\ ArrayType'
  BY <1>1, <1>2 DEF ThreadType, ArrayType, Moved
<1>4. /\ FactorType' /\ PairInv' /\ SpentInv'
      /\ \A b \in Blinding : bn[b].live => bn'[b].live /\ bn'[b].Ai = bn[b].Ai
      /\ \A b \in Blinding : bn'[b].live => bn[b].live
  <2>1. bn' \in [Blinding -> Rec] /\ \A b \in Blinding : Renewed(b)
    BY <1>1, WipedIs, RsaAssumption DEF Renewed
  <2> QED
    BY <2>1, <1>1, AfterGet, WipedIs, RsaAssumption
<1>5. Unblinds'
  BY <1>2, <1>4, StillUnblinds DEF Moved
<1>6. \A s \in Thread : /\ Holds(s)' <=> Holds(s)
                        /\ th'[s].b = th[s].b /\ th'[s].index = th[s].index
                        /\ HoldsSlot(s)' <=> HoldsSlot(s)
                        /\ HoldsOwn(s)' <=> HoldsOwn(s)
  BY <1>1, <1>2 DEF Holds, Holding, HoldsSlot, HoldsOwn, InCache, Moved
<1>7. \A b \in Blinding : InCache(b)' <=> InCache(b)
  BY <1>1 DEF InCache
<1>8. HoldInv'
  BY <1>4, <1>6 DEF HoldInv, Rest
<1>9. CacheInv'
  <2>1. \A j \in DOMAIN blindings : bn'[blindings[j]].live
    BY <1>4, SlotsApart DEF CacheInv, Rest
  <2>2. \A b \in Blinding : bn'[b].live =>
          InCache(b)' \/ \E s \in Thread : Holds(s)' /\ HoldsOwn(s)' /\ th'[s].b = b
    BY <1>4, <1>6, <1>7 DEF CacheInv, Rest
  <2> QED
    BY <1>1, <1>6, <2>1, <2>2 DEF CacheInv, Rest
<1>10. Exclusive'
  BY <1>6 DEF Exclusive, Rest, Holds
<1> QED
  BY <1>2, <1>3, <1>4, <1>5, <1>8, <1>9, <1>10 DEF Rest, Moved

-----------------------------------------------------------------------------
(* The whole key.                                                           *)

\* The operations on the cache and on the objects in it.
BlindAction(t) ==
  rsa_blinding_get(t) \/ BN_BLINDING_convert(t) \/ rsa_blinding_release(t)

\* What every operation on the cache keeps and does.
LEMMA BlindStep ==
  ASSUME Types, Rest, NEW t \in Thread, BlindAction(t)
  PROVE  /\ ArrayType' /\ FactorType' /\ ThreadType' /\ Rest' /\ UNCHANGED keyVars
         /\ \A s \in Thread \ {t} : th'[s] = th[s]
         /\ th[t].pc \in Holding \cup {"get"} /\ th'[t].pc \in Holding \cup {"idle"}
         /\ th'[t].pc = "invert" => th'[t].used \notin spent
<1>1. CASE rsa_blinding_get(t)
  <2>1. /\ th[t].pc = "get" /\ rsaGen' = gen /\ UNCHANGED <<keyVars, bases, spent, gen>>
        /\ GetCached(t) \/ GetUncached(t) \/ GetGrown(t) \/ GetFails(t)
    BY <1>1 DEF rsa_blinding_get
  <2>2. /\ ArrayType' /\ FactorType' /\ ThreadType' /\ Rest'
        /\ th'[t].pc \in {"convert", "idle"}
        /\ \A s \in Thread \ {t} : th'[s] = th[s]
    BY <2>1, GetCachedKeeps, GetUncachedKeeps, GetGrownKeeps, GetFailsKeeps
  <2> QED
    BY <2>1, <2>2 DEF Holding
<1>2. CASE BN_BLINDING_convert(t)
  BY <1>2, ConvertKeeps DEF Holding
<1>3. CASE rsa_blinding_release(t)
  <2>1. ArrayType' /\ FactorType' /\ ThreadType' /\ Rest'
    BY <1>3, ReleaseKeeps
  <2>2. th[t].pc = "release" /\ UNCHANGED keyVars /\ th' = [th EXCEPT ![t] = Idle]
    BY <1>3 DEF rsa_blinding_release
  <2>3. th'[t].pc = "idle" /\ \A s \in Thread \ {t} : th'[s] = th[s]
    BY <2>2 DEF Types, ThreadType, Idle
  <2> QED
    BY <2>1, <2>2, <2>3 DEF Holding
<1> QED
  BY <1>1, <1>2, <1>3 DEF BlindAction

\* A fork makes the cached values those of another generation.
LEMMA ForkKeeps ==
  ASSUME Types, KeyInv, Rest, Fork
  PROVE  Types' /\ KeyInv' /\ Rest'
<1> USE DEF Types
<1>1. /\ UNCHANGED <<keyVars, cacheVars, bn, bases, th>> /\ gen < MaxGen /\ gen' = gen + 1
      /\ spent' = spent \cup {f \in Factor : \E b \in Blinding : f[1] = bn[b].A[1]}
      /\ \A t \in Thread : th[t].pc = "idle"
  BY DEF Fork, AllIdle
<1>2. gen' \in 1 .. MaxGen /\ rsaGen' \in 0 .. gen' /\ rsaGen' # gen'
  BY <1>1, RsaAssumption DEF ArrayType, cacheVars
<1>3. Types'
  BY <1>1, <1>2 DEF KeyType, ArrayType, FactorType, ThreadType, keyVars, cacheVars
<1>4. \A t \in Thread : ~ Holds(t) /\ ~ Holds(t)'
  BY <1>1 DEF Holds, Holding
<1>5. KeyInv' /\ HoldInv' /\ Exclusive' /\ Unblinds'
  BY <1>1, <1>4 DEF KeyInv, HoldInv, Exclusive, Unblinds, Rest, keyVars, cacheVars, Holds, Holding
<1>6. \A b \in Blinding : (InCache(b)' <=> InCache(b)) /\ (Steady(b)' <=> Steady(b))
  BY <1>1 DEF InCache, Steady, Recreates, cacheVars
<1>7. CacheInv' /\ PairInv'
  BY <1>1, <1>4, <1>6 DEF CacheInv, PairInv, Rest, cacheVars
<1>8. SpentInv'
  BY <1>1, <1>2, <1>6 DEF SpentInv, Rest
<1> QED
  BY <1>3, <1>5, <1>7, <1>8 DEF Rest

\* rsa_invalidate_key leaves no object behind.
LEMMA InvalidateKeeps ==
  ASSUME Types, KeyInv, Rest, rsa_invalidate_key
  PROVE  Types' /\ KeyInv' /\ Rest'
<1> USE DEF Types
<1>1. /\ mont' = 0 /\ parts' = 0 /\ frozen' = FALSE /\ UNCHANGED <<made, bases, spent, gen, th>>
      /\ blindings' = <<>> /\ inuse' = <<>> /\ rsaGen' = 0
      /\ bn' = [b \in Blinding |-> IF InCache(b) THEN Freed ELSE bn[b]]
      /\ \A t \in Thread : th[t].pc = "idle"
  BY DEF rsa_invalidate_key, AllIdle, InCache
<1>2. \A t \in Thread : ~ Holds(t) /\ ~ Holds(t)'
  BY <1>1 DEF Holds, Holding
<1>3. \A b \in Blinding : bn'[b] \in Rec /\ ~ bn'[b].live /\ bn'[b].A[1] <= bases
  <2>1. Freed \in Rec /\ ~ Freed.live /\ Freed.A[1] = 0
    BY RsaAssumption DEF Freed, Rec, Value, Unset
  <2>2. \A b \in Blinding : bn[b] \in Rec /\ bn[b].A[1] <= bases /\ (bn[b].live => InCache(b))
    BY <1>2 DEF FactorType, SpentInv, CacheInv, Rest
  <2>3. 0 <= bases
    BY DEF FactorType
  <2> QED
    BY <1>1, <2>1, <2>2, <2>3
<1>4. KeyType' /\ ThreadType' /\ FactorType'
  <2>1. bn' \in [Blinding -> Rec]
    BY <1>1, <1>3
  <2>2. frozen' \in BOOLEAN
    BY <1>1, Zenon
  <2>3. mont' \in 0 .. made' /\ made' \in 0 .. MaxMont /\ parts' \in 0 .. Parts
    BY <1>1, RsaAssumption DEF KeyType, Parts
  <2> QED
    BY <1>1, <2>1, <2>2, <2>3 DEF KeyType, ThreadType, FactorType
<1>5. ArrayType'
  BY <1>1, RsaAssumption, EmptySeq DEF ArrayType
<1>6. KeyInv' /\ HoldInv' /\ Exclusive' /\ Unblinds'
  BY <1>1, <1>2 DEF KeyInv, HoldInv, Exclusive, Unblinds, Holds, Holding, UsesKey
<1>7. CacheInv'
  BY <1>1, <1>3 DEF CacheInv
<1>8. PairInv' /\ SpentInv'
  BY <1>1, <1>3 DEF PairInv, SpentInv, Steady, Rest
<1> QED
  BY <1>4, <1>5, <1>6, <1>7, <1>8 DEF Rest

\* The key and its cache as they are created.
LEMMA InitHolds == Init => Types /\ KeyInv /\ Rest
<1> SUFFICES ASSUME Init PROVE Types /\ KeyInv /\ Rest
  OBVIOUS
<1> USE RsaAssumption
<1>1. Freed \in Rec /\ ~ Freed.live /\ Freed.A[1] = 0
  BY DEF Freed, Rec, Value, Unset
<1>2. Idle \in Local /\ Idle.pc = "idle"
  BY DEF Idle, Local, Pc, Value
<1>3. \A b \in Blinding : bn[b] = Freed
  BY DEF Init
<1>4. \A t \in Thread : th[t] = Idle
  BY DEF Init
<1>5. KeyType /\ FactorType /\ ThreadType
  <2>1. KeyType
    <3>1. frozen \in BOOLEAN
      BY Zenon DEF Init
    <3>2. mont \in 0 .. made /\ made \in 0 .. MaxMont /\ parts \in 0 .. Parts
      BY DEF Init, Parts
    <3> QED
      BY <3>1, <3>2 DEF KeyType
  <2>2. ThreadType
    BY <1>2 DEF Init, ThreadType
  <2>3. FactorType
    BY <1>1 DEF Init, FactorType
  <2> QED
    BY <2>1, <2>2, <2>3
<1>6. ArrayType
  BY EmptySeq DEF Init, ArrayType
<1>7. \A t \in Thread : ~ Holds(t) /\ th[t].pc = "idle"
  BY <1>2, <1>4 DEF Holds, Holding
<1>8. KeyInv /\ HoldInv /\ Exclusive /\ Unblinds
  BY <1>7 DEF Init, KeyInv, HoldInv, Exclusive, Unblinds, Holds, UsesKey, Holding
<1>9. CacheInv /\ PairInv
  BY <1>1, <1>3 DEF Init, CacheInv, PairInv, Steady
<1>10. SpentInv
  BY <1>1, <1>3 DEF Init, SpentInv, Steady
<1> QED
  BY <1>5, <1>6, <1>8, <1>9, <1>10 DEF Types, Rest

\* Every step of a thread is one of the two kinds.
LEMMA Steps ==
  ASSUME Next
  PROVE  (\E t \in Thread : KeyAction(t) \/ BlindAction(t)) \/ Fork \/ rsa_invalidate_key
BY DEF Next, Step, KeyAction, BlindAction

\* The invariant is inductive.
LEMMA NextKeeps == Types /\ KeyInv /\ Rest /\ [Next]_vars => Types' /\ KeyInv' /\ Rest'
<1> SUFFICES ASSUME Types, KeyInv, Rest, [Next]_vars PROVE Types' /\ KeyInv' /\ Rest'
  OBVIOUS
<1>1. ASSUME NEW t \in Thread, KeyAction(t) PROVE Types' /\ KeyInv' /\ Rest'
  <2>1. PICK place \in Pc : /\ Moved(t, place)
                            /\ place \in Holding <=> th[t].pc \in Holding
                            /\ place # "invert"
    BY <1>1, KeyStep
  <2>2. UNCHANGED <<cacheVars, factorVars, gen>> /\ KeyType' /\ KeyInv'
    BY <1>1, KeyStep
  <2>3. ThreadType'
    BY <2>1 DEF Moved, ThreadType
  <2>4. \A s \in Thread :
            /\ th'[s].b = th[s].b /\ th'[s].index = th[s].index /\ th'[s].used = th[s].used
            /\ th'[s].pc \in Holding <=> th[s].pc \in Holding
            /\ th'[s].pc = "invert" => th[s].pc = "invert"
    BY <2>1 DEF Moved
  <2>5. ArrayType' /\ FactorType' /\ Rest'
    BY <2>2, <2>4, Quiet
  <2> QED
    BY <2>2, <2>3, <2>5 DEF Types
<1>2. ASSUME NEW t \in Thread, BlindAction(t) PROVE Types' /\ KeyInv' /\ Rest'
  <2>1. /\ ArrayType' /\ FactorType' /\ ThreadType' /\ Rest' /\ UNCHANGED keyVars
        /\ \A s \in Thread \ {t} : th'[s] = th[s]
        /\ th[t].pc \in Holding \cup {"get"} /\ th'[t].pc \in Holding \cup {"idle"}
    BY <1>2, BlindStep
  <2>2. KeyType'
    BY <2>1 DEF Types, KeyType, keyVars
  <2>3. frozen /\ th'[t].pc # "public"
    BY <2>1 DEF KeyInv, UsesKey, Holding
  <2>4. KeyInv'
    BY <2>1, <2>3, KeyUnchanged
  <2> QED
    BY <2>1, <2>2, <2>4 DEF Types
<1>3. CASE UNCHANGED vars
  <2>1. UNCHANGED <<cacheVars, factorVars, gen>> /\ UNCHANGED keyVars /\ th' = th
    BY <1>3 DEF vars
  <2>2. ArrayType' /\ FactorType' /\ Rest'
    BY <2>1, Quiet
  <2> QED
    BY <2>1, <2>2 DEF Types, KeyType, ThreadType, KeyInv, keyVars
<1> QED
  BY <1>1, <1>2, <1>3, Steps, ForkKeeps, InvalidateKeeps

\* The invariant of the cache and the key, for every number of threads.
THEOREM Inductive == Spec => [](Types /\ KeyInv /\ Rest)
BY InitHolds, NextKeeps, PTL DEF Spec

\* No two operations ever share a BN_BLINDING between rsa_blinding_get and
\* rsa_blinding_release.
THEOREM OneUser == Spec => []Exclusive
<1>1. Rest => Exclusive
  BY DEF Rest
<1> QED
  BY <1>1, Inductive, PTL

\* The flags of the cache are exact (the assertion of rsa_blinding_get after a
\* fork), no slot and no object is lost, and every variable has its type.
THEOREM CacheIsExact == Spec => []CacheExact
<1>1. Types /\ KeyInv /\ Rest => CacheExact
  <2> SUFFICES ASSUME Types, Rest PROVE CacheExact
    OBVIOUS
  <2>1. TypeOK
    BY TypeParts
  <2>2. ASSUME NEW i \in DOMAIN inuse
        PROVE  inuse[i] <=> \E t \in Thread : th[t].pc \in Holding /\ th[t].index = i
    <3>1. i \in DOMAIN blindings /\ i # MaxBlindings + 1
      BY SlotsApart
    <3> QED
      BY <3>1 DEF CacheInv, HoldInv, HoldsSlot, HoldsOwn, Holds, Rest
  <2>3. ASSUME NEW b \in Blinding
        PROVE  bn[b].live <=> \/ \E i \in DOMAIN blindings : blindings[i] = b
                              \/ \E t \in Thread : /\ th[t].pc \in Holding
                                                   /\ th[t].index = MaxBlindings + 1
                                                   /\ th[t].b = b
    BY DEF CacheInv, HoldInv, HoldsOwn, Holds, InCache, Rest
  <2> QED
    BY <2>1, <2>2, <2>3 DEF CacheExact
<1> QED
  BY <1>1, Inductive, PTL

\* BN_BLINDING_invert always undoes what BN_BLINDING_convert did.
THEOREM UnblindsWhatItBlinded == Spec => []Unblinds
<1>1. Rest => Unblinds
  BY DEF Rest
<1> QED
  BY <1>1, Inductive, PTL

\* No factor blinds two operations, across forks and after failed updates.
THEOREM FactorsAreFresh == Spec => NoFactorReused
<1>1. Types /\ KeyInv /\ Rest /\ [Next]_vars =>
        [\A t \in Thread : th[t].pc = "convert" /\ th'[t].pc = "invert"
                             => th'[t].used \notin spent]_vars
  <2> SUFFICES ASSUME Types, KeyInv, Rest, Next, NEW t \in Thread,
                      th[t].pc = "convert", th'[t].pc = "invert"
               PROVE  th'[t].used \notin spent
    BY DEF vars
  <2>1. ASSUME NEW s \in Thread, KeyAction(s) PROVE FALSE
    BY <2>1, KeyStep DEF Moved
  <2>2. ASSUME NEW s \in Thread, BlindAction(s) PROVE th'[t].used \notin spent
    BY <2>2, BlindStep
  <2>3. ~ Fork /\ ~ rsa_invalidate_key
    BY DEF Fork, rsa_invalidate_key, AllIdle
  <2> QED
    BY <2>1, <2>2, <2>3, Steps
<1> QED
  BY <1>1, Inductive, PTL DEF Spec, NoFactorReused

\* What an operation reads of the key without the lock stays complete and as
\* it is (freeze_private_key, BN_MONT_CTX_set_locked).
THEOREM KeyIsStable == Spec => KeyStable
<1>1. Types /\ KeyInv /\ Rest /\ [Next]_vars =>
        [\A t \in Thread :
           th[t].pc \in UsesKey /\ th'[t].pc \in UsesKey =>
             /\ mont # 0 /\ mont' = mont
             /\ th[t].pc # "public" => frozen /\ parts = Parts /\ parts' = parts]_vars
  <2> SUFFICES ASSUME Types, KeyInv, Rest, Next, NEW t \in Thread, th[t].pc \in UsesKey
               PROVE  /\ mont # 0 /\ mont' = mont
                      /\ th[t].pc # "public" => frozen /\ parts = Parts /\ parts' = parts
    BY DEF vars
  <2>1. ASSUME NEW s \in Thread, KeyAction(s)
        PROVE  /\ mont # 0 /\ mont' = mont
               /\ th[t].pc # "public" => frozen /\ parts = Parts /\ parts' = parts
    BY <2>1, KeyStep
  <2>2. ASSUME NEW s \in Thread, BlindAction(s)
        PROVE  /\ mont # 0 /\ mont' = mont
               /\ th[t].pc # "public" => frozen /\ parts = Parts /\ parts' = parts
    <3>1. UNCHANGED keyVars
      BY <2>2, BlindStep
    <3> QED
      BY <3>1 DEF KeyInv, keyVars, UsesKey
  <2>3. ~ Fork /\ ~ rsa_invalidate_key
    BY DEF Fork, rsa_invalidate_key, AllIdle, UsesKey, Holding
  <2> QED
    BY <2>1, <2>2, <2>3, Steps
<1> QED
  BY <1>1, Inductive, PTL DEF Spec, KeyStable
=============================================================================
