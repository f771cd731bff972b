---------------------------- MODULE RsaBlinding ----------------------------
(***************************************************************************)
(* The state an RSA key keeps for private operations, shared by the        *)
(* threads that use the key: the lazily frozen precomputed components      *)
(* (freeze_private_key, BN_MONT_CTX_set_locked) and the cache of blinding  *)
(* factors (crypto/fipsmodule/rsa/rsa_impl.c, blinding.c).                 *)
(*                                                                         *)
(* Every region under rsa->lock is one step; what a thread does between    *)
(* two regions (blind, exponentiate, unblind) interleaves with the others. *)
(* A blinding factor is <<base, k>>: random base number `base`, squared k  *)
(* times.  A names the factor that blinds, Ai the factor that its value    *)
(* undoes; a failed update may leave the two apart.  Keys whose flags turn *)
(* blinding off never reach the cache and are left out.                    *)
(***************************************************************************)
EXTENDS Naturals, Sequences, FiniteSets

CONSTANTS Thread,       \* threads sharing one RSA key
          Blinding,     \* addresses BN_BLINDING_new may return
          None,         \* the NULL BN_BLINDING pointer
          MaxBlindings, \* MAX_BLINDINGS_PER_RSA
          Counter,      \* BN_BLINDING_COUNTER
          MaxBase,      \* bound: random bases drawn
          MaxGen,       \* bound: fork generations
          MaxMont       \* bound: Montgomery contexts made for the modulus

ASSUME RsaAssumption ==
  /\ None \notin Blinding
  /\ MaxBlindings \in Nat \ {0} /\ Counter \in Nat \ {0}
  /\ MaxBase \in Nat /\ MaxGen \in Nat \ {0} /\ MaxMont \in Nat

VARIABLES mont,      \* rsa->mont_n: 0 for NULL, else which context
          parts,     \* how many of the other components are computed
          frozen,    \* rsa->private_key_frozen
          blindings, \* rsa->blindings, num_blindings long
          inuse,     \* rsa->blindings_inuse
          rsaGen,    \* rsa->blinding_fork_generation
          gen,       \* CRYPTO_get_fork_ube_generation()
          bn,        \* the BN_BLINDING at each address
          th,        \* each thread's place and locals
          made,      \* contexts made so far, to name the next one
          bases,     \* random bases drawn so far, to name the next one
          spent      \* history: factors some operation, of any process, used

keyVars == <<mont, parts, frozen, made>>
cacheVars == <<blindings, inuse, rsaGen>>
factorVars == <<bn, bases, spent>>
vars == <<keyVars, cacheVars, factorVars, gen, th>>

\* The components freeze_private_key computes after mont_n, in its order:
\* d_fixed, mont_p, mont_q, the CRT values.
Parts == 4

Unset == <<0, 0>>
Factor == (1 .. MaxBase) \X (0 .. Counter - 1)
Freed == [live |-> FALSE, counter |-> 0, A |-> Unset, Ai |-> Unset]

\* BN_BLINDING_new: no values yet, and a counter that has the first update
\* create them.
BN_BLINDING_new ==
  [live |-> TRUE, counter |-> Counter - 1, A |-> Unset, Ai |-> Unset]

\* Places of a thread: "check" and "freeze" are the two regions of
\* freeze_private_key, "montCheck" and "montSet" those of
\* BN_MONT_CTX_set_locked; "public" uses mont_n without the lock.
Holding == {"convert", "invert", "release"}
UsesKey == Holding \cup {"get", "public"}
Pc == UsesKey \cup {"idle", "check", "freeze", "montCheck", "montSet"}
Idle == [pc |-> "idle", b |-> None, index |-> 0, used |-> Unset]

Goto(t, place) == th' = [th EXCEPT ![t].pc = place]
AllIdle == \A t \in Thread : th[t].pc = "idle"

Init ==
  /\ mont = 0 /\ parts = 0 /\ frozen = FALSE /\ made = 0
  /\ blindings = <<>> /\ inuse = <<>> /\ rsaGen = 0
  /\ bn = [b \in Blinding |-> Freed] /\ bases = 0 /\ spent = {}
  /\ gen = 1
  /\ th = [t \in Thread |-> Idle]

----------------------------------------------------------------------------
\* Freezing the key.

\* A caller starts a private or a public operation on the key.
Start(t) ==
  /\ th[t].pc = "idle"
  /\ \E place \in {"check", "montCheck"} : Goto(t, place)
  /\ UNCHANGED <<keyVars, cacheVars, factorVars, gen>>

\* freeze_private_key, the region under the read lock.
FreezeCheck(t) ==
  /\ th[t].pc = "check"
  /\ Goto(t, IF frozen THEN "get" ELSE "freeze")
  /\ UNCHANGED <<keyVars, cacheVars, factorVars, gen>>

\* BN_MONT_CTX_new_for_modulus, stored where the pointer was NULL.
NewMont ==
  /\ made < MaxMont
  /\ made' = made + 1 /\ mont' = made + 1

\* The components are computed in order; what an earlier failed attempt left
\* is kept.
ComputeParts ==
  \/ mont = 0 /\ NewMont
  \/ mont # 0 /\ UNCHANGED <<mont, made>>

\* Faulty variant: the flag is not read again under the write lock.
FreezeNoRecheck(t) ==
  /\ th[t].pc = "freeze"
  /\ NewMont
  /\ parts' = Parts /\ frozen' = TRUE
  /\ Goto(t, "get")
  /\ UNCHANGED <<cacheVars, factorVars, gen>>

\* freeze_private_key, the region under the write lock: the flag is read
\* again, and a failure leaves the key unfrozen with a prefix computed.
freeze_private_key(t) ==
  /\ th[t].pc = "freeze"
  /\ \/ /\ frozen
        /\ Goto(t, "get")
        /\ UNCHANGED keyVars
     \/ /\ ~ frozen
        /\ ComputeParts
        /\ parts' = Parts /\ frozen' = TRUE
        /\ Goto(t, "get")
     \/ /\ ~ frozen
        /\ ComputeParts
        /\ parts' \in parts .. Parts - 1
        /\ Goto(t, "idle")
        /\ UNCHANGED frozen
     \/ /\ ~ frozen /\ mont = 0
        /\ Goto(t, "idle")
        /\ UNCHANGED keyVars
  /\ UNCHANGED <<cacheVars, factorVars, gen>>

\* BN_MONT_CTX_set_locked on mont_n, the region under the read lock.
MontCheck(t) ==
  /\ th[t].pc = "montCheck"
  /\ Goto(t, IF mont # 0 THEN "public" ELSE "montSet")
  /\ UNCHANGED <<keyVars, cacheVars, factorVars, gen>>

\* BN_MONT_CTX_set_locked, the region under the write lock.
MontSet(t) ==
  /\ th[t].pc = "montSet"
  /\ \/ ComputeParts /\ Goto(t, "public")
     \/ mont = 0 /\ UNCHANGED <<mont, made>> /\ Goto(t, "idle")
  /\ UNCHANGED <<parts, frozen, cacheVars, factorVars, gen>>

\* The public operation reads through rsa->mont_n and returns.
PublicDone(t) ==
  /\ th[t].pc = "public"
  /\ Goto(t, "idle")
  /\ UNCHANGED <<keyVars, cacheVars, factorVars, gen>>

----------------------------------------------------------------------------
\* The cache of blindings.

\* Faulty variant: the fork does not reset the counters.
InvalidateNothing(r) == r

\* BN_BLINDING_invalidate: the next update creates new values.
BN_BLINDING_invalidate(r) == [r EXCEPT !.counter = Counter - 1]

\* The objects after a change of the fork generation was seen.
Wiped ==
  [b \in Blinding |->
     IF rsaGen # gen /\ \E i \in DOMAIN blindings : blindings[i] = b
     THEN BN_BLINDING_invalidate(bn[b]) ELSE bn[b]]

\* Faulty variant: the search gives the last slot when none is free.
LastIfNone(i) == ~ inuse[i] \/ i = Len(inuse)

\* The slot OPENSSL_memchr finds.
FirstFree(i) == ~ inuse[i] /\ \A j \in 1 .. i - 1 : inuse[j]

Take(t, b, i) ==
  th' = [th EXCEPT ![t] = [@ EXCEPT !.pc = "convert", !.b = b, !.index = i]]

\* rsa_blinding_get found a free slot.
GetCached(t) ==
  \E i \in DOMAIN inuse :
     /\ FirstFree(i)
     /\ inuse' = [inuse EXCEPT ![i] = TRUE]
     /\ Take(t, blindings[i], i)
     /\ bn' = Wiped
     /\ UNCHANGED blindings

AllInUse == \A i \in DOMAIN inuse : inuse[i]

\* The cache is full: an object of the thread's own, with an index one past
\* every slot.
GetUncached(t) ==
  /\ AllInUse /\ Len(blindings) >= MaxBlindings
  /\ \E b \in Blinding :
        /\ ~ bn[b].live
        /\ bn' = [Wiped EXCEPT ![b] = BN_BLINDING_new]
        /\ Take(t, b, MaxBlindings + 1)
  /\ UNCHANGED <<blindings, inuse>>

\* The next length of the cache.
Doubled == LET n == 2 * Len(blindings)
           IN  IF n = 0 THEN 1 ELSE IF n > MaxBlindings THEN MaxBlindings ELSE n

\* The cache doubles: both arrays are copied, the new slots are filled and
\* the first of them is taken.
GetGrown(t) ==
  LET n == Len(blindings)
  IN  /\ AllInUse /\ n < MaxBlindings
      /\ \E new \in [1 .. Doubled - n -> {b \in Blinding : ~ bn[b].live}] :
            /\ \A i, j \in DOMAIN new : new[i] = new[j] => i = j
            /\ blindings' = blindings \o new
            /\ bn' = [b \in Blinding |->
                        IF \E i \in DOMAIN new : new[i] = b
                        THEN BN_BLINDING_new ELSE Wiped[b]]
            /\ Take(t, new[1], n + 1)
      /\ inuse' = inuse \o [i \in 1 .. Doubled - n |-> i = 1]

\* An allocation failed: nothing is returned and what was made is freed.
GetFails(t) ==
  /\ AllInUse
  /\ bn' = Wiped
  /\ Goto(t, "idle")
  /\ UNCHANGED <<blindings, inuse>>

rsa_blinding_get(t) ==
  /\ th[t].pc = "get"
  /\ GetCached(t) \/ GetUncached(t) \/ GetGrown(t) \/ GetFails(t)
  /\ rsaGen' = gen
  /\ UNCHANGED <<keyVars, bases, spent, gen>>

\* Faulty variant: an object outside the cache is not freed.
ReleaseOnlyCached(t) ==
  /\ th[t].pc = "release"
  /\ \/ th[t].index = MaxBlindings + 1 /\ UNCHANGED inuse
     \/ /\ th[t].index # MaxBlindings + 1
        /\ inuse' = [inuse EXCEPT ![th[t].index] = FALSE]
  /\ th' = [th EXCEPT ![t] = Idle]
  /\ UNCHANGED <<keyVars, blindings, rsaGen, bn, bases, spent, gen>>

\* rsa_blinding_release: an object that is not in the cache is freed.
rsa_blinding_release(t) ==
  /\ th[t].pc = "release"
  /\ \/ /\ th[t].index = MaxBlindings + 1
        /\ bn' = [bn EXCEPT ![th[t].b] = Freed]
        /\ UNCHANGED inuse
     \/ /\ th[t].index # MaxBlindings + 1
        /\ inuse' = [inuse EXCEPT ![th[t].index] = FALSE]
        /\ UNCHANGED bn
  /\ th' = [th EXCEPT ![t] = Idle]
  /\ UNCHANGED <<keyVars, blindings, rsaGen, bases, spent, gen>>

----------------------------------------------------------------------------
\* The values of one blinding.

Squared(f) == <<f[1], f[2] + 1>>
Recreates(r) == r.counter + 1 = Counter

\* bn_blinding_create_param draws a base and sets both values.
CreateParam(b) ==
  /\ bases < MaxBase
  /\ bases' = bases + 1
  /\ bn' = [bn EXCEPT ![b].A = <<bases + 1, 0>>, ![b].Ai = <<bases + 1, 0>>,
                      ![b].counter = 0]

\* bn_blinding_update, when it succeeds.
UpdateOk(b) ==
  \/ Recreates(bn[b]) /\ CreateParam(b)
  \/ /\ ~ Recreates(bn[b])
     /\ bn' = [bn EXCEPT ![b].A = Squared(@), ![b].Ai = Squared(@),
                         ![b].counter = @ + 1]
     /\ UNCHANGED bases

\* Faulty variant: the counter moves on after a failure too.
KeepCounter(c) == IF c + 1 = Counter THEN 0 ELSE c + 1

\* bn_blinding_update, when an operation of it fails: either value may have
\* been changed, and the counter asks for new ones.
ResetCounter(c) == Counter - 1

UpdateFails(b) ==
  \E drawn \in BOOLEAN, set \in BOOLEAN :
     /\ drawn => Recreates(bn[b]) /\ bases < MaxBase
     /\ bases' = bases + (IF drawn THEN 1 ELSE 0)
     /\ bn' = [bn EXCEPT
          ![b].A = IF drawn THEN <<bases + 1, 0>>
                   ELSE IF set /\ ~ Recreates(bn[b]) THEN Squared(@) ELSE @,
          ![b].Ai = IF drawn /\ set THEN <<bases + 1, 0>> ELSE @,
          ![b].counter = ResetCounter(@)]

\* BN_BLINDING_convert: update, then multiply by A; the multiplication may
\* fail after the update succeeded.
BN_BLINDING_convert(t) ==
  LET b == th[t].b
  IN  /\ th[t].pc = "convert"
      /\ \/ /\ UpdateOk(b)
            /\ th' = [th EXCEPT ![t] = [@ EXCEPT !.pc = "invert",
                                                 !.used = bn'[b].A]]
            /\ spent' = spent \cup {bn'[b].A}
         \/ /\ UpdateOk(b) \/ UpdateFails(b)
            /\ Goto(t, "release")
            /\ UNCHANGED spent
      /\ UNCHANGED <<keyVars, cacheVars, gen>>

\* The exponentiation, the check of its result and BN_BLINDING_invert, which
\* reads Ai only now; any of them may fail, and the release follows anyway.
BN_BLINDING_invert(t) ==
  /\ th[t].pc = "invert"
  /\ Goto(t, "release")
  /\ UNCHANGED <<keyVars, cacheVars, factorVars, gen>>

----------------------------------------------------------------------------
\* fork, seen by the child.  Threads inside the library while another forks
\* may not use it in the child, so all are idle.  The parent goes on with the
\* same cached values: every factor they lead to counts as used.
Fork ==
  /\ AllIdle /\ gen < MaxGen
  /\ gen' = gen + 1
  /\ spent' = spent \cup {f \in Factor : \E b \in Blinding : f[1] = bn[b].A[1]}
  /\ UNCHANGED <<keyVars, cacheVars, bn, bases, th>>

\* rsa_invalidate_key, by a setter or the last RSA_free: the caller is the
\* only user of the key.
rsa_invalidate_key ==
  /\ AllIdle
  /\ mont' = 0 /\ parts' = 0 /\ frozen' = FALSE
  /\ blindings' = <<>> /\ inuse' = <<>> /\ rsaGen' = 0
  /\ bn' = [b \in Blinding |->
              IF \E i \in DOMAIN blindings : blindings[i] = b THEN Freed ELSE bn[b]]
  /\ UNCHANGED <<made, bases, spent, gen, th>>

Step(t) ==
  \/ FreezeCheck(t) \/ freeze_private_key(t)
  \/ MontCheck(t) \/ MontSet(t) \/ PublicDone(t)
  \/ rsa_blinding_get(t) \/ BN_BLINDING_convert(t)
  \/ BN_BLINDING_invert(t) \/ rsa_blinding_release(t)

Next == (\E t \in Thread : Start(t) \/ Step(t)) \/ Fork \/ rsa_invalidate_key

Spec == Init /\ [][Next]_vars

----------------------------------------------------------------------------
\* Properties.

\* Values have their types; in particular bn_blinding_update replaces a base
\* before it was squared BN_BLINDING_COUNTER times.
TypeOK ==
  /\ mont \in 0 .. made /\ made \in 0 .. MaxMont
  /\ parts \in 0 .. Parts /\ frozen \in BOOLEAN
  /\ blindings \in Seq(Blinding) /\ Len(blindings) <= MaxBlindings
  /\ inuse \in Seq(BOOLEAN) /\ Len(inuse) = Len(blindings)
  /\ gen \in 1 .. MaxGen /\ rsaGen \in 0 .. gen
  /\ bases \in 0 .. MaxBase /\ spent \subseteq Factor
  /\ bn \in [Blinding -> [live : BOOLEAN, counter : 0 .. Counter - 1,
                          A : Factor \cup {Unset}, Ai : Factor \cup {Unset}]]
  /\ th \in [Thread -> [pc : Pc, b : Blinding \cup {None},
                        index : 0 .. MaxBlindings + 1, used : Factor \cup {Unset}]]

\* No two operations work with the same BN_BLINDING at once: the object is
\* used between rsa_blinding_get and rsa_blinding_release without the lock.
Exclusive ==
  \A s, t \in Thread : s # t /\ th[s].pc \in Holding /\ th[t].pc \in Holding
                         => th[s].b # th[t].b

\* The slots marked in use are exactly those an operation holds, so that the
\* assertion in rsa_blinding_get after a fork holds and no slot is lost; an
\* object outside the cache is alive exactly while its operation runs.
CacheExact ==
  /\ TypeOK
  /\ \A i \in DOMAIN inuse :
        inuse[i] <=> \E t \in Thread : th[t].pc \in Holding /\ th[t].index = i
  /\ \A b \in Blinding :
        bn[b].live <=> \/ \E i \in DOMAIN blindings : blindings[i] = b
                       \/ \E t \in Thread : /\ th[t].pc \in Holding
                                            /\ th[t].index = MaxBlindings + 1
                                            /\ th[t].b = b

\* Whenever an operation unblinds, Ai still undoes the factor it blinded
\* with, whatever other operations, failed updates and growths of the cache
\* happened in between.
Unblinds ==
  \A t \in Thread : th[t].pc = "invert" => bn[th[t].b].Ai = th[t].used

\* No factor blinds two operations, neither of one process nor of a parent
\* and its child after a fork.
NoFactorReused ==
  [][\A t \in Thread : th[t].pc = "convert" /\ th'[t].pc = "invert"
                         => th'[t].used \notin spent]_vars

\* While an operation uses the key without the lock, the components it reads
\* are complete and are not written again.
KeyStable ==
  [][\A t \in Thread :
       th[t].pc \in UsesKey /\ th'[t].pc \in UsesKey =>
         /\ mont # 0 /\ mont' = mont
         /\ th[t].pc # "public" => frozen /\ parts = Parts /\ parts' = parts]_vars
=============================================================================
