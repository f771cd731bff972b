------------------------------ MODULE RandProofs ------------------------------
(***************************************************************************)
(* Proofs about Rand for any threads and keys, any number of chunks, any   *)
(* reseed interval (2^12 generate calls in the code) and any number of     *)
(* uniqueness-breaking events.                                             *)
(***************************************************************************)
EXTENDS Rand, FiniteSetTheorems, TLAPS

-------------------------------------------------------------------------------
(* The parts of the invariant.                                             *)

InCall == {"unique", "pred", "lock", "loop", "seed", "relock", "valid"}
Drawing == {"pred", "lock", "loop", "seed", "relock", "valid"}
Using == {"loop", "valid"}
Ended == {"exit", "gone"}
Clearing == {"clear", "zeroize"}
Seeding == {"init_seed", "init_drbg"}

\* A call that is not done has chunks to generate.
Counted == \A t \in Threads : pc[t] \in Initialising \cup (InCall \ {"valid"}) => left[t] > 0

\* Who works on a state: its thread initialises it, then registers it, then uses it, and
\* frees it once at most.
Owned ==
  /\ \A t \in Threads :
       /\ pc[t] \in Initialising => stage[State(t)] = "unlisted"
       /\ pc[t] \in InCall => stage[State(t)] \in {"listed", "late"}
  /\ \A t \in Threads, k \in Keys :
       /\ stage[<<t, k>>] = "unlisted" => pc[t] \in Ended \/ (pc[t] \in Initialising /\ key[t] = k)
       /\ stage[<<t, k>>] = "freed" => pc[t] \in Ended
       /\ pc[t] = "exit" /\ k \in todo[t] => stage[<<t, k>>] \notin {"none", "freed"}
  /\ \A n \in Nodes : stage[n] \in {"none", "unlisted"} => next[n] = Null /\ previous[n] = Null

\* state_clear_lock: the thread of a registered state reads, in a child of fork a thread
\* that is gone too; writers come with shutdown and exclude readers.
ClearLock ==
  /\ \A t \in Threads : pc[t] \in Using => reading[State(t)]
  /\ \A t \in Threads, k \in Keys :
       reading[<<t, k>>] => pc[t] = "gone" \/ (pc[t] \in Using /\ key[t] = k)
  /\ \A n \in Nodes :
       /\ reading[n] => stage[n] = "listed" /\ writer[n] = NoThread
       /\ writer[n] # NoThread => shutdown /\ stage[n] \in {"listed", "late"}
       /\ stage[n] = "late" => writer[n] # NoThread

\* thread_local_states_list_lock: held by the thread that clears, or by one that did when
\* the process forked.
ListLock ==
  /\ \A t \in Threads :
       /\ pc[t] \in Clearing => listLock = t
       /\ pos[t] # Null => shutdown /\ stage[pos[t]] = "listed"
  /\ listLock # NoThread => shutdown /\ pc[listLock] \in Clearing \cup {"gone"}

\* What the two loops have not done is not before their position.
Swept(order) ==
  \A t \in Threads, n \in Listed :
    (pc[t] = "clear" /\ writer[n] = NoThread) \/ (pc[t] = "zeroize" /\ source[n] # "zeroized")
      => pos[t] # Null /\ order[pos[t]] <= order[n]

Chained == \E order \in [Listed -> 1..Cardinality(Listed)] : InOrder(order) /\ Swept(order)

\* Locking a state for writing comes before zeroising its source, and zeroises its DRBG.
Wiped ==
  /\ \A n \in Nodes :
       /\ stage[n] = "listed" /\ writer[n] # NoThread => drbg[n] = 0
       /\ source[n] = "zeroized" => writer[n] # NoThread
       /\ stage[n] \in {"listed", "late"} => source[n] # "none"
  /\ \A t \in Threads : pc[t] \in Seeding \cup {"add"} => source[State(t)] # "none"
  /\ \A t \in Threads, n \in Listed : pc[t] = "zeroize" => writer[n] # NoThread
  /\ Cleared => \A n \in Listed : writer[n] # NoThread /\ source[n] = "zeroized"

\* The era that the output of t must reach: the one of the generation number of its
\* state, or without UBE detection the one in which the call began.
Floor(t) == IF available THEN gn[State(t)] + 1 ELSE begun[t]

\* Numbers are not ahead of the eras.
Past == /\ \A n \in Nodes : gn[n] + 1 <= era
        /\ \A t \in Threads : begun[t] <= era

\* What a call has at hand reaches its floor, unless the state was locked for ever.
RecentOf(t) ==
  /\ must[t] => pc[t] = "gone" \/ (pc[t] \in Drawing /\ pc[t] # "valid")
  /\ pc[t] \in Initialising \cup {"unique"} => out[t] = MaxEras
  /\ pc[t] \in Drawing => Floor(t) <= out[t]
  /\ pc[t] \in Seeding => Floor(t) <= seed[t]
  /\ pc[t] = "add" => Floor(t) <= drbg[State(t)]
  /\ pc[t] = "relock" => Floor(t) <= seed[t] \/ writer[State(t)] # NoThread
  /\ ~available /\ ((pc[t] = "unique" /\ fresh[t]) \/ (pc[t] \in Drawing /\ ~must[t]))
       => begun[t] <= drbg[State(t)] \/ writer[State(t)] # NoThread

Recent == \A t \in Threads : RecentOf(t)

\* Also between calls a registered state is as young as its generation number, unless it
\* must be reseeded or was locked for ever.
Young ==
  available => \A t \in Threads, k \in Keys :
    stage[<<t, k>>] = "listed" /\ pc[t] \notin Ended /\ ~(must[t] /\ key[t] = k)
      => gn[<<t, k>>] + 1 <= drbg[<<t, k>>] \/ writer[<<t, k>>] # NoThread

IInv == /\ TypeOK /\ Counted /\ Owned /\ ClearLock /\ ListLock /\ Chained /\ Wiped
        /\ Past /\ Recent /\ Young

-------------------------------------------------------------------------------
\* There are finitely many states.
LEMMA NodesFinite == IsFiniteSet(Nodes)
BY RandAssumption, FS_Product DEF Nodes

\* A thread works on a state of its own.
LEMMA StateInNodes ==
  ASSUME TypeOK
  PROVE  /\ \A t \in Threads : State(t) \in Nodes
         /\ \A t \in Threads, k \in Keys : <<t, k>> \in Nodes
         /\ \A t, u \in Threads, k \in Keys : <<t, k>> = State(u) => t = u /\ k = key[u]
         /\ \A t, u \in Threads : \A k, l \in Keys : <<t, k>> = <<u, l>> => t = u /\ k = l
         /\ \A n \in Nodes : \E t \in Threads, k \in Keys : n = <<t, k>>
BY DEF TypeOK, State, Nodes

\* Eras are numbers.
LEMMA Numbers ==
  ASSUME TypeOK
  PROVE  /\ era \in Nat /\ MaxEras \in Nat /\ era <= MaxEras /\ era >= 1
         /\ \A n \in Nodes : drbg[n] \in Nat /\ gn[n] \in Nat
         /\ \A t \in Threads : /\ seed[t] \in Nat /\ pr[t] \in Nat /\ out[t] \in Nat
                               /\ begun[t] \in Nat /\ left[t] \in Nat
BY RandAssumption DEF TypeOK

\* One thread goes to another place.
Moved(t, place) == pc'[t] = place /\ \A u \in Threads \ {t} : pc'[u] = pc[u]

\* Goto moves one thread.
LEMMA GotoMoves ==
  ASSUME TypeOK, NEW t \in Threads, NEW place \in PCs, Goto(t, place)
  PROVE  Moved(t, place) /\ pc' \in [Threads -> PCs]
BY DEF TypeOK, Goto, Moved

\* g is f but for its value v at x.
Updated(f, g, D, x, v) == g[x] = v /\ \A y \in D \ {x} : g[y] = f[y]

\* A step that leaves the list alone and undoes nothing of what the loops have done.
LEMMA ChainKept ==
  ASSUME Chained, UNCHANGED <<head, next, previous>>,
         \A n \in Nodes : stage[n] = "listed" <=> stage'[n] = "listed",
         \A n \in Nodes : /\ writer'[n] = NoThread => writer[n] = NoThread
                          /\ source[n] = "zeroized" => stage[n] # "listed" \/ source'[n] = "zeroized",
         \A u \in Threads : pc'[u] \in Clearing => pc'[u] = pc[u] /\ pos'[u] = pos[u]
  PROVE  Chained'
<1>1. Listed' = Listed
  BY DEF Listed
<1>2. PICK order \in [Listed -> 1..Cardinality(Listed)] : InOrder(order) /\ Swept(order)
  BY DEF Chained
<1>3. InOrder(order)'
  BY <1>1, <1>2 DEF InOrder
<1>4. Swept(order)'
  BY <1>2 DEF Swept, Clearing, Listed
<1>5. order \in [Listed -> 1..Cardinality(Listed)]'
  BY <1>1
<1> QED
  BY <1>3, <1>4, <1>5 DEF Chained

\* head and the links lead to registered states.
LEMMA LinksListed ==
  ASSUME Chained
  PROVE  /\ head # Null => head \in Nodes /\ stage[head] = "listed"
         /\ \A n \in Nodes : stage[n] = "listed" /\ next[n] # Null
                             => next[n] \in Nodes /\ stage[next[n]] = "listed"
BY DEF Chained, InOrder, Listed

\* A loop that is at the end of the list has done all of it.
LEMMA LoopDone ==
  ASSUME Chained, NEW t \in Threads, pos[t] = Null
  PROVE  \A n \in Listed : /\ pc[t] = "clear" => writer[n] # NoThread
                           /\ pc[t] = "zeroize" => source[n] = "zeroized"
BY DEF Chained, Swept

\* A loop starts at the head of the list.
LEMMA LoopStarts ==
  ASSUME Chained, NEW t \in Threads, UNCHANGED <<head, next, previous, stage, writer, source>>,
         \A u \in Threads \ {t} : pc'[u] \notin Clearing,
         pos'[t] = head
  PROVE  Chained'
<1>1. Listed' = Listed
  BY DEF Listed
<1>2. PICK order \in [Listed -> 1..Cardinality(Listed)] : InOrder(order) /\ Swept(order)
  BY DEF Chained
<1>3. InOrder(order)'
  BY <1>1, <1>2 DEF InOrder
<1>4. ASSUME NEW n \in Listed PROVE head # Null /\ order[head] <= order[n]
  <2>1. order[n] \in 1..Cardinality(Listed) /\ head \in Listed /\ order[head] = 1
    BY <1>2 DEF InOrder
  <2> QED
    BY <2>1, RandAssumption DEF Listed
<1>5. Swept(order)'
  BY <1>1, <1>4 DEF Swept, Clearing
<1>6. order \in [Listed -> 1..Cardinality(Listed)]'
  BY <1>1
<1> QED
  BY <1>3, <1>5, <1>6 DEF Chained

\* A loop goes on to the next state when it is done with one.
LEMMA LoopGoesOn ==
  ASSUME Chained, NEW t \in Threads, pos[t] # Null, stage[pos[t]] = "listed", pos[t] \in Nodes,
         UNCHANGED <<head, next, previous, stage, pc>>,
         pos'[t] = next[pos[t]],
         \A u \in Threads \ {t} : pc[u] \notin Clearing,
         \A n \in Nodes : /\ writer'[n] = NoThread => writer[n] = NoThread
                          /\ source[n] = "zeroized" => source'[n] = "zeroized",
         pc[t] = "clear" => writer'[pos[t]] # NoThread,
         pc[t] = "zeroize" => source'[pos[t]] = "zeroized"
  PROVE  Chained'
<1>1. Listed' = Listed /\ pos[t] \in Listed
  BY DEF Listed
<1>2. PICK order \in [Listed -> 1..Cardinality(Listed)] : InOrder(order) /\ Swept(order)
  BY DEF Chained
<1>3. InOrder(order)'
  BY <1>1, <1>2 DEF InOrder
<1>4. ASSUME NEW n \in Listed, order[pos[t]] <= order[n], n # pos[t]
      PROVE  next[pos[t]] # Null /\ order[next[pos[t]]] <= order[n]
  <2>1. order[n] # order[pos[t]]
    BY <1>1, <1>2, <1>4 DEF InOrder
  <2>2. order[n] \in 1..Cardinality(Listed) /\ order[pos[t]] \in 1..Cardinality(Listed)
    BY <1>1
  <2>3. IsFiniteSet(Listed) /\ Cardinality(Listed) \in Nat
    BY NodesFinite, FS_Subset, FS_CardinalityType DEF Listed
  <2>4. order[pos[t]] < order[n] /\ order[n] <= Cardinality(Listed)
    BY <1>4, <2>1, <2>2
  <2>5. next[pos[t]] \in Listed /\ order[next[pos[t]]] = order[pos[t]] + 1
    BY <1>1, <1>2, <2>4 DEF InOrder
  <2> QED
    BY <2>4, <2>5, RandAssumption DEF Listed
<1>5. Swept(order)'
  <2> SUFFICES ASSUME NEW u \in Threads, NEW n \in Listed,
                      \/ pc[u] = "clear" /\ writer'[n] = NoThread
                      \/ pc[u] = "zeroize" /\ source'[n] # "zeroized"
               PROVE  pos'[u] # Null /\ order[pos'[u]] <= order[n]
    BY <1>1 DEF Swept
  <2>1. u = t /\ n \in Nodes
    BY DEF Clearing, Listed
  <2>2. n # pos[t]
    BY <2>1
  <2>3. order[pos[t]] <= order[n]
    BY <1>2, <2>1 DEF Swept
  <2> QED
    BY <1>4, <2>1, <2>3
<1>6. order \in [Listed -> 1..Cardinality(Listed)]'
  BY <1>1
<1> QED
  BY <1>3, <1>5, <1>6 DEF Chained

\* A step that leaves t, its state and its locals alone; its state may get locked for
\* ever.
LEMMA RecentKept ==
  ASSUME NEW t \in Threads, RecentOf(t), TypeOK,
         available' = available, pc'[t] = pc[t], key'[t] = key[t],
         must'[t] = must[t], fresh'[t] = fresh[t], seed'[t] = seed[t],
         out'[t] = out[t], begun'[t] = begun[t], gn'[State(t)] = gn[State(t)],
         writer'[State(t)] = NoThread => writer[State(t)] = NoThread,
         \/ drbg'[State(t)] = drbg[State(t)]
         \/ pc[t] # "add" /\ writer'[State(t)] # NoThread
  PROVE  RecentOf(t)'
<1>1. State(t)' = State(t) /\ Floor(t)' = Floor(t)
  BY DEF State, Floor
<1> QED
  BY <1>1 DEF RecentOf

\* The list without loops.
LEMMA ChainIntro ==
  ASSUME NEW order \in [Listed' -> 1..Cardinality(Listed')], InOrder(order)',
         \A u \in Threads : pc'[u] \notin Clearing
  PROVE  Chained'
BY DEF Chained, Swept, Clearing

\* The new head of the list: the others move back by one.
LEMMA ChainGrows ==
  ASSUME TypeOK, Chained, NEW n \in Nodes, stage[n] # "listed",
         \A u \in Threads : pc'[u] \notin Clearing,
         stage' = [stage EXCEPT ![n] = "listed"],
         next' = [next EXCEPT ![n] = head],
         previous' = [m \in Nodes |-> IF m = n THEN Null ELSE IF m = head THEN n ELSE previous[m]],
         head' = n
  PROVE  Chained'
<1>1. PICK order \in [Listed -> 1..Cardinality(Listed)] : InOrder(order)
  BY DEF Chained
<1>2. IsFiniteSet(Listed) /\ Cardinality(Listed) \in Nat
  BY NodesFinite, FS_Subset, FS_CardinalityType DEF Listed
<1>3. n \notin Listed /\ Listed' = Listed \cup {n}
  BY DEF Listed, TypeOK
<1>4. Cardinality(Listed') = Cardinality(Listed) + 1
  BY <1>2, <1>3, FS_AddElement
<1>5. PICK new \in [Listed' -> Nat] : new[n] = 1 /\ \A m \in Listed : new[m] = order[m] + 1
  <2> DEFINE f == [m \in Listed' |-> IF m = n THEN 1 ELSE order[m] + 1]
  <2>1. f \in [Listed' -> Nat]
    BY <1>3
  <2>2. f[n] = 1 /\ \A m \in Listed : f[m] = order[m] + 1
    BY <1>3
  <2> QED
    BY <2>1, <2>2
<1>6. new \in [Listed' -> 1..Cardinality(Listed')]
  BY <1>2, <1>3, <1>4, <1>5
<1>7. /\ next'[n] = head /\ \A m \in Listed : next'[m] = next[m]
      /\ previous'[n] = Null
      /\ \A m \in Listed : previous'[m] = IF m = head THEN n ELSE previous[m]
  BY DEF TypeOK, Listed
<1>8. \A l, m \in Listed' : new[l] = new[m] => l = m
  BY <1>1, <1>3, <1>5 DEF InOrder
<1>9. Listed' # {} /\ head' \in Listed' /\ new[head'] = 1
  BY <1>3, <1>5
<1>10. ASSUME NEW m \in Listed'
       PROVE  /\ new[m] = Cardinality(Listed') => next'[m] = Null
              /\ new[m] # Cardinality(Listed')
                   => next'[m] \in Listed' /\ new[next'[m]] = new[m] + 1
              /\ new[m] = 1 => previous'[m] = Null
              /\ new[m] # 1 => previous'[m] \in Listed' /\ next'[previous'[m]] = m
  <2>1. CASE m = n
    <3>1. CASE Listed = {}
      <4>1. head = Null /\ Cardinality(Listed) = 0
        BY <1>1, <3>1, FS_EmptySet DEF InOrder
      <4> QED
        BY <2>1, <4>1, <1>4, <1>5, <1>7
    <3>2. CASE Listed # {}
      <4>1. head \in Listed /\ order[head] = 1
        BY <1>1, <3>2 DEF InOrder
      <4> QED
        BY <2>1, <4>1, <1>2, <1>3, <1>4, <1>5, <1>7
    <3> QED
      BY <3>1, <3>2
  <2>2. CASE m \in Listed
    <3>1. /\ order[m] = Cardinality(Listed) => next[m] = Null
          /\ order[m] # Cardinality(Listed) => next[m] \in Listed /\ order[next[m]] = order[m] + 1
          /\ order[m] = 1 => previous[m] = Null
          /\ order[m] # 1 => previous[m] \in Listed /\ next[previous[m]] = m
      BY <1>1, <2>2 DEF InOrder
    <3>2. /\ new[m] = Cardinality(Listed') <=> order[m] = Cardinality(Listed)
          /\ new[m] # 1
          /\ order[m] \in Nat
      BY <1>2, <1>4, <1>5, <2>2
    <3>3. m = head <=> order[m] = 1
      BY <1>1, <2>2 DEF InOrder
    <3>4. /\ new[m] = Cardinality(Listed') => next'[m] = Null
          /\ new[m] # Cardinality(Listed') => next'[m] \in Listed' /\ new[next'[m]] = new[m] + 1
      BY <1>3, <1>5, <3>1, <3>2
    <3>5. previous'[m] \in Listed' /\ next'[previous'[m]] = m
      BY <1>3, <1>7, <2>2, <3>1, <3>3
    <3> QED
      BY <3>2, <3>4, <3>5
  <2> QED
    BY <1>3, <2>1, <2>2
<1>11. InOrder(new)'
  BY <1>8, <1>9, <1>10 DEF InOrder
<1> QED
  BY <1>6, <1>11, ChainIntro

\* A state leaves the list: those behind it move up by one.
LEMMA ChainShrinks ==
  ASSUME TypeOK, Chained, NEW n \in Nodes, stage[n] = "listed",
         \A u \in Threads : pc'[u] \notin Clearing,
         Unlink(n), stage' = [stage EXCEPT ![n] = "freed"]
  PROVE  Chained'
<1>1. PICK order \in [Listed -> 1..Cardinality(Listed)] : InOrder(order)
  BY DEF Chained
<1>2. IsFiniteSet(Listed) /\ Cardinality(Listed) \in Nat
  BY NodesFinite, FS_Subset, FS_CardinalityType DEF Listed
<1>3. n \in Listed /\ Listed' = Listed \ {n}
  BY DEF Listed, TypeOK
<1>4. Cardinality(Listed') = Cardinality(Listed) - 1
  BY <1>2, <1>3, FS_RemoveElement
<1>5. PICK new \in [Listed' -> Nat] :
        \A m \in Listed' : /\ order[m] # order[n]
                           /\ new[m] = IF order[m] > order[n] THEN order[m] - 1 ELSE order[m]
  <2> DEFINE f == [m \in Listed' |-> IF order[m] > order[n] THEN order[m] - 1 ELSE order[m]]
  <2>1. f \in [Listed' -> Nat]
    BY <1>3
  <2>2. \A m \in Listed' : f[m] = IF order[m] > order[n] THEN order[m] - 1 ELSE order[m]
    OBVIOUS
  <2>3. \A m \in Listed' : order[m] # order[n]
    BY <1>1, <1>3 DEF InOrder
  <2> QED
    BY <2>1, <2>3
<1>6. new \in [Listed' -> 1..Cardinality(Listed')]
  BY <1>2, <1>3, <1>4, <1>5
<1>7. /\ head' = IF head = n THEN next[n] ELSE head
      /\ \A m \in Listed : next'[m] = IF m = previous[n] /\ head # n THEN next[n] ELSE next[m]
      /\ \A m \in Listed : previous'[m] = IF m = next[n] THEN previous[n] ELSE previous[m]
  BY DEF Unlink, Listed
<1>8. ASSUME NEW m \in Listed
      PROVE  /\ order[m] = Cardinality(Listed) => next[m] = Null
             /\ order[m] # Cardinality(Listed) => next[m] \in Listed /\ order[next[m]] = order[m] + 1
             /\ order[m] = 1 => previous[m] = Null
             /\ order[m] # 1 => previous[m] \in Listed /\ next[previous[m]] = m
             /\ m = head <=> order[m] = 1
  BY <1>1 DEF InOrder
<1>9. Null \notin Listed
  BY RandAssumption DEF Listed
<1>10. \A m \in Listed : order[m] # 1 => order[m] = order[previous[m]] + 1
  BY <1>8, <1>9
<1>11. \A m \in Listed' : /\ m = next[n] <=> order[m] = order[n] + 1
                          /\ m = previous[n] <=> order[m] = order[n] - 1
  <2> SUFFICES ASSUME NEW m \in Listed'
               PROVE  /\ m = next[n] <=> order[m] = order[n] + 1
                      /\ m = previous[n] <=> order[m] = order[n] - 1
    OBVIOUS
  <2>1. m \in Listed /\ order[m] \in Nat /\ order[n] \in Nat /\ 1 <= order[m] /\ order[m] <= Cardinality(Listed)
        /\ 1 <= order[n]
    BY <1>3
  <2>2. m = next[n] => order[m] = order[n] + 1
    BY <1>3, <1>8, <1>9
  <2>3. order[m] = order[n] + 1 => m = next[n]
    <3> SUFFICES ASSUME order[m] = order[n] + 1 PROVE m = next[n]
      OBVIOUS
    <3>1. next[n] \in Listed /\ order[next[n]] = order[m]
      BY <1>3, <1>8
    <3> QED
      BY <1>1, <2>1, <3>1 DEF InOrder
  <2>4. m = previous[n] => order[m] = order[n] - 1
    BY <1>3, <1>8, <1>9
  <2>5. order[m] = order[n] - 1 => m = previous[n]
    <3> SUFFICES ASSUME order[m] = order[n] - 1 PROVE m = previous[n]
      OBVIOUS
    <3>1. previous[n] \in Listed /\ order[n] = order[previous[n]] + 1
      BY <1>3, <1>8, <1>10
    <3>2. order[previous[n]] = order[m]
      BY <3>1
    <3> QED
      BY <1>1, <2>1, <3>1 DEF InOrder
  <2> QED
    BY <2>2, <2>3, <2>4, <2>5
<1>12. \A l, m \in Listed' : new[l] = new[m] => l = m
  <2> SUFFICES ASSUME NEW l \in Listed', NEW m \in Listed', new[l] = new[m] PROVE l = m
    OBVIOUS
  <2>1. order[l] \in Nat /\ order[m] \in Nat /\ order[n] \in Nat
    BY <1>3
  <2>2. order[l] = order[m]
    BY <1>5, <2>1
  <2> QED
    BY <1>1, <1>3, <2>2 DEF InOrder
<1>13. IF Listed' = {} THEN head' = Null ELSE head' \in Listed' /\ new[head'] = 1
  <2>1. /\ head \in Listed /\ order[head] = 1 /\ order[n] \in Nat /\ 1 <= order[n]
        /\ order[n] <= Cardinality(Listed)
    BY <1>1, <1>3 DEF InOrder
  <2>2. CASE head = n
    <3>1. CASE Cardinality(Listed) = 1
      <4>1. Listed' = {}
        BY <1>2, <1>3, <3>1, FS_RemoveElement, FS_EmptySet
      <4> QED
        BY <1>7, <1>8, <2>1, <2>2, <3>1, <4>1
    <3>2. CASE Cardinality(Listed) # 1
      <4>1. next[n] \in Listed /\ order[next[n]] = 2
        BY <1>8, <2>1, <2>2, <3>2
      <4>2. next[n] \in Listed'
        BY <1>3, <2>1, <2>2, <4>1
      <4> QED
        BY <1>5, <1>7, <2>1, <2>2, <4>1, <4>2
    <3> QED
      BY <3>1, <3>2
  <2>3. CASE head # n
    <3>1. head' = head /\ head \in Listed'
      BY <1>3, <1>7, <2>1, <2>3
    <3> QED
      BY <1>5, <2>1, <3>1
  <2> QED
    BY <2>2, <2>3
<1>14. ASSUME NEW m \in Listed'
       PROVE  /\ new[m] = Cardinality(Listed') => next'[m] = Null
              /\ new[m] # Cardinality(Listed')
                   => next'[m] \in Listed' /\ new[next'[m]] = new[m] + 1
              /\ new[m] = 1 => previous'[m] = Null
              /\ new[m] # 1 => previous'[m] \in Listed' /\ next'[previous'[m]] = m
  <2>1. /\ m \in Listed /\ m # n /\ order[m] # order[n]
        /\ order[m] \in Nat /\ 1 <= order[m] /\ order[m] <= Cardinality(Listed)
        /\ order[n] \in Nat /\ 1 <= order[n] /\ order[n] <= Cardinality(Listed)
    BY <1>3, <1>5
  <2>2. new[m] = IF order[m] > order[n] THEN order[m] - 1 ELSE order[m]
    BY <1>5
  <2>3. new[m] = Cardinality(Listed') => next'[m] = Null
    BY <1>2, <1>3, <1>4, <1>7, <1>8, <1>11, <2>1, <2>2
  <2>4. ASSUME new[m] # Cardinality(Listed')
        PROVE  next'[m] \in Listed' /\ new[next'[m]] = new[m] + 1
    <3>1. CASE order[m] = order[n] - 1
      <4>1. next'[m] = next[n]
        BY <1>3, <1>7, <1>8, <1>11, <3>1
      <4>2. order[n] # Cardinality(Listed)
        BY <1>4, <2>1, <2>2, <2>4, <3>1
      <4>3. next[n] \in Listed /\ order[next[n]] = order[n] + 1
        BY <1>3, <1>8, <4>2
      <4>4. next[n] \in Listed'
        BY <1>3, <4>3
      <4> QED
        BY <1>5, <2>1, <3>1, <4>1, <4>3, <4>4
    <3>2. CASE order[m] # order[n] - 1
      <4>1. next'[m] = next[m]
        BY <1>7, <1>11, <2>1, <3>2
      <4>2. order[m] # Cardinality(Listed)
        BY <1>4, <2>1, <2>2, <2>4
      <4>3. next[m] \in Listed /\ order[next[m]] = order[m] + 1
        BY <1>8, <2>1, <4>2
      <4>4. next[m] \in Listed'
        BY <1>3, <3>2, <4>3
      <4> QED
        BY <1>5, <2>1, <4>1, <4>3, <4>4
    <3> QED
      BY <3>1, <3>2
  <2>5. ASSUME new[m] = 1 PROVE previous'[m] = Null
    <3>1. CASE order[m] = 1
      BY <1>7, <1>8, <1>11, <2>1, <3>1
    <3>2. CASE order[m] # 1
      <4>1. order[n] = 1 /\ order[m] = order[n] + 1
        BY <2>1, <2>2, <2>5, <3>2
      <4> QED
        BY <1>3, <1>7, <1>8, <1>11, <4>1
    <3> QED
      BY <3>1, <3>2
  <2>6. ASSUME new[m] # 1 PROVE previous'[m] \in Listed' /\ next'[previous'[m]] = m
    <3>1. CASE order[m] = order[n] + 1
      <4>1. previous'[m] = previous[n] /\ m = next[n]
        BY <1>7, <1>11, <2>1, <3>1
      <4>2. order[n] # 1 /\ head # n
        BY <1>3, <1>8, <2>2, <2>6, <3>1
      <4>3. previous[n] \in Listed /\ order[previous[n]] # order[n]
        BY <1>3, <1>8, <1>10, <4>2
      <4>4. previous[n] \in Listed'
        BY <1>3, <4>3
      <4> QED
        BY <1>7, <4>1, <4>2, <4>3, <4>4
    <3>2. CASE order[m] # order[n] + 1
      <4>1. previous'[m] = previous[m]
        BY <1>7, <1>11, <2>1, <3>2
      <4>2. order[m] # 1
        BY <2>1, <2>2, <2>6
      <4>3. previous[m] \in Listed /\ next[previous[m]] = m /\ order[m] = order[previous[m]] + 1
        BY <1>8, <1>10, <2>1, <4>2
      <4>4. previous[m] \in Listed'
        BY <1>3, <3>2, <4>3
      <4>5. order[previous[m]] # order[n] - 1
        BY <2>1, <4>3
      <4> QED
        BY <1>7, <1>11, <4>1, <4>3, <4>4, <4>5
    <3> QED
      BY <3>1, <3>2
  <2> QED
    BY <2>3, <2>4, <2>5, <2>6
<1>15. InOrder(new)'
  BY <1>12, <1>13, <1>14 DEF InOrder
<1> QED
  BY <1>6, <1>15, ChainIntro

\* The generation number of a new state.
LEMMA InitGnKeeps ==
  ASSUME IInv, NEW t \in Threads, InitGn(t) PROVE IInv'
<1>1. Moved(t, "init_source") /\ pc' \in [Threads -> PCs]
  BY GotoMoves DEF InitGn, PCs, IInv
<1>2. pc[t] = "init_gn"
      /\ UNCHANGED <<era, available, aborted, head, next, previous, stage, listLock, shutdown,
                     writer, reading, drbg, calls, source, key, fresh, must, seed, pr, left, out,
                     begun, pos, todo>>
  BY DEF InitGn, env, list, locks, locals, exits
<1>3. stage[State(t)] = "unlisted"
  BY <1>2 DEF IInv, Owned, Initialising
<1>4. /\ gn' \in [Nodes -> 0..MaxEras]
      /\ Updated(gn, gn', Nodes, State(t), IF available THEN UbeNumber ELSE 0)
  BY RandAssumption, StateInNodes DEF InitGn, IInv, TypeOK, Updated, UbeNumber
<1>5. TypeOK'
  BY <1>1, <1>2, <1>4 DEF IInv, TypeOK
<1>6. Counted'
  BY <1>1, <1>2 DEF IInv, Counted, Moved, Initialising
<1>7. Owned'
  BY <1>1, <1>2 DEF IInv, Owned, Moved, Initialising, InCall, Ended, State
<1>8. ClearLock'
  BY <1>1, <1>2 DEF IInv, ClearLock, Moved, Using, State
<1>9. ListLock'
  BY <1>1, <1>2 DEF IInv, TypeOK, ListLock, Moved, Clearing
<1>10. Chained'
  BY ChainKept, <1>1, <1>2 DEF IInv, Clearing, Moved
<1>11. Wiped'
  BY <1>1, <1>2 DEF IInv, Wiped, Moved, State, Seeding, Listed, Cleared
<1>12. Past'
  BY Numbers, <1>2, <1>4 DEF IInv, Past, Updated, UbeNumber
<1>13. Recent'
  BY StateInNodes, <1>1, <1>2, <1>4 DEF IInv, Recent, RecentOf, Moved, Updated, Floor, State,
     Initialising, Drawing, Seeding
<1>14. Young'
  BY StateInNodes, <1>1, <1>2, <1>3, <1>4 DEF IInv, Young, Moved, Updated, Ended
<1> QED
  BY <1>5, <1>6, <1>7, <1>8, <1>9, <1>10, <1>11, <1>12, <1>13, <1>14 DEF IInv

\* The entropy source of a new state.
LEMMA InitSourceKeeps ==
  ASSUME IInv, NEW t \in Threads, InitSource(t) PROVE IInv'
<1>1. Moved(t, "init_seed") /\ pc' \in [Threads -> PCs]
  BY GotoMoves DEF InitSource, PCs, IInv
<1>2. pc[t] = "init_source"
      /\ UNCHANGED <<era, available, aborted, head, next, previous, stage, listLock, shutdown,
                     writer, reading, drbg, calls, gn, key, fresh, must, pr, left, out, begun,
                     pos, todo>>
  BY DEF InitSource, env, list, locks, exits
<1>3. stage[State(t)] = "unlisted"
  BY <1>2 DEF IInv, Owned, Initialising
<1>4. /\ source' \in [Nodes -> {"none", "live", "zeroized"}]
      /\ Updated(source, source', Nodes, State(t), "live")
  BY StateInNodes DEF InitSource, IInv, TypeOK, Updated
<1>5. seed' \in [Threads -> 0..MaxEras] /\ Updated(seed, seed', Threads, t, era)
  BY DEF InitSource, IInv, TypeOK, Updated
<1>6. TypeOK'
  BY <1>1, <1>2, <1>4, <1>5 DEF IInv, TypeOK
<1>7. Counted'
  BY <1>1, <1>2 DEF IInv, Counted, Moved, Initialising
<1>8. Owned'
  BY <1>1, <1>2 DEF IInv, Owned, Moved, Initialising, InCall, Ended, State
<1>9. ClearLock'
  BY <1>1, <1>2 DEF IInv, ClearLock, Moved, Using, State
<1>10. ListLock'
  BY <1>1, <1>2 DEF IInv, TypeOK, ListLock, Moved, Clearing
<1>11. Chained'
  BY ChainKept, <1>1, <1>2, <1>3, <1>4 DEF IInv, Clearing, Moved, Updated
<1>12. Wiped'
  BY StateInNodes, <1>1, <1>2, <1>3, <1>4 DEF IInv, Wiped, Moved, Updated, State, Listed, Cleared
<1>13. Past'
  BY <1>2 DEF IInv, Past
<1>14. Recent'
  <2>1. ASSUME NEW u \in Threads \ {t} PROVE RecentOf(u)'
    BY RecentKept, <1>1, <1>2, <1>5 DEF IInv, Recent, Moved, Updated
  <2>2. RecentOf(t)'
    BY StateInNodes, <1>1, <1>2, <1>5 DEF IInv, Recent, RecentOf, Moved, Updated, Floor, State,
       Initialising, Drawing, Past
  <2> QED
    BY <2>1, <2>2 DEF Recent
<1>15. Young'
  BY <1>1, <1>2 DEF IInv, Young, Moved, Ended
<1> QED
  BY <1>6, <1>7, <1>8, <1>9, <1>10, <1>11, <1>12, <1>13, <1>14, <1>15 DEF IInv

\* The first seed.
LEMMA InitSeedKeeps ==
  ASSUME IInv, NEW t \in Threads, InitSeed(t) PROVE IInv'
<1>1. Moved(t, "init_drbg") /\ pc' \in [Threads -> PCs]
  BY GotoMoves DEF InitSeed, PCs, IInv
<1>2. pc[t] = "init_seed" /\ seed' \in {seed, [seed EXCEPT ![t] = era]}
      /\ UNCHANGED <<era, available, aborted, head, next, previous, stage, listLock, shutdown,
                     writer, reading, drbg, calls, gn, source, key, fresh, must, pr, left, out,
                     begun, pos, todo>>
  BY DEF InitSeed, env, list, locks, state, exits
<1>3. /\ seed' \in [Threads -> 0..MaxEras]
      /\ \E e \in {seed[t], era} : Updated(seed, seed', Threads, t, e)
  BY DEF InitSeed, IInv, TypeOK, Updated
<1>4. TypeOK'
  BY <1>1, <1>2 DEF IInv, TypeOK
<1>5. Counted'
  BY <1>1, <1>2 DEF IInv, Counted, Moved, Initialising
<1>6. Owned'
  BY <1>1, <1>2 DEF IInv, Owned, Moved, Initialising, InCall, Ended, State
<1>7. ClearLock'
  BY <1>1, <1>2 DEF IInv, ClearLock, Moved, Using, State
<1>8. ListLock'
  BY <1>1, <1>2 DEF IInv, TypeOK, ListLock, Moved, Clearing
<1>9. Chained'
  BY ChainKept, <1>1, <1>2 DEF IInv, Clearing, Moved
<1>10. Wiped'
  BY <1>1, <1>2 DEF IInv, Wiped, Moved, State, Seeding, Listed, Cleared
<1>11. Past'
  BY <1>2 DEF IInv, Past
<1>12. Recent'
  <2>1. ASSUME NEW u \in Threads \ {t} PROVE RecentOf(u)'
    BY RecentKept, <1>1, <1>2, <1>3 DEF IInv, Recent, Moved, Updated
  <2>2. RecentOf(t)'
    BY StateInNodes, <1>1, <1>2, <1>3 DEF IInv, Recent, RecentOf, Moved, Floor, State,
       Initialising, Drawing, Seeding, Past
  <2> QED
    BY <2>1, <2>2 DEF Recent
<1>13. Young'
  BY <1>1, <1>2 DEF IInv, Young, Moved, Ended
<1> QED
  BY <1>4, <1>5, <1>6, <1>7, <1>8, <1>9, <1>10, <1>11, <1>12, <1>13 DEF IInv

\* The first seed goes into the DRBG.
LEMMA InitDrbgKeeps ==
  ASSUME IInv, NEW t \in Threads, InitDrbg(t) PROVE IInv'
<1>1. Moved(t, "add") /\ pc' \in [Threads -> PCs]
  BY GotoMoves DEF InitDrbg, PCs, IInv
<1>2. pc[t] = "init_drbg"
      /\ UNCHANGED <<era, available, aborted, head, next, previous, stage, listLock, shutdown,
                     writer, reading, gn, source, key, fresh, must, pr, left, out, begun, pos,
                     todo>>
  BY DEF InitDrbg, env, list, locks, exits
<1>3. stage[State(t)] = "unlisted"
  BY <1>2 DEF IInv, Owned, Initialising
<1>4. drbg' \in [Nodes -> 0..MaxEras] /\ Updated(drbg, drbg', Nodes, State(t), seed[t])
  BY StateInNodes DEF InitDrbg, IInv, TypeOK, Updated
<1>5. /\ calls' \in [Nodes -> 0..kCtrDrbgReseedInterval]
      /\ Updated(calls, calls', Nodes, State(t), 0)
  BY RandAssumption, StateInNodes DEF InitDrbg, IInv, TypeOK, Updated
<1>6. seed' \in [Threads -> 0..MaxEras] /\ Updated(seed, seed', Threads, t, 0)
  BY RandAssumption DEF InitDrbg, IInv, TypeOK, Updated
<1>7. TypeOK'
  BY <1>1, <1>2, <1>4, <1>5, <1>6 DEF IInv, TypeOK
<1>8. Counted'
  BY <1>1, <1>2 DEF IInv, Counted, Moved, Initialising
<1>9. Owned'
  BY <1>1, <1>2 DEF IInv, Owned, Moved, Initialising, InCall, Ended, State
<1>10. ClearLock'
  BY <1>1, <1>2 DEF IInv, ClearLock, Moved, Using, State
<1>11. ListLock'
  BY <1>1, <1>2 DEF IInv, TypeOK, ListLock, Moved, Clearing
<1>12. Chained'
  BY ChainKept, <1>1, <1>2 DEF IInv, Clearing, Moved
<1>13. Wiped'
  BY <1>1, <1>2, <1>3, <1>4 DEF IInv, Wiped, Moved, Updated, State, Seeding, Listed, Cleared
<1>14. Past'
  BY <1>2 DEF IInv, Past
<1>15. Recent'
  <2>1. ASSUME NEW u \in Threads \ {t} PROVE RecentOf(u)'
    BY RecentKept, StateInNodes, <1>1, <1>2, <1>4, <1>6 DEF IInv, Recent, Moved, Updated
  <2>2. RecentOf(t)'
    BY <1>1, <1>2, <1>4 DEF IInv, Recent, RecentOf, Moved, Updated, Floor, State, Initialising,
       Drawing, Seeding
  <2> QED
    BY <2>1, <2>2 DEF Recent
<1>16. Young'
  BY StateInNodes, <1>1, <1>2, <1>3, <1>4 DEF IInv, Young, Moved, Updated, Ended
<1> QED
  BY <1>7, <1>8, <1>9, <1>10, <1>11, <1>12, <1>13, <1>14, <1>15, <1>16 DEF IInv

\* The generation number is looked at.
LEMMA rand_check_ctr_drbg_uniquenessKeeps ==
  ASSUME IInv, NEW t \in Threads, rand_check_ctr_drbg_uniqueness(t) PROVE IInv'
<1>1. Moved(t, "pred") /\ pc' \in [Threads -> PCs]
  BY GotoMoves DEF rand_check_ctr_drbg_uniqueness, PCs, IInv
<1>2. pc[t] = "unique"
      /\ UNCHANGED <<era, available, aborted, head, next, previous, stage, listLock, shutdown,
                     writer, reading, drbg, calls, source, key, fresh, seed, pr, left, out,
                     begun, pos, todo>>
  BY DEF rand_check_ctr_drbg_uniqueness, env, list, locks, exits
<1>3. stage[State(t)] \in {"listed", "late"}
  BY <1>2 DEF IInv, Owned, InCall
<1>4. /\ must' \in [Threads -> BOOLEAN]
      /\ Updated(must, must', Threads, t, ~(IF available THEN gn[State(t)] = UbeNumber ELSE fresh[t]))
  BY DEF rand_check_ctr_drbg_uniqueness, IInv, TypeOK, Updated
<1>5. /\ gn' \in [Nodes -> 0..MaxEras]
      /\ Updated(gn, gn', Nodes, State(t), IF available THEN UbeNumber ELSE gn[State(t)])
  BY RandAssumption, StateInNodes DEF rand_check_ctr_drbg_uniqueness, IInv, TypeOK, Updated,
     UbeNumber
<1>6. TypeOK'
  BY <1>1, <1>2, <1>4, <1>5 DEF IInv, TypeOK
<1>7. Counted'
  BY <1>1, <1>2 DEF IInv, Counted, Moved, InCall
<1>8. Owned'
  BY <1>1, <1>2, <1>3 DEF IInv, Owned, Moved, Initialising, Ended, State
<1>9. ClearLock'
  BY <1>1, <1>2 DEF IInv, ClearLock, Moved, Using, State
<1>10. ListLock'
  BY <1>1, <1>2 DEF IInv, TypeOK, ListLock, Moved, Clearing
<1>11. Chained'
  BY ChainKept, <1>1, <1>2 DEF IInv, Clearing, Moved
<1>12. Wiped'
  BY StateInNodes, <1>1, <1>2, <1>3 DEF IInv, Wiped, Moved, State, Listed, Cleared
<1>13. Past'
  BY Numbers, <1>2, <1>5 DEF IInv, Past, Updated, UbeNumber
<1>14. Recent'
  <2>1. ASSUME NEW u \in Threads \ {t} PROVE RecentOf(u)'
    BY RecentKept, StateInNodes, <1>1, <1>2, <1>4, <1>5 DEF IInv, Recent, Moved, Updated
  <2>2. RecentOf(t)'
    BY Numbers, <1>1, <1>2, <1>4, <1>5 DEF IInv, Recent, RecentOf, Moved, Updated, Floor, State,
       Drawing, Seeding, Past, UbeNumber
  <2> QED
    BY <2>1, <2>2 DEF Recent
<1>15. Young'
  <2> SUFFICES ASSUME available, NEW u \in Threads, NEW k \in Keys, stage[<<u, k>>] = "listed",
                      pc'[u] \notin Ended, ~(must'[u] /\ key[u] = k)
               PROVE  gn'[<<u, k>>] + 1 <= drbg'[<<u, k>>] \/ writer'[<<u, k>>] # NoThread
    BY <1>2 DEF Young
  <2>1. pc[u] \notin Ended
    BY <1>1, <1>2 DEF Moved, Ended
  <2>2. CASE <<u, k>> = State(t)
    <3>1. u = t /\ k = key[t]
      BY StateInNodes, <2>2 DEF IInv
    <3>2. ~must[t] /\ gn[State(t)] = UbeNumber
      BY <1>2, <1>4, <3>1 DEF IInv, Recent, RecentOf, Drawing, Updated
    <3>3. gn[State(t)] + 1 <= drbg[State(t)] \/ writer[State(t)] # NoThread
      BY <2>1, <2>2, <3>1, <3>2 DEF IInv, Young
    <3> QED
      BY <1>2, <1>5, <2>2, <3>2, <3>3 DEF Updated
  <2>3. CASE <<u, k>> # State(t)
    <3>1. ~(must[u] /\ key[u] = k)
      BY <1>4, <1>2 DEF Updated, IInv, Recent, RecentOf, Drawing
    <3> QED
      BY StateInNodes, <2>1, <2>3, <3>1, <1>2, <1>5 DEF IInv, Young, Updated
  <2> QED
    BY <2>2, <2>3
<1> QED
  BY <1>6, <1>7, <1>8, <1>9, <1>10, <1>11, <1>12, <1>13, <1>14, <1>15 DEF IInv

\* The prediction resistance is drawn.
LEMMA rand_maybe_get_ctr_drbg_pred_resistanceKeeps ==
  ASSUME IInv, NEW t \in Threads, rand_maybe_get_ctr_drbg_pred_resistance(t) PROVE IInv'
<1>1. Moved(t, "lock") /\ pc' \in [Threads -> PCs]
  BY GotoMoves DEF rand_maybe_get_ctr_drbg_pred_resistance, PCs, IInv
<1>2. pc[t] = "pred"
      /\ UNCHANGED <<era, available, aborted, head, next, previous, stage, listLock, shutdown,
                     writer, reading, drbg, calls, gn, source, key, fresh, must, seed, left, out,
                     begun, pos, todo>>
  BY DEF rand_maybe_get_ctr_drbg_pred_resistance, env, list, locks, state, exits
<1>3. stage[State(t)] \in {"listed", "late"}
  BY <1>2 DEF IInv, Owned, InCall
<1>4. /\ pr' \in [Threads -> 0..MaxEras]
      /\ Updated(pr, pr', Threads, t, IF PredResistance THEN era ELSE 0)
  BY RandAssumption DEF rand_maybe_get_ctr_drbg_pred_resistance, IInv, TypeOK, Updated
<1>5. TypeOK'
  BY <1>1, <1>2, <1>4 DEF IInv, TypeOK
<1>6. Counted'
  BY <1>1, <1>2 DEF IInv, Counted, Moved, InCall
<1>7. Owned'
  BY <1>1, <1>2, <1>3 DEF IInv, Owned, Moved, Initialising, Ended, State
<1>8. ClearLock'
  BY <1>1, <1>2 DEF IInv, ClearLock, Moved, Using, State
<1>9. ListLock'
  BY <1>1, <1>2 DEF IInv, TypeOK, ListLock, Moved, Clearing
<1>10. Chained'
  BY ChainKept, <1>1, <1>2 DEF IInv, Clearing, Moved
<1>11. Wiped'
  BY StateInNodes, <1>1, <1>2, <1>3 DEF IInv, Wiped, Moved, State, Listed, Cleared
<1>12. Past'
  BY <1>2 DEF IInv, Past
<1>13. Recent'
  BY <1>1, <1>2 DEF IInv, Recent, RecentOf, Moved, Floor, State, Initialising, Drawing, Seeding
<1>14. Young'
  BY <1>1, <1>2 DEF IInv, Young, Moved, Ended
<1> QED
  BY <1>5, <1>6, <1>7, <1>8, <1>9, <1>10, <1>11, <1>12, <1>13, <1>14 DEF IInv

\* The thread locks its state.
LEMMA LockReadKeeps ==
  ASSUME IInv, NEW t \in Threads, LockRead(t) PROVE IInv'
<1>1. Moved(t, "loop") /\ pc' \in [Threads -> PCs]
  BY GotoMoves DEF LockRead, PCs, IInv
<1>2. pc[t] = "lock" /\ writer[State(t)] = NoThread
      /\ UNCHANGED <<era, available, aborted, head, next, previous, stage, listLock, shutdown,
                     writer, drbg, calls, gn, source, key, fresh, must, seed, pr, left, out,
                     begun, pos, todo>>
  BY DEF LockRead, CRYPTO_MUTEX_lock_read, env, list, locks, state, locals, exits
<1>3. stage[State(t)] = "listed"
  BY StateInNodes, <1>2 DEF IInv, Owned, InCall, ClearLock
<1>4. reading' \in [Nodes -> BOOLEAN] /\ Updated(reading, reading', Nodes, State(t), TRUE)
  BY StateInNodes DEF LockRead, IInv, TypeOK, Updated, CRYPTO_MUTEX_lock_read
<1>5. TypeOK'
  BY <1>1, <1>2, <1>4 DEF IInv, TypeOK
<1>6. Counted'
  BY <1>1, <1>2 DEF IInv, Counted, Moved, InCall
<1>7. Owned'
  BY <1>1, <1>2, <1>3 DEF IInv, Owned, Moved, Initialising, Ended, State
<1>8. ClearLock'
  BY StateInNodes, <1>1, <1>2, <1>3, <1>4 DEF IInv, ClearLock, Moved, Updated, Using, State
<1>9. ListLock'
  BY <1>1, <1>2 DEF IInv, TypeOK, ListLock, Moved, Clearing
<1>10. Chained'
  BY ChainKept, <1>1, <1>2 DEF IInv, Clearing, Moved
<1>11. Wiped'
  BY StateInNodes, <1>1, <1>2, <1>3 DEF IInv, Wiped, Moved, State, Listed, Cleared
<1>12. Past'
  BY <1>2 DEF IInv, Past
<1>13. Recent'
  BY <1>1, <1>2 DEF IInv, Recent, RecentOf, Moved, Floor, State, Initialising, Drawing, Seeding
<1>14. Young'
  BY <1>1, <1>2 DEF IInv, Young, Moved, Ended
<1> QED
  BY <1>5, <1>6, <1>7, <1>8, <1>9, <1>10, <1>11, <1>12, <1>13, <1>14 DEF IInv

\* The thread unlocks its state.
LEMMA UnlockToReseedKeeps ==
  ASSUME IInv, NEW t \in Threads, UnlockToReseed(t) PROVE IInv'
<1>1. Moved(t, "seed") /\ pc' \in [Threads -> PCs]
  BY GotoMoves DEF UnlockToReseed, PCs, IInv
<1>2. pc[t] = "loop"
      /\ UNCHANGED <<era, available, aborted, head, next, previous, stage, listLock, shutdown,
                     writer, drbg, calls, gn, source, key, fresh, must, seed, pr, left, out,
                     begun, pos, todo>>
  BY DEF UnlockToReseed, env, list, locks, state, locals, exits
<1>3. reading[State(t)] /\ stage[State(t)] = "listed" /\ writer[State(t)] = NoThread
  BY StateInNodes, <1>2 DEF IInv, ClearLock, Using
<1>4. reading' \in [Nodes -> BOOLEAN] /\ Updated(reading, reading', Nodes, State(t), FALSE)
  BY StateInNodes DEF UnlockToReseed, IInv, TypeOK, Updated
<1>5. TypeOK'
  BY <1>1, <1>2, <1>4 DEF IInv, TypeOK
<1>6. Counted'
  BY <1>1, <1>2 DEF IInv, Counted, Moved, InCall
<1>7. Owned'
  BY <1>1, <1>2, <1>3 DEF IInv, Owned, Moved, Initialising, Ended, State
<1>8. ClearLock'
  BY StateInNodes, <1>1, <1>2, <1>4 DEF IInv, ClearLock, Moved, Updated, Using, State
<1>9. ListLock'
  BY <1>1, <1>2 DEF IInv, TypeOK, ListLock, Moved, Clearing
<1>10. Chained'
  BY ChainKept, <1>1, <1>2 DEF IInv, Clearing, Moved
<1>11. Wiped'
  BY StateInNodes, <1>1, <1>2, <1>3 DEF IInv, Wiped, Moved, State, Listed, Cleared
<1>12. Past'
  BY <1>2 DEF IInv, Past
<1>13. Recent'
  BY <1>1, <1>2 DEF IInv, Recent, RecentOf, Moved, Floor, State, Initialising, Drawing, Seeding
<1>14. Young'
  BY <1>1, <1>2 DEF IInv, Young, Moved, Ended
<1> QED
  BY <1>5, <1>6, <1>7, <1>8, <1>9, <1>10, <1>11, <1>12, <1>13, <1>14 DEF IInv

\* The seed is sourced.
LEMMA rand_get_ctr_drbg_seed_entropyKeeps ==
  ASSUME IInv, NEW t \in Threads, rand_get_ctr_drbg_seed_entropy(t) PROVE IInv'
<1>1. Moved(t, "relock") /\ pc' \in [Threads -> PCs]
  BY GotoMoves DEF rand_get_ctr_drbg_seed_entropy, PCs, IInv
<1>2. pc[t] = "seed" /\ seed' \in {[seed EXCEPT ![t] = e] : e \in IF source[State(t)] = "live" THEN {era} ELSE {0, era}}
      /\ UNCHANGED <<era, available, aborted, head, next, previous, stage, listLock, shutdown,
                     writer, reading, drbg, calls, gn, source, key, fresh, must, pr, left, out,
                     begun, pos, todo>>
  BY DEF rand_get_ctr_drbg_seed_entropy, env, list, locks, state, exits
<1>3. /\ stage[State(t)] \in {"listed", "late"}
      /\ source[State(t)] = "live" \/ writer[State(t)] # NoThread
  BY StateInNodes, <1>2 DEF IInv, Owned, InCall, Wiped, TypeOK
<1>4. /\ seed' \in [Threads -> 0..MaxEras]
      /\ \E e \in IF source[State(t)] = "live" THEN {era} ELSE {0, era} : Updated(seed, seed', Threads, t, e)
  BY RandAssumption DEF rand_get_ctr_drbg_seed_entropy, IInv, TypeOK, Updated
<1>5. TypeOK'
  BY <1>1, <1>2, <1>4 DEF IInv, TypeOK
<1>6. Counted'
  BY <1>1, <1>2 DEF IInv, Counted, Moved, InCall
<1>7. Owned'
  BY <1>1, <1>2, <1>3 DEF IInv, Owned, Moved, Initialising, Ended, State
<1>8. ClearLock'
  BY <1>1, <1>2 DEF IInv, ClearLock, Moved, Using, State
<1>9. ListLock'
  BY <1>1, <1>2 DEF IInv, TypeOK, ListLock, Moved, Clearing
<1>10. Chained'
  BY ChainKept, <1>1, <1>2 DEF IInv, Clearing, Moved
<1>11. Wiped'
  BY StateInNodes, <1>1, <1>2, <1>3 DEF IInv, Wiped, Moved, State, Listed, Cleared
<1>12. Past'
  BY <1>2 DEF IInv, Past
<1>13. Recent'
  <2>1. ASSUME NEW u \in Threads \ {t} PROVE RecentOf(u)'
    BY RecentKept, <1>1, <1>2, <1>4 DEF IInv, Recent, Moved, Updated
  <2>2. RecentOf(t)'
    BY StateInNodes, <1>1, <1>2, <1>3, <1>4 DEF IInv, Recent, RecentOf, Moved, Floor, State,
       Initialising, Drawing, Seeding, Past
  <2> QED
    BY <2>1, <2>2 DEF Recent
<1>14. Young'
  BY <1>1, <1>2 DEF IInv, Young, Moved, Ended
<1> QED
  BY <1>5, <1>6, <1>7, <1>8, <1>9, <1>10, <1>11, <1>12, <1>13, <1>14 DEF IInv

\* The DRBG is reseeded under the lock.
LEMMA rand_ctr_drbg_reseedKeeps ==
  ASSUME IInv, NEW t \in Threads, rand_ctr_drbg_reseed(t) PROVE IInv'
<1>1. Moved(t, "loop") /\ pc' \in [Threads -> PCs]
  BY GotoMoves DEF rand_ctr_drbg_reseed, PCs, IInv
<1>2. pc[t] = "relock" /\ writer[State(t)] = NoThread
      /\ UNCHANGED <<era, available, aborted, head, next, previous, stage, listLock, shutdown,
                     writer, gn, source, key, fresh, pr, left, out, begun, pos, todo>>
  BY DEF rand_ctr_drbg_reseed, CRYPTO_MUTEX_lock_read, env, list, locks, exits
<1>3. stage[State(t)] = "listed"
  BY StateInNodes, <1>2 DEF IInv, Owned, InCall, ClearLock
<1>4. reading' \in [Nodes -> BOOLEAN] /\ Updated(reading, reading', Nodes, State(t), TRUE)
  BY StateInNodes DEF rand_ctr_drbg_reseed, IInv, TypeOK, Updated, CRYPTO_MUTEX_lock_read
<1>5. /\ drbg' \in [Nodes -> 0..MaxEras]
      /\ Updated(drbg, drbg', Nodes, State(t), Youngest(drbg[State(t)], seed[t]))
  BY StateInNodes DEF rand_ctr_drbg_reseed, IInv, TypeOK, Updated, Youngest
<1>6. /\ calls' \in [Nodes -> 0..kCtrDrbgReseedInterval]
      /\ Updated(calls, calls', Nodes, State(t), 0)
  BY RandAssumption, StateInNodes DEF rand_ctr_drbg_reseed, IInv, TypeOK, Updated
<1>7. must' \in [Threads -> BOOLEAN] /\ Updated(must, must', Threads, t, FALSE)
  BY DEF rand_ctr_drbg_reseed, IInv, TypeOK, Updated
<1>8. seed' \in [Threads -> 0..MaxEras] /\ Updated(seed, seed', Threads, t, 0)
  BY RandAssumption DEF rand_ctr_drbg_reseed, IInv, TypeOK, Updated
<1>9. TypeOK'
  BY <1>1, <1>2, <1>4, <1>5, <1>6, <1>7, <1>8 DEF IInv, TypeOK
<1>10. Counted'
  BY <1>1, <1>2 DEF IInv, Counted, Moved, InCall
<1>11. Owned'
  BY <1>1, <1>2, <1>3 DEF IInv, Owned, Moved, Initialising, Ended, State
<1>12. ClearLock'
  BY StateInNodes, <1>1, <1>2, <1>3, <1>4 DEF IInv, ClearLock, Moved, Updated, Using, State
<1>13. ListLock'
  BY <1>1, <1>2 DEF IInv, TypeOK, ListLock, Moved, Clearing
<1>14. Chained'
  BY ChainKept, <1>1, <1>2 DEF IInv, Clearing, Moved
<1>15. Wiped'
  BY StateInNodes, <1>1, <1>2, <1>3, <1>5 DEF IInv, Wiped, Moved, Updated, State, Listed, Cleared
<1>16. Past'
  BY <1>2 DEF IInv, Past
<1>17. Recent'
  <2>1. ASSUME NEW u \in Threads \ {t} PROVE RecentOf(u)'
    BY RecentKept, StateInNodes, <1>1, <1>2, <1>5, <1>7, <1>8 DEF IInv, Recent, Moved, Updated
  <2>2. RecentOf(t)'
    BY Numbers, StateInNodes, <1>1, <1>2, <1>5 DEF IInv, Recent, RecentOf, Moved, Updated, Floor,
       State, Initialising, Drawing, Seeding, Youngest
  <2> QED
    BY <2>1, <2>2 DEF Recent
<1>18. Young'
  <2> SUFFICES ASSUME available, NEW u \in Threads, NEW k \in Keys, stage[<<u, k>>] = "listed",
                      pc'[u] \notin Ended, ~(must'[u] /\ key[u] = k)
               PROVE  gn'[<<u, k>>] + 1 <= drbg'[<<u, k>>] \/ writer'[<<u, k>>] # NoThread
    BY <1>2 DEF Young
  <2>1. pc[u] \notin Ended
    BY <1>1, <1>2 DEF Moved, Ended
  <2>2. CASE <<u, k>> = State(t)
    <3>1. u = t /\ k = key[t]
      BY StateInNodes, <2>2 DEF IInv
    <3>2. gn[State(t)] + 1 <= seed[t]
      BY <1>2 DEF IInv, Recent, RecentOf, Floor
    <3>3. gn[State(t)] \in Nat /\ seed[t] \in Nat /\ drbg[State(t)] \in Nat
      BY Numbers, StateInNodes DEF IInv
    <3> QED
      BY <1>2, <1>5, <2>2, <3>2, <3>3 DEF Updated, Youngest
  <2>3. CASE <<u, k>> # State(t)
    <3>1. ~(must[u] /\ key[u] = k)
      BY <1>7, <2>3 DEF Updated, State
    <3> QED
      BY StateInNodes, <2>1, <2>3, <3>1, <1>2, <1>5 DEF IInv, Young, Updated
  <2> QED
    BY <2>2, <2>3
<1> QED
  BY <1>9, <1>10, <1>11, <1>12, <1>13, <1>14, <1>15, <1>16, <1>17, <1>18 DEF IInv

\* A chunk is generated.
LEMMA CTR_DRBG_generateKeeps ==
  ASSUME IInv, NEW t \in Threads, CTR_DRBG_generate(t) PROVE IInv'
<1>1. Moved(t, IF left[t] = 1 THEN "valid" ELSE "loop") /\ pc' \in [Threads -> PCs]
  BY GotoMoves DEF CTR_DRBG_generate, PCs, IInv
<1>2. pc[t] = "loop" /\ ~must[t] /\ ~(calls[State(t)] + 1 > kCtrDrbgReseedInterval)
      /\ UNCHANGED <<era, available, aborted, head, next, previous, stage, listLock, shutdown,
                     writer, reading, gn, source, key, fresh, must, seed, begun, pos, todo>>
  BY DEF CTR_DRBG_generate, MustReseed, env, list, locks, exits
<1>3. reading[State(t)] /\ stage[State(t)] = "listed" /\ writer[State(t)] = NoThread
  BY StateInNodes, <1>2 DEF IInv, ClearLock, Using
<1>4. /\ drbg' \in [Nodes -> 0..MaxEras]
      /\ Updated(drbg, drbg', Nodes, State(t), Youngest(drbg[State(t)], pr[t]))
  BY StateInNodes DEF CTR_DRBG_generate, IInv, TypeOK, Updated, Youngest
<1>5. /\ out' \in [Threads -> 0..MaxEras]
      /\ Updated(out, out', Threads, t, Oldest(out[t], drbg'[State(t)]))
  BY <1>4 DEF CTR_DRBG_generate, IInv, TypeOK, Updated, Oldest
<1>6. /\ calls' \in [Nodes -> 0..kCtrDrbgReseedInterval]
      /\ Updated(calls, calls', Nodes, State(t), calls[State(t)] + 1)
  BY RandAssumption, StateInNodes, <1>2 DEF CTR_DRBG_generate, IInv, TypeOK, Updated
<1>7. pr' \in [Threads -> 0..MaxEras] /\ Updated(pr, pr', Threads, t, 0)
  BY RandAssumption DEF CTR_DRBG_generate, IInv, TypeOK, Updated
<1>8. left' \in [Threads -> 0..MaxChunks] /\ Updated(left, left', Threads, t, left[t] - 1)
  BY RandAssumption DEF CTR_DRBG_generate, IInv, TypeOK, Updated, Counted, InCall
<1>9. TypeOK'
  BY <1>1, <1>2, <1>4, <1>5, <1>6, <1>7, <1>8 DEF IInv, TypeOK
<1>10. Counted'
  BY Numbers, <1>1, <1>8 DEF IInv, Counted, Moved, Updated, Initialising
<1>11. Owned'
  BY <1>1, <1>2, <1>3 DEF IInv, Owned, Moved, Initialising, Ended, State
<1>12. ClearLock'
  BY <1>1, <1>2 DEF IInv, ClearLock, Moved, Using, State
<1>13. ListLock'
  BY <1>1, <1>2 DEF IInv, TypeOK, ListLock, Moved, Clearing
<1>14. Chained'
  BY ChainKept, <1>1, <1>2 DEF IInv, Clearing, Moved
<1>15. Wiped'
  BY StateInNodes, <1>1, <1>2, <1>3, <1>4 DEF IInv, Wiped, Moved, Updated, State, Listed, Cleared
<1>16. Past'
  BY <1>2 DEF IInv, Past
<1>17. Recent'
  <2>1. ASSUME NEW u \in Threads \ {t} PROVE RecentOf(u)'
    BY RecentKept, StateInNodes, <1>1, <1>2, <1>4, <1>5 DEF IInv, Recent, Moved, Updated
  <2>2. Floor(t) <= drbg[State(t)]
    <3>1. CASE available
      BY <1>2, <1>3, <3>1 DEF IInv, Young, Floor, State, Ended, TypeOK
    <3>2. CASE ~available
      BY <1>2, <1>3, <3>2 DEF IInv, Recent, RecentOf, Floor, Drawing
    <3> QED
      BY <3>1, <3>2
  <2>3. Floor(t) <= out[t] /\ Floor(t) \in Nat
    BY <1>2, Numbers, StateInNodes DEF IInv, Recent, RecentOf, Drawing, Floor
  <2>4. Floor(t)' = Floor(t) /\ State(t)' = State(t)
    BY <1>2 DEF Floor, State
  <2>5. drbg'[State(t)] \in Nat /\ Floor(t) <= drbg'[State(t)]
    BY <1>4, <2>2, <2>3, Numbers, StateInNodes DEF IInv, Updated, Youngest
  <2>6. Floor(t) <= out'[t]
    BY <1>5, <2>3, <2>5 DEF Updated, Oldest
  <2>7. RecentOf(t)'
    <3>1. pc'[t] \in {"valid", "loop"} /\ ~must'[t]
      BY <1>1, <1>2 DEF Moved
    <3>2. begun'[t] <= drbg'[State(t)] \/ available'
      BY <1>2, <2>5 DEF Floor
    <3> QED
      BY <2>4, <2>6, <3>1, <3>2 DEF RecentOf, Initialising, Seeding
  <2> QED
    BY <2>1, <2>7 DEF Recent
<1>18. Young'
  <2> SUFFICES ASSUME available, NEW u \in Threads, NEW k \in Keys, stage[<<u, k>>] = "listed",
                      pc'[u] \notin Ended, ~(must'[u] /\ key[u] = k)
               PROVE  gn'[<<u, k>>] + 1 <= drbg'[<<u, k>>] \/ writer'[<<u, k>>] # NoThread
    BY <1>2 DEF Young
  <2>1. pc[u] \notin Ended
    BY <1>1, <1>2 DEF Moved, Ended
  <2>2. CASE <<u, k>> = State(t)
    <3>1. u = t /\ k = key[t]
      BY StateInNodes, <2>2 DEF IInv
    <3> QED
      BY <1>2, <1>4, <2>1, Numbers, StateInNodes DEF IInv, Young, Updated, Youngest
  <2>3. CASE <<u, k>> # State(t)
    <3>1. ~(must[u] /\ key[u] = k)
      BY <1>2
    <3> QED
      BY StateInNodes, <2>1, <2>3, <1>2, <1>4 DEF IInv, Young, Updated
  <2> QED
    BY <2>2, <2>3
<1> QED
  BY <1>9, <1>10, <1>11, <1>12, <1>13, <1>14, <1>15, <1>16, <1>17, <1>18 DEF IInv

\* The thread ends.
LEMMA ThreadExitKeeps ==
  ASSUME IInv, NEW t \in Threads, ThreadExit(t) PROVE IInv'
<1>1. Moved(t, "exit") /\ pc' \in [Threads -> PCs]
  BY GotoMoves DEF ThreadExit, PCs, IInv
<1>2. pc[t] \in {"idle"} \cup Initialising
      /\ UNCHANGED <<era, available, aborted, head, next, previous, stage, listLock, shutdown,
                     writer, reading, drbg, calls, gn, source, key, fresh, must, pr, left, out,
                     begun, pos>>
  BY DEF ThreadExit, env, list, locks, state
<1>3. /\ todo' \in [Threads -> SUBSET Keys]
      /\ Updated(todo, todo', Threads, t, {k \in Keys : stage[<<t, k>>] # "none"})
  BY DEF ThreadExit, IInv, TypeOK, Updated
<1>4. seed' \in [Threads -> 0..MaxEras] /\ Updated(seed, seed', Threads, t, 0)
  BY RandAssumption DEF ThreadExit, IInv, TypeOK, Updated
<1>5. TypeOK'
  BY <1>1, <1>2, <1>3, <1>4 DEF IInv, TypeOK
<1>6. Counted'
  BY <1>1, <1>2 DEF IInv, Counted, Moved, Initialising, InCall
<1>7. Owned'
  BY <1>1, <1>2, <1>3 DEF IInv, Owned, Moved, Updated, Initialising, InCall, Ended, State
<1>8. ClearLock'
  BY <1>1, <1>2 DEF IInv, ClearLock, Moved, Using, State, Initialising
<1>9. ListLock'
  BY <1>1, <1>2 DEF IInv, TypeOK, ListLock, Initialising, Moved, Clearing
<1>10. Chained'
  BY ChainKept, <1>1, <1>2 DEF IInv, Clearing, Moved
<1>11. Wiped'
  BY <1>1, <1>2 DEF IInv, Wiped, Moved, State, Seeding, Listed, Cleared
<1>12. Past'
  BY <1>2 DEF IInv, Past
<1>13. Recent'
  BY <1>1, <1>2, <1>4 DEF IInv, Recent, RecentOf, Moved, Updated, Floor, State, Initialising,
     Drawing, Seeding
<1>14. Young'
  BY <1>1, <1>2 DEF IInv, Young, Moved, Ended
<1> QED
  BY <1>5, <1>6, <1>7, <1>8, <1>9, <1>10, <1>11, <1>12, <1>13, <1>14 DEF IInv

\* The thread is gone.
LEMMA GoneKeeps ==
  ASSUME IInv, NEW t \in Threads, Gone(t) PROVE IInv'
<1>1. Moved(t, "gone") /\ pc' \in [Threads -> PCs]
  BY GotoMoves DEF Gone, PCs, IInv
<1>2. pc[t] = "exit" /\ todo[t] = {}
      /\ UNCHANGED <<era, available, aborted, head, next, previous, stage, listLock, shutdown,
                     writer, reading, drbg, calls, gn, source, key, fresh, must, seed, pr, left,
                     out, begun, pos, todo>>
  BY DEF Gone, env, list, locks, state, locals, exits
<1>3. TypeOK'
  BY <1>1, <1>2 DEF IInv, TypeOK
<1>4. Counted'
  BY <1>1, <1>2 DEF IInv, Counted, Moved, Initialising, InCall
<1>5. Owned'
  BY <1>1, <1>2 DEF IInv, Owned, Moved, Initialising, InCall, Ended, State
<1>6. ClearLock'
  BY <1>1, <1>2 DEF IInv, ClearLock, Moved, Using, State
<1>7. ListLock'
  BY <1>1, <1>2 DEF IInv, TypeOK, ListLock, Moved, Clearing
<1>8. Chained'
  BY ChainKept, <1>1, <1>2 DEF IInv, Clearing, Moved
<1>9. Wiped'
  BY <1>1, <1>2 DEF IInv, Wiped, Moved, State, Seeding, Listed, Cleared
<1>10. Past'
  BY <1>2 DEF IInv, Past
<1>11. Recent'
  BY <1>1, <1>2 DEF IInv, Recent, RecentOf, Moved, Floor, State, Initialising, Drawing, Seeding
<1>12. Young'
  BY <1>1, <1>2 DEF IInv, Young, Moved, Ended
<1> QED
  BY <1>3, <1>4, <1>5, <1>6, <1>7, <1>8, <1>9, <1>10, <1>11, <1>12 DEF IInv

\* Shutdown starts.
LEMMA ClearStartKeeps ==
  ASSUME IInv, NEW t \in Threads, ClearStart(t) PROVE IInv'
<1>1. Moved(t, "clear") /\ pc' \in [Threads -> PCs]
  BY GotoMoves DEF ClearStart, PCs, IInv
<1>2. pc[t] = "idle" /\ listLock = NoThread /\ ~shutdown
      /\ UNCHANGED <<era, available, aborted, head, next, previous, stage, writer, reading, drbg,
                     calls, gn, source, key, fresh, must, seed, pr, left, out, begun, todo>>
  BY DEF ClearStart, env, list, state, locals
<1>3. \A u \in Threads : pc[u] \notin Clearing
  BY <1>2, RandAssumption DEF IInv, ListLock
<1>4. shutdown' = TRUE
  BY DEF ClearStart
<1>5. listLock' = t
  BY DEF ClearStart
<1>6. pos' \in [Threads -> Nodes \cup {Null}] /\ Updated(pos, pos', Threads, t, head)
  BY DEF ClearStart, IInv, TypeOK, Updated
<1>7. TypeOK'
  BY <1>1, <1>2, <1>4, <1>5, <1>6 DEF IInv, TypeOK
<1>8. Counted'
  BY <1>1, <1>2 DEF IInv, Counted, Moved, Initialising, InCall
<1>9. Owned'
  BY <1>1, <1>2 DEF IInv, Owned, Moved, Initialising, InCall, Ended, State
<1>10. ClearLock'
  BY <1>1, <1>2 DEF IInv, ClearLock, Moved, Using, State
<1>11. ListLock'
  BY LinksListed, <1>1, <1>2, <1>3, <1>4, <1>5, <1>6 DEF IInv, ListLock, Moved, Updated, Clearing
<1>12. Chained'
  BY LoopStarts, <1>1, <1>2, <1>3, <1>6 DEF IInv, Moved, Updated
<1>13. Wiped'
  BY RandAssumption, <1>1, <1>2, <1>3, <1>5 DEF IInv, Wiped, Moved, State, Seeding, Cleared,
     Clearing
<1>14. Past'
  BY <1>2 DEF IInv, Past
<1>15. Recent'
  BY <1>1, <1>2 DEF IInv, Recent, RecentOf, Moved, Floor, State, Initialising, Drawing, Seeding
<1>16. Young'
  BY <1>1, <1>2 DEF IInv, Young, Moved, Ended
<1> QED
  BY <1>7, <1>8, <1>9, <1>10, <1>11, <1>12, <1>13, <1>14, <1>15, <1>16 DEF IInv

\* A state is locked for ever and zeroised.
LEMMA ClearOneKeeps ==
  ASSUME IInv, NEW t \in Threads, ClearOne(t) PROVE IInv'
<1>1. pc[t] = "clear" /\ pos[t] # Null /\ ~reading[pos[t]] /\ writer[pos[t]] = NoThread
      /\ UNCHANGED <<era, available, aborted, head, next, previous, stage, listLock, shutdown,
                     reading, calls, gn, source, pc, key, fresh, must, seed, pr, left, out,
                     begun, todo>>
  BY DEF ClearOne, env, list, locals
<1>2. /\ listLock = t /\ shutdown /\ \A u \in Threads \ {t} : pc[u] \notin Clearing
      /\ pos[t] \in Nodes /\ stage[pos[t]] = "listed"
  BY <1>1 DEF IInv, ListLock, Clearing, TypeOK
<1>3. /\ writer' \in [Nodes -> Threads \cup {NoThread}]
      /\ Updated(writer, writer', Nodes, pos[t], t)
  BY DEF ClearOne, IInv, TypeOK, Updated
<1>4. drbg' \in [Nodes -> 0..MaxEras] /\ Updated(drbg, drbg', Nodes, pos[t], 0)
  BY RandAssumption DEF ClearOne, IInv, TypeOK, Updated
<1>5. pos' \in [Threads -> Nodes \cup {Null}] /\ Updated(pos, pos', Threads, t, next[pos[t]])
  BY DEF ClearOne, IInv, TypeOK, Updated
<1>6. TypeOK'
  BY <1>1, <1>3, <1>4, <1>5 DEF IInv, TypeOK
<1>7. Counted'
  BY <1>1 DEF IInv, Counted
<1>8. Owned'
  BY <1>1 DEF IInv, Owned, State
<1>9. ClearLock'
  BY <1>1, <1>2, <1>3 DEF IInv, ClearLock, Updated, State
<1>10. ListLock'
  BY LinksListed, <1>1, <1>2, <1>5 DEF IInv, ListLock, Updated
<1>11. Chained'
  BY LoopGoesOn, RandAssumption, <1>1, <1>2, <1>3, <1>5 DEF IInv, Updated
<1>12. Wiped'
  BY RandAssumption, <1>1, <1>2, <1>3, <1>4 DEF IInv, Wiped, Updated, State, Cleared, Clearing
<1>13. Past'
  BY <1>1 DEF IInv, Past
<1>14. ASSUME NEW n \in Nodes
       PROVE  /\ writer'[n] = NoThread => writer[n] = NoThread
              /\ drbg'[n] = drbg[n] \/ (stage[n] = "listed" /\ writer'[n] # NoThread)
  BY RandAssumption, <1>2, <1>3, <1>4 DEF Updated
<1>15. Recent'
  <2> SUFFICES ASSUME NEW u \in Threads PROVE RecentOf(u)'
    BY DEF Recent
  <2>1. pc[u] = "add" => stage[State(u)] # "listed"
    BY DEF IInv, Owned, Initialising
  <2> QED
    BY RecentKept, StateInNodes, <1>1, <1>14, <2>1 DEF IInv, Recent
<1>16. Young'
  BY StateInNodes, <1>1, <1>14 DEF IInv, Young
<1> QED
  BY <1>6, <1>7, <1>8, <1>9, <1>10, <1>11, <1>12, <1>13, <1>15, <1>16 DEF IInv

\* The second loop starts.
LEMMA ClearedAllKeeps ==
  ASSUME IInv, NEW t \in Threads, ClearedAll(t) PROVE IInv'
<1>1. Moved(t, "zeroize") /\ pc' \in [Threads -> PCs]
  BY GotoMoves DEF ClearedAll, PCs, IInv
<1>2. pc[t] = "clear" /\ pos[t] = Null
      /\ UNCHANGED <<era, available, aborted, head, next, previous, stage, listLock, shutdown,
                     writer, reading, drbg, calls, gn, source, key, fresh, must, seed, pr, left,
                     out, begun, todo>>
  BY DEF ClearedAll, env, list, locks, state, locals
<1>3. listLock = t /\ shutdown /\ \A u \in Threads \ {t} : pc[u] \notin Clearing
  BY <1>2, RandAssumption DEF IInv, ListLock, Clearing
<1>4. pos' \in [Threads -> Nodes \cup {Null}] /\ Updated(pos, pos', Threads, t, head)
  BY DEF ClearedAll, IInv, TypeOK, Updated
<1>5. TypeOK'
  BY <1>1, <1>2, <1>4 DEF IInv, TypeOK
<1>6. Counted'
  BY <1>1, <1>2 DEF IInv, Counted, Moved, Initialising, InCall
<1>7. Owned'
  BY <1>1, <1>2 DEF IInv, Owned, Moved, Initialising, InCall, Ended, State
<1>8. ClearLock'
  BY <1>1, <1>2 DEF IInv, ClearLock, Moved, Using, State
<1>9. ListLock'
  BY LinksListed, <1>1, <1>2, <1>3, <1>4 DEF IInv, ListLock, Moved, Updated, Clearing
<1>10. Chained'
  BY LoopStarts, <1>1, <1>2, <1>3, <1>4 DEF IInv, Moved, Updated
<1>11. Wiped'
  BY LoopDone, <1>1, <1>2 DEF IInv, Wiped, Moved, State, Seeding, Listed, Cleared
<1>12. Past'
  BY <1>2 DEF IInv, Past
<1>13. Recent'
  BY <1>1, <1>2 DEF IInv, Recent, RecentOf, Moved, Floor, State, Initialising, Drawing, Seeding
<1>14. Young'
  BY <1>1, <1>2 DEF IInv, Young, Moved, Ended
<1> QED
  BY <1>5, <1>6, <1>7, <1>8, <1>9, <1>10, <1>11, <1>12, <1>13, <1>14 DEF IInv

\* An entropy source is zeroised.
LEMMA ZeroizeOneKeeps ==
  ASSUME IInv, NEW t \in Threads, ZeroizeOne(t) PROVE IInv'
<1>1. pc[t] = "zeroize" /\ pos[t] # Null
      /\ UNCHANGED <<era, available, aborted, head, next, previous, stage, listLock, shutdown,
                     writer, reading, drbg, calls, gn, pc, key, fresh, must, seed, pr, left, out,
                     begun, todo>>
  BY DEF ZeroizeOne, env, list, locks, locals
<1>2. /\ listLock = t /\ shutdown /\ \A u \in Threads \ {t} : pc[u] \notin Clearing
      /\ pos[t] \in Nodes /\ stage[pos[t]] = "listed"
  BY <1>1 DEF IInv, ListLock, Clearing, TypeOK
<1>3. /\ source' \in [Nodes -> {"none", "live", "zeroized"}]
      /\ Updated(source, source', Nodes, pos[t], "zeroized")
  BY DEF ZeroizeOne, IInv, TypeOK, Updated
<1>4. pos' \in [Threads -> Nodes \cup {Null}] /\ Updated(pos, pos', Threads, t, next[pos[t]])
  BY DEF ZeroizeOne, IInv, TypeOK, Updated
<1>5. TypeOK'
  BY <1>1, <1>3, <1>4 DEF IInv, TypeOK
<1>6. Counted'
  BY <1>1 DEF IInv, Counted
<1>7. Owned'
  BY <1>1 DEF IInv, Owned, State
<1>8. ClearLock'
  BY <1>1 DEF IInv, ClearLock, State
<1>9. ListLock'
  BY LinksListed, <1>1, <1>2, <1>4 DEF IInv, ListLock, Updated
<1>10. Chained'
  BY LoopGoesOn, <1>1, <1>2, <1>3, <1>4 DEF IInv, Updated
<1>11. Wiped'
  BY StateInNodes, <1>1, <1>2, <1>3 DEF IInv, Wiped, Updated, State, Listed, Cleared
<1>12. Past'
  BY <1>1 DEF IInv, Past
<1>13. Recent'
  BY <1>1 DEF IInv, Recent, RecentOf, Floor, State
<1>14. Young'
  BY <1>1 DEF IInv, Young
<1> QED
  BY <1>5, <1>6, <1>7, <1>8, <1>9, <1>10, <1>11, <1>12, <1>13, <1>14 DEF IInv

\* The list is unlocked.
LEMMA ClearEndKeeps ==
  ASSUME IInv, NEW t \in Threads, ClearEnd(t) PROVE IInv'
<1>1. Moved(t, "idle") /\ pc' \in [Threads -> PCs]
  BY GotoMoves DEF ClearEnd, PCs, IInv
<1>2. pc[t] = "zeroize" /\ pos[t] = Null
      /\ UNCHANGED <<era, available, aborted, head, next, previous, stage, shutdown, writer,
                     reading, drbg, calls, gn, source, key, fresh, must, seed, pr, left, out,
                     begun, pos, todo>>
  BY DEF ClearEnd, env, list, state, locals, exits
<1>3. listLock' = NoThread
  BY DEF ClearEnd
<1>4. TypeOK'
  BY <1>1, <1>2, <1>3 DEF IInv, TypeOK
<1>5. Counted'
  BY <1>1, <1>2 DEF IInv, Counted, Moved, Initialising, InCall
<1>6. Owned'
  BY <1>1, <1>2 DEF IInv, Owned, Moved, Initialising, InCall, Ended, State
<1>7. ClearLock'
  BY <1>1, <1>2 DEF IInv, ClearLock, Moved, Using, State
<1>8. ListLock'
  BY <1>1, <1>2, <1>3 DEF IInv, ListLock, Moved, Clearing
<1>9. Chained'
  BY ChainKept, <1>1, <1>2 DEF IInv, Clearing, Moved
<1>10. Wiped'
  BY LoopDone, <1>1, <1>2 DEF IInv, Wiped, Moved, State, Seeding, Listed
<1>11. Past'
  BY <1>2 DEF IInv, Past
<1>12. Recent'
  BY <1>1, <1>2 DEF IInv, Recent, RecentOf, Moved, Floor, State, Initialising, Drawing, Seeding
<1>13. Young'
  BY <1>1, <1>2 DEF IInv, Young, Moved, Ended
<1> QED
  BY <1>4, <1>5, <1>6, <1>7, <1>8, <1>9, <1>10, <1>11, <1>12, <1>13 DEF IInv


\* A uniqueness-breaking event, or abort(), changes nothing else.
LEMMA EnvKeeps ==
  ASSUME IInv, era' \in 1..MaxEras, era <= era', aborted' \in {"no", "ube", "lock"},
         UNCHANGED <<available, list, locks, reading, state, pc, locals, exits>>
  PROVE  IInv'
<1>1. UNCHANGED <<available, head, next, previous, stage, listLock, shutdown, writer, reading,
                  drbg, calls, gn, source, pc, key, fresh, must, seed, pr, left, out, begun,
                  pos, todo>>
  BY DEF list, locks, state, locals, exits
<1>2. TypeOK' /\ Counted'
  BY <1>1 DEF IInv, TypeOK, Counted
<1>3. Owned' /\ ClearLock' /\ ListLock'
  BY <1>1 DEF IInv, Owned, ClearLock, ListLock, State
<1>4. Chained'
  BY <1>1, ChainKept DEF IInv
<1>5. Wiped'
  BY <1>1 DEF IInv, Wiped, State, Listed, Cleared
<1>6. Past'
  BY <1>1, Numbers DEF IInv, Past
<1>7. Recent'
  BY <1>1, RecentKept DEF IInv, Recent
<1>8. Young'
  BY <1>1 DEF IInv, Young
<1> QED
  BY <1>2, <1>3, <1>4, <1>5, <1>6, <1>7, <1>8 DEF IInv

\* A VM clone.
LEMMA VmCloneKeeps == ASSUME IInv, VmClone PROVE IInv'
<1>1. era \in 1..MaxEras /\ era < MaxEras /\ era' = era + 1 /\ MaxEras \in Nat
  BY RandAssumption DEF VmClone, IInv, TypeOK
<1>2. aborted' \in {"no", "ube", "lock"}
  BY DEF VmClone, IInv, TypeOK
<1>3. UNCHANGED <<available, list, locks, reading, state, pc, locals, exits>>
  BY DEF VmClone
<1> QED
  BY <1>1, <1>2, <1>3, EnvKeeps

\* abort() in CRYPTO_MUTEX_lock_read.
LEMMA AbortInLockKeeps == ASSUME IInv, NEW t \in Threads, AbortInLock(t) PROVE IInv'
<1>1. era \in 1..MaxEras /\ era' = era /\ MaxEras \in Nat /\ aborted' = "lock"
  BY RandAssumption DEF AbortInLock, IInv, TypeOK
<1>2. UNCHANGED <<available, list, locks, reading, state, pc, locals, exits>>
  BY DEF AbortInLock
<1> QED
  BY <1>1, <1>2, EnvKeeps

\* In the child of a fork the other threads are gone.
LEMMA ForkKeeps ==
  ASSUME IInv, NEW t \in Threads, Fork(t) PROVE IInv'
<1>1. pc' \in [Threads -> PCs] /\ pc'[t] = "idle" /\ \A u \in Threads \ {t} : pc'[u] = "gone"
  BY DEF Fork, PCs
<1>2. pc[t] = "idle" /\ era < MaxEras /\ era' = era + 1
      /\ UNCHANGED <<available, aborted, head, next, previous, stage, listLock, shutdown, writer,
                     reading, drbg, calls, gn, source, key, fresh, must, seed, pr, left, out,
                     begun, pos, todo>>
  BY DEF Fork, list, locks, state, locals, exits
<1>3. era' \in 1..MaxEras
  BY <1>2, Numbers DEF IInv
<1>4. TypeOK'
  BY <1>1, <1>2, <1>3 DEF IInv, TypeOK
<1>5. Counted'
  BY <1>1 DEF Counted, Initialising, InCall
<1>6. Owned'
  BY <1>1, <1>2 DEF IInv, Owned, Initialising, InCall, Ended
<1>7. ClearLock'
  BY <1>1, <1>2 DEF IInv, ClearLock, Using
<1>8. ListLock'
  BY <1>1, <1>2 DEF IInv, TypeOK, ListLock, Clearing
<1>9. Chained'
  BY ChainKept, <1>1, <1>2 DEF IInv, Clearing
<1>10. Wiped'
  BY <1>1, <1>2 DEF IInv, Wiped, Seeding, Listed, Cleared
<1>11. Past'
  BY Numbers, <1>2 DEF IInv, Past
<1>12. Recent'
  BY <1>1, <1>2 DEF IInv, Recent, RecentOf, Initialising, Drawing, Seeding
<1>13. Young'
  BY <1>1, <1>2 DEF IInv, Young, Ended
<1> QED
  BY <1>4, <1>5, <1>6, <1>7, <1>8, <1>9, <1>10, <1>11, <1>12, <1>13 DEF IInv

\* A call starts; the first one allocates the state.
LEMMA RAND_bytesKeeps ==
  ASSUME IInv, NEW t \in Threads, NEW k \in Keys, NEW c \in 1..MaxChunks, RAND_bytes(t, k, c)
  PROVE  IInv'
<1> DEFINE n == <<t, k>>
<1>1. n \in Nodes
  BY StateInNodes DEF IInv
<1>2. pc' \in [Threads -> PCs] /\ Moved(t, IF stage[n] = "none" THEN "init_gn" ELSE "unique")
  BY GotoMoves DEF RAND_bytes, PCs, IInv
<1>3. pc[t] = "idle"
      /\ UNCHANGED <<era, available, aborted, head, next, previous, listLock, shutdown, writer,
                     reading, drbg, calls, gn, source, must, seed, pr, pos, todo>>
  BY DEF RAND_bytes, env, locks, state, exits
<1>4. /\ stage[n] \in {"none", "listed", "late"} /\ ~must[t]
      /\ \A l \in Keys : ~reading[<<t, l>>] /\ stage[<<t, l>>] \notin {"unlisted", "freed"}
  <2>1. stage[n] \in Stages
    BY <1>1 DEF IInv, TypeOK
  <2>2. \A l \in Keys : stage[<<t, l>>] \notin {"unlisted", "freed"}
    BY <1>3 DEF IInv, Owned, Ended, Initialising
  <2>3. \A l \in Keys : ~reading[<<t, l>>]
    BY <1>3 DEF IInv, ClearLock, Using
  <2>4. ~must[t]
    BY <1>3 DEF IInv, Recent, RecentOf, Drawing
  <2> QED
    BY <2>1, <2>2, <2>3, <2>4 DEF Stages
<1>5. stage' \in [Nodes -> Stages]
      /\ Updated(stage, stage', Nodes, n, IF stage[n] = "none" THEN "unlisted" ELSE stage[n])
  BY <1>1 DEF RAND_bytes, IInv, TypeOK, Stages, Updated
<1>6. fresh' \in [Threads -> BOOLEAN] /\ Updated(fresh, fresh', Threads, t, stage[n] = "none")
  BY DEF RAND_bytes, IInv, TypeOK, Updated
<1>7. key' \in [Threads -> Keys] /\ Updated(key, key', Threads, t, k)
  BY DEF RAND_bytes, IInv, TypeOK, Updated
<1>8. left' \in [Threads -> 0..MaxChunks] /\ Updated(left, left', Threads, t, c)
  BY DEF RAND_bytes, IInv, TypeOK, Updated
<1>9. out' \in [Threads -> 0..MaxEras] /\ Updated(out, out', Threads, t, MaxEras)
  BY RandAssumption DEF RAND_bytes, IInv, TypeOK, Updated
<1>10. begun' \in [Threads -> 0..MaxEras] /\ Updated(begun, begun', Threads, t, era)
  BY DEF RAND_bytes, IInv, TypeOK, Updated
<1> HIDE DEF n
<1>11. State(t)' = n /\ \A u \in Threads \ {t} : State(u)' = State(u) /\ State(u) # n
  BY <1>7 DEF State, Updated, n
<1>12. TypeOK'
  BY <1>2, <1>3, <1>5, <1>6, <1>7, <1>8, <1>9, <1>10 DEF IInv, TypeOK
<1>13. Counted'
  BY <1>2, <1>8 DEF IInv, Counted, Moved, Updated
<1>14. Owned'
  <2>1. ASSUME NEW u \in Threads
        PROVE  /\ pc'[u] \in Initialising => stage'[State(u)'] = "unlisted"
               /\ pc'[u] \in InCall => stage'[State(u)'] \in {"listed", "late"}
    BY StateInNodes, <1>2, <1>4, <1>5, <1>11 DEF IInv, Owned, Moved, Updated, Initialising, InCall
  <2>2. ASSUME NEW u \in Threads, NEW l \in Keys
        PROVE  /\ stage'[<<u, l>>] = "unlisted"
                    => pc'[u] \in Ended \/ (pc'[u] \in Initialising /\ key'[u] = l)
               /\ stage'[<<u, l>>] = "freed" => pc'[u] \in Ended
               /\ pc'[u] = "exit" /\ l \in todo[u] => stage'[<<u, l>>] \notin {"none", "freed"}
    <3>1. CASE u = t
      <4>1. pc'[t] # "exit" /\ key'[t] = k /\ <<t, l>> \in Nodes
        BY StateInNodes, <1>2, <1>7 DEF Moved, Updated, IInv
      <4>2. CASE l = k
        BY <1>2, <1>4, <1>5, <3>1, <4>1, <4>2 DEF Moved, Updated, Initialising
      <4>3. CASE l # k
        <5>1. <<t, l>> # n
          BY <4>3 DEF n
        <5> QED
          BY <1>4, <1>5, <3>1, <4>1, <5>1 DEF Updated
      <4> QED
        BY <4>2, <4>3
    <3>2. CASE u # t
      <4>1. <<u, l>> \in Nodes \ {n}
        BY StateInNodes, <3>2 DEF n, IInv
      <4> QED
        BY <1>2, <1>5, <1>7, <3>2, <4>1 DEF IInv, Owned, Moved, Updated
    <3> QED
      BY <3>1, <3>2
  <2>3. ASSUME NEW m \in Nodes, stage'[m] \in {"none", "unlisted"} PROVE next[m] = Null /\ previous[m] = Null
    BY <1>5, <2>3 DEF IInv, Owned, Updated
  <2> QED
    BY <1>3, <2>1, <2>2, <2>3 DEF Owned
<1>15. ClearLock'
  <2>1. ASSUME NEW u \in Threads, NEW l \in Keys, reading[<<u, l>>]
        PROVE  pc'[u] = "gone" \/ (pc'[u] \in Using /\ key'[u] = l)
    BY <1>2, <1>4, <1>7, <2>1 DEF IInv, ClearLock, Moved, Updated
  <2>2. ASSUME NEW u \in Threads, pc'[u] \in Using PROVE reading[State(u)']
    BY <1>2, <1>11, <2>2 DEF IInv, ClearLock, Moved, Using
  <2>3. ASSUME NEW m \in Nodes
        PROVE  /\ reading[m] => stage'[m] = "listed" /\ writer[m] = NoThread
               /\ writer[m] # NoThread => shutdown /\ stage'[m] \in {"listed", "late"}
               /\ stage'[m] = "late" => writer[m] # NoThread
    BY <1>5 DEF IInv, ClearLock, Updated
  <2> QED
    BY <1>3, <2>1, <2>2, <2>3 DEF ClearLock
<1>16. ListLock'
  BY <1>2, <1>3, <1>5 DEF IInv, TypeOK, ListLock, Clearing, Moved, Updated
<1>17. Chained'
  BY ChainKept, <1>2, <1>3, <1>5 DEF IInv, Clearing, Moved, Updated
<1>18. Wiped'
  <2>1. \A m \in Nodes : /\ stage'[m] = "listed" => stage[m] = "listed"
                         /\ stage'[m] = "late" => stage[m] = "late"
    BY <1>5 DEF Updated
  <2>2. \A u \in Threads : pc'[u] \in Seeding \cup {"add"} => source[State(u)'] # "none"
    BY <1>2, <1>11 DEF Moved, Seeding, IInv, Wiped
  <2>3. \A u \in Threads : pc'[u] = "zeroize" => pc[u] = "zeroize"
    BY <1>2 DEF Moved
  <2> QED
    BY <1>3, <2>1, <2>2, <2>3 DEF IInv, Wiped, Listed, Cleared
<1>19. Past'
  BY <1>3, <1>10 DEF IInv, Past, Updated
<1>20. Recent'
  <2>1. ASSUME NEW u \in Threads \ {t} PROVE RecentOf(u)'
    BY RecentKept, <1>2, <1>3, <1>6, <1>7, <1>9, <1>10 DEF IInv, Recent, Moved, Updated
  <2>2. RecentOf(t)'
    <3>1. pc'[t] = "init_gn" \/ (pc'[t] = "unique" /\ ~fresh'[t])
      BY <1>2, <1>6 DEF Moved, Updated
    <3>2. ~must'[t] /\ out'[t] = MaxEras
      BY <1>3, <1>4, <1>9 DEF Updated
    <3> QED
      BY <3>1, <3>2 DEF RecentOf, Drawing, Seeding
  <2> QED
    BY <2>1, <2>2 DEF Recent
<1>21. Young'
  <2> SUFFICES ASSUME available, NEW u \in Threads, NEW l \in Keys, stage'[<<u, l>>] = "listed",
                      pc'[u] \notin Ended, ~(must[u] /\ key'[u] = l)
               PROVE  gn[<<u, l>>] + 1 <= drbg[<<u, l>>] \/ writer[<<u, l>>] # NoThread
    BY <1>3 DEF Young
  <2>1. stage[<<u, l>>] = "listed"
    BY StateInNodes, <1>5 DEF Updated, IInv
  <2>2. pc[u] \notin Ended /\ ~(must[u] /\ key[u] = l)
    BY <1>2, <1>3, <1>4, <1>7 DEF Moved, Updated, Ended
  <2> QED
    BY <2>1, <2>2 DEF IInv, Young
<1> QED
  BY <1>12, <1>13, <1>14, <1>15, <1>16, <1>17, <1>18, <1>19, <1>20, <1>21 DEF IInv

\* A new state is registered, or locked for ever when shutdown has started.
LEMMA thread_local_list_add_nodeKeeps ==
  ASSUME IInv, NEW t \in Threads, thread_local_list_add_node(t) PROVE IInv'
<1> DEFINE n == State(t)
<1>1. n \in Nodes
  BY StateInNodes DEF IInv
<1>2. Moved(t, "unique") /\ pc' \in [Threads -> PCs]
  BY GotoMoves DEF thread_local_list_add_node, PCs, IInv
<1>3. pc[t] = "add" /\ listLock = NoThread
      /\ UNCHANGED <<era, available, aborted, listLock, shutdown, reading, drbg, calls, gn,
                     source, key, fresh, must, seed, pr, left, out, begun, pos, todo>>
  BY DEF thread_local_list_add_node, env, state, locals, exits
<1>4. /\ stage[n] = "unlisted" /\ \A u \in Threads : pc[u] \notin Clearing
      /\ ~reading[n] /\ writer[n] = NoThread /\ source[n] # "none" /\ source[n] # "zeroized"
      /\ ~must[t]
  <2>1. stage[n] = "unlisted"
    BY <1>3 DEF IInv, Owned, Initialising
  <2>2. ~reading[n] /\ writer[n] = NoThread
    BY <1>1, <2>1 DEF IInv, ClearLock
  <2>3. source[n] # "none" /\ source[n] # "zeroized"
    BY <1>1, <1>3, <2>2 DEF IInv, Wiped
  <2>4. \A u \in Threads : pc[u] \notin Clearing
    BY <1>3, RandAssumption DEF IInv, ListLock
  <2>5. ~must[t]
    BY <1>3 DEF IInv, Recent, RecentOf, Drawing
  <2> QED
    BY <2>1, <2>2, <2>3, <2>4, <2>5
<1>5. stage' \in [Nodes -> Stages]
      /\ Updated(stage, stage', Nodes, n, IF shutdown THEN "late" ELSE "listed")
  BY <1>1 DEF thread_local_list_add_node, IInv, TypeOK, Stages, Updated
<1>6. writer' \in [Nodes -> Threads \cup {NoThread}]
      /\ Updated(writer, writer', Nodes, n, IF shutdown THEN t ELSE NoThread)
  BY <1>1, <1>4 DEF thread_local_list_add_node, IInv, TypeOK, Updated
<1>7. head' \in Nodes \cup {Null} /\ next' \in [Nodes -> Nodes \cup {Null}]
      /\ previous' \in [Nodes -> Nodes \cup {Null}]
  BY <1>1 DEF thread_local_list_add_node, IInv, TypeOK
<1>8. \A m \in Nodes : stage[m] \in {"none", "unlisted"} /\ m # n
        => next'[m] = next[m] /\ previous'[m] = previous[m]
  <2>1. head # Null => stage[head] = "listed"
    BY LinksListed DEF IInv
  <2>2. \A m \in Nodes : stage[m] \in {"none", "unlisted"} => m # head
    BY <2>1, RandAssumption
  <2> QED
    BY <2>2 DEF thread_local_list_add_node, IInv, TypeOK
<1>9. Chained'
  <2>1. CASE shutdown
    <3>1. head' = head /\ next' = next /\ \A m \in Nodes \ {n} : previous'[m] = previous[m]
      BY <2>1 DEF thread_local_list_add_node, IInv, TypeOK
    <3>2. \A m \in Nodes : stage'[m] = "listed" <=> stage[m] = "listed"
      BY <1>4, <1>5, <2>1 DEF Updated
    <3>3. Listed' = Listed /\ n \notin Listed /\ Listed \subseteq Nodes
      BY <1>4, <3>2 DEF Listed
    <3>4. PICK order \in [Listed -> 1..Cardinality(Listed)] : InOrder(order)
      BY DEF IInv, Chained
    <3>5. InOrder(order)'
      BY <3>1, <3>3, <3>4 DEF InOrder
    <3>6. \A u \in Threads : pc'[u] \notin Clearing
      BY <1>2, <1>4 DEF Moved, Clearing
    <3> QED
      BY <3>3, <3>5, <3>6, ChainIntro
  <2>2. CASE ~shutdown
    <3>1. \A u \in Threads : pc'[u] \notin Clearing
      BY <1>2, <1>4 DEF Moved, Clearing
    <3>2. /\ stage' = [stage EXCEPT ![n] = "listed"]
          /\ next' = [next EXCEPT ![n] = head]
          /\ previous' = [m \in Nodes |-> IF m = n THEN Null ELSE IF m = head THEN n ELSE previous[m]]
          /\ head' = n
      BY <2>2 DEF thread_local_list_add_node
    <3> QED
      BY <1>1, <1>4, <3>1, <3>2, ChainGrows DEF IInv
  <2> QED
    BY <2>1, <2>2
<1> HIDE DEF n
<1>10. n = State(t) /\ \A u \in Threads : State(u)' = State(u) /\ (u # t => State(u) # n)
  BY <1>3 DEF State, n
<1>11. TypeOK'
  BY <1>2, <1>3, <1>5, <1>6, <1>7 DEF IInv, TypeOK
<1>12. Counted'
  BY <1>2, <1>3 DEF IInv, Counted, Moved, Initialising
<1>13. Owned'
  <2>1. ASSUME NEW u \in Threads
        PROVE  /\ pc'[u] \in Initialising => stage'[State(u)'] = "unlisted"
               /\ pc'[u] \in InCall => stage'[State(u)'] \in {"listed", "late"}
    BY StateInNodes, <1>2, <1>5, <1>10 DEF IInv, Owned, Moved, Updated, Initialising
  <2>2. ASSUME NEW u \in Threads, NEW k \in Keys
        PROVE  /\ stage'[<<u, k>>] = "unlisted"
                    => pc'[u] \in Ended \/ (pc'[u] \in Initialising /\ key'[u] = k)
               /\ stage'[<<u, k>>] = "freed" => pc'[u] \in Ended
               /\ pc'[u] = "exit" /\ k \in todo[u] => stage'[<<u, k>>] \notin {"none", "freed"}
    <3>1. CASE <<u, k>> = n
      BY <1>5, <3>1 DEF Updated
    <3>2. CASE <<u, k>> # n
      <4>1. stage'[<<u, k>>] = stage[<<u, k>>]
        BY <1>5, <3>2, StateInNodes DEF Updated, IInv
      <4>2. u = t => k # key[t]
        BY <3>2, <1>10 DEF State
      <4> QED
        BY <1>2, <1>3, <4>1, <4>2 DEF IInv, Owned, Moved, Ended
    <3> QED
      BY <3>1, <3>2
  <2>3. ASSUME NEW m \in Nodes, stage'[m] \in {"none", "unlisted"}
        PROVE  next'[m] = Null /\ previous'[m] = Null
    BY <1>5, <1>8, <2>3 DEF IInv, Owned, Updated
  <2> QED
    BY <1>3, <2>1, <2>2, <2>3 DEF Owned
<1>14. ClearLock'
  <2>1. ASSUME NEW u \in Threads, NEW k \in Keys, reading[<<u, k>>]
        PROVE  pc'[u] = "gone" \/ (pc'[u] \in Using /\ key[u] = k)
    BY <1>2, <1>3, <2>1 DEF IInv, ClearLock, Moved, Using
  <2>2. ASSUME NEW u \in Threads, pc'[u] \in Using PROVE reading[State(u)]
    BY <1>2, <2>2 DEF IInv, ClearLock, Moved, Using
  <2>3. ASSUME NEW m \in Nodes
        PROVE  /\ reading[m] => stage'[m] = "listed" /\ writer'[m] = NoThread
               /\ writer'[m] # NoThread => shutdown /\ stage'[m] \in {"listed", "late"}
               /\ stage'[m] = "late" => writer'[m] # NoThread
    BY RandAssumption, <1>4, <1>5, <1>6 DEF IInv, ClearLock, Updated
  <2> QED
    BY <1>3, <1>10, <2>1, <2>2, <2>3 DEF ClearLock
<1>15. ListLock'
  BY <1>2, <1>3, <1>4, <1>5 DEF IInv, TypeOK, ListLock, Clearing, Moved, Updated
<1>16. Wiped'
  <2>1. ASSUME NEW m \in Nodes
        PROVE  /\ stage'[m] = "listed" /\ writer'[m] # NoThread => drbg[m] = 0
               /\ source[m] = "zeroized" => writer'[m] # NoThread
               /\ stage'[m] \in {"listed", "late"} => source[m] # "none"
    BY <1>4, <1>5, <1>6 DEF IInv, Wiped, Updated
  <2>2. \A u \in Threads : /\ pc'[u] # "zeroize"
                           /\ pc'[u] \in Seeding \cup {"add"} => source[State(u)] # "none"
    BY <1>2, <1>4 DEF Moved, Seeding, Clearing, IInv, Wiped
  <2>3. Cleared' => \A m \in Listed' : writer'[m] # NoThread /\ source[m] = "zeroized"
    <3> SUFFICES ASSUME Cleared', NEW m \in Listed' PROVE writer'[m] # NoThread /\ source[m] = "zeroized"
      OBVIOUS
    <3>1. shutdown /\ Cleared
      BY <1>3 DEF Cleared
    <3>2. m \in Listed /\ m # n /\ writer'[m] = writer[m]
      BY <1>5, <1>6, <3>1 DEF Listed, Updated
    <3> QED
      BY <3>1, <3>2 DEF IInv, Wiped
  <2> QED
    BY <1>3, <1>10, <2>1, <2>2, <2>3 DEF Wiped
<1>17. Past'
  BY <1>3 DEF IInv, Past
<1>18. Recent'
  <2>1. ASSUME NEW u \in Threads \ {t} PROVE RecentOf(u)'
    BY RecentKept, StateInNodes, <1>2, <1>3, <1>6, <1>10 DEF IInv, Recent, Moved, Updated
  <2>2. RecentOf(t)'
    <3>1. pc'[t] = "unique" /\ ~must'[t] /\ out'[t] = MaxEras
      BY <1>2, <1>3, <1>4 DEF Moved, IInv, Recent, RecentOf, Initialising
    <3>2. ~available' => begun'[t] <= drbg'[State(t)']
      BY <1>3, <1>10 DEF IInv, Recent, RecentOf, Floor
    <3> QED
      BY <3>1, <3>2 DEF RecentOf, Drawing, Seeding
  <2> QED
    BY <2>1, <2>2 DEF Recent
<1>19. Young'
  <2> SUFFICES ASSUME available, NEW u \in Threads, NEW k \in Keys, stage'[<<u, k>>] = "listed",
                      pc'[u] \notin Ended, ~(must[u] /\ key[u] = k)
               PROVE  gn[<<u, k>>] + 1 <= drbg[<<u, k>>] \/ writer'[<<u, k>>] # NoThread
    BY <1>3 DEF Young
  <2>1. CASE <<u, k>> = n
    BY <1>3, <1>10, <2>1 DEF IInv, Recent, RecentOf, Floor
  <2>2. CASE <<u, k>> # n
    <3>1. stage[<<u, k>>] = "listed" /\ writer'[<<u, k>>] = writer[<<u, k>>]
      BY StateInNodes, <1>5, <1>6, <2>2 DEF Updated, IInv
    <3>2. pc[u] \notin Ended
      BY <1>2, <1>3 DEF Moved, Ended
    <3> QED
      BY <3>1, <3>2 DEF IInv, Young
  <2> QED
    BY <2>1, <2>2
<1> QED
  BY <1>11, <1>12, <1>13, <1>14, <1>15, <1>9, <1>16, <1>17, <1>18, <1>19 DEF IInv

\* The bytes are the caller's, or the process aborts.
LEMMA rand_ensure_valid_stateKeeps ==
  ASSUME IInv, NEW t \in Threads, rand_ensure_valid_state(t) PROVE IInv'
<1>1. CASE aborted' = "ube" /\ UNCHANGED <<reading, pc, fresh, out, begun>>
  <2>1. era \in 1..MaxEras /\ era' = era /\ MaxEras \in Nat
    BY RandAssumption DEF rand_ensure_valid_state, IInv, TypeOK
  <2>2. UNCHANGED <<available, list, locks, reading, state, pc, locals, exits>>
    BY <1>1 DEF rand_ensure_valid_state, locals
  <2> QED
    BY <1>1, <2>1, <2>2, EnvKeeps
<1>2. CASE /\ reading' = [reading EXCEPT ![State(t)] = FALSE]
           /\ fresh' = [fresh EXCEPT ![t] = FALSE]
           /\ out' = [out EXCEPT ![t] = 0]
           /\ begun' = [begun EXCEPT ![t] = 0]
           /\ Goto(t, "idle")
           /\ aborted' = aborted
  <2>1. Moved(t, "idle") /\ pc' \in [Threads -> PCs]
    BY <1>2, GotoMoves DEF PCs, IInv
  <2>2. pc[t] = "valid"
        /\ UNCHANGED <<era, available, aborted, head, next, previous, stage, listLock, shutdown,
                       writer, drbg, calls, gn, source, key, must, seed, pr, left, pos, todo>>
    BY <1>2 DEF rand_ensure_valid_state, list, locks, state, exits
  <2>a. reading' \in [Nodes -> BOOLEAN] /\ Updated(reading, reading', Nodes, State(t), FALSE)
    BY <1>2, StateInNodes DEF IInv, TypeOK, Updated
  <2>b. fresh' \in [Threads -> BOOLEAN]
    BY <1>2 DEF IInv, TypeOK
  <2>c. out' \in [Threads -> 0..MaxEras] /\ \A u \in Threads \ {t} : out'[u] = out[u]
    BY <1>2, RandAssumption DEF IInv, TypeOK
  <2>d. begun' \in [Threads -> 0..MaxEras] /\ Updated(begun, begun', Threads, t, 0)
    BY <1>2, RandAssumption DEF IInv, TypeOK, Updated
  <2>e. \A u \in Threads \ {t} : fresh'[u] = fresh[u]
    BY <1>2
  <2>4. TypeOK'
    BY <2>1, <2>2, <2>a, <2>b, <2>c, <2>d DEF IInv, TypeOK
  <2>5. Counted'
    BY <2>1, <2>2 DEF IInv, Counted, Moved, Initialising, InCall
  <2>6. Owned'
    BY <2>1, <2>2 DEF IInv, Owned, Moved, Initialising, InCall, Ended, State
  <2>7. ClearLock'
    BY StateInNodes, <2>1, <2>2, <2>a DEF IInv, ClearLock, Moved, Updated, Using, State
  <2>8. ListLock'
    BY <2>1, <2>2 DEF IInv, TypeOK, ListLock, Clearing, Moved
  <2>9. Chained'
    BY ChainKept, <2>1, <2>2 DEF IInv, Clearing, Moved
  <2>10. Wiped'
    BY <2>1, <2>2 DEF IInv, Wiped, Moved, State, Seeding, Listed, Cleared
  <2>11. Past'
    BY Numbers, <2>2, <2>d DEF IInv, Past, Updated
  <2>12. Recent'
    <3>1. ASSUME NEW u \in Threads \ {t} PROVE RecentOf(u)'
      BY RecentKept, <2>1, <2>2, <2>c, <2>d, <2>e DEF IInv, Recent, Moved, Updated
    <3>2. ~must[t]
      BY <2>2 DEF IInv, Recent, RecentOf
    <3>3. RecentOf(t)'
      BY <2>1, <2>2, <3>2 DEF RecentOf, Moved, Initialising, Drawing, Seeding
    <3> QED
      BY <3>1, <3>3 DEF Recent
  <2>13. Young'
    BY <2>1, <2>2 DEF IInv, Young, Moved, Ended
  <2> QED
    BY <2>4, <2>5, <2>6, <2>7, <2>8, <2>9, <2>10, <2>11, <2>12, <2>13 DEF IInv
<1> QED
  BY <1>1, <1>2 DEF rand_ensure_valid_state

\* The destructor of a state.
LEMMA rand_thread_local_state_freeKeeps ==
  ASSUME IInv, NEW t \in Threads, NEW k \in Keys, rand_thread_local_state_free(t, k) PROVE IInv'
<1> DEFINE n == <<t, k>>
<1>1. n \in Nodes
  BY StateInNodes DEF IInv
<1>2. pc[t] = "exit" /\ k \in todo[t] /\ listLock = NoThread
      /\ UNCHANGED <<era, available, aborted, listLock, shutdown, writer, reading, calls, gn, pc,
                     key, fresh, must, seed, pr, left, out, begun, pos>>
  BY DEF rand_thread_local_state_free, env, locks, state, locals
<1>3. /\ stage[n] \in {"unlisted", "listed", "late"} /\ ~reading[n]
      /\ \A u \in Threads : pc[u] \notin Clearing
  <2>1. stage[n] \in Stages \ {"none", "freed"}
    BY <1>1, <1>2 DEF IInv, TypeOK, Owned
  <2>2. ~reading[n]
    BY <1>2 DEF IInv, ClearLock, Using
  <2>3. \A u \in Threads : pc[u] \notin Clearing
    BY <1>2, RandAssumption DEF IInv, ListLock
  <2> QED
    BY <2>1, <2>2, <2>3 DEF Stages
<1>4. todo' \in [Threads -> SUBSET Keys]
      /\ \A u \in Threads : todo'[u] \subseteq todo[u]
      /\ k \notin todo'[t]
  BY DEF rand_thread_local_state_free, IInv, TypeOK
<1>5. shutdown => UNCHANGED <<head, next, previous, stage, drbg, source>>
  BY DEF rand_thread_local_state_free, list, state
<1>6. ~shutdown => /\ Unlink(n)
                   /\ stage' = [stage EXCEPT ![n] = "freed"]
                   /\ drbg' = [drbg EXCEPT ![n] = 0]
                   /\ source' = [source EXCEPT ![n] = "none"]
  BY DEF rand_thread_local_state_free
<1> HIDE DEF n
<1>7. /\ stage' \in [Nodes -> Stages] /\ drbg' \in [Nodes -> 0..MaxEras]
      /\ source' \in [Nodes -> {"none", "live", "zeroized"}]
      /\ head' \in Nodes \cup {Null} /\ next' \in [Nodes -> Nodes \cup {Null}]
      /\ previous' \in [Nodes -> Nodes \cup {Null}]
  <2>1. CASE shutdown
    BY <1>5, <2>1 DEF IInv, TypeOK
  <2>2. CASE ~shutdown
    BY <1>1, <1>6, <2>2, RandAssumption, SMTT(30) DEF IInv, TypeOK, Stages, Unlink
  <2> QED
    BY <2>1, <2>2
<1>8. \A m \in Nodes \ {n} : stage'[m] = stage[m] /\ drbg'[m] = drbg[m] /\ source'[m] = source[m]
  BY <1>5, <1>6 DEF IInv, TypeOK
<1>9. /\ shutdown => stage'[n] = stage[n] /\ drbg'[n] = drbg[n] /\ source'[n] = source[n]
      /\ ~shutdown => stage'[n] = "freed" /\ source'[n] = "none" /\ writer[n] = NoThread
  BY <1>1, <1>5, <1>6 DEF IInv, TypeOK, ClearLock
<1>10. ASSUME ~shutdown, stage[n] = "unlisted"
       PROVE  UNCHANGED <<head, next, previous>>
  <2>1. next[n] = Null /\ previous[n] = Null /\ Null \notin Nodes
    BY <1>1, <1>10, RandAssumption DEF IInv, Owned
  <2>2. head # n
    BY <1>1, <1>10, <2>1, LinksListed DEF IInv
  <2>3. head' = head
    BY <1>6, <1>10, <2>2 DEF Unlink
  <2>4. next' = [m \in Nodes |-> next[m]] /\ previous' = [m \in Nodes |-> previous[m]]
    BY <1>6, <1>10, <2>1 DEF Unlink
  <2> QED
    BY <2>3, <2>4 DEF IInv, TypeOK
<1>11. Chained'
  <2>1. CASE shutdown
    <3>1. UNCHANGED <<head, next, previous, stage, writer, source, pc, pos>>
      BY <1>2, <1>5, <2>1
    <3> QED
      BY <3>1, ChainKept DEF IInv
  <2>2. CASE ~shutdown /\ stage[n] = "listed"
    BY <1>1, <1>2, <1>3, <1>6, <2>2, ChainShrinks DEF IInv
  <2>3. CASE ~shutdown /\ stage[n] = "unlisted"
    <3>1. UNCHANGED <<head, next, previous>>
      BY <1>10, <2>3
    <3>2. \A m \in Nodes : stage[m] = "listed" <=> stage'[m] = "listed"
      BY <1>8, <1>9, <2>3
    <3>3. \A m \in Nodes : source[m] = "zeroized" => stage[m] # "listed" \/ source'[m] = "zeroized"
      BY <1>8, <2>3
    <3> QED
      BY <1>2, <3>1, <3>2, <3>3, ChainKept DEF IInv
  <2>4. stage[n] = "late" => shutdown
    BY <1>1 DEF IInv, ClearLock
  <2> QED
    BY <1>3, <2>1, <2>2, <2>3, <2>4
<1>12. \A m \in Nodes : stage[m] \in {"none", "unlisted"} => next'[m] = next[m] /\ previous'[m] = previous[m]
  <2>1. CASE shutdown
    BY <1>5, <2>1
  <2>2. CASE ~shutdown /\ stage[n] = "unlisted"
    BY <1>10, <2>2
  <2>3. CASE ~shutdown /\ stage[n] = "listed"
    <3>1. PICK order \in [Listed -> 1..Cardinality(Listed)] : InOrder(order)
      BY DEF IInv, Chained
    <3>2. n \in Listed
      BY <1>1, <2>3 DEF Listed
    <3>3. next[n] \in Listed \cup {Null} /\ previous[n] \in Listed \cup {Null}
      BY <3>1, <3>2 DEF InOrder
    <3>4. \A m \in Nodes : stage[m] \in {"none", "unlisted"} => m # next[n] /\ m # previous[n]
      BY <3>3, RandAssumption DEF Listed
    <3> QED
      BY <1>6, <2>3, <3>4 DEF Unlink
  <2>4. stage[n] = "late" => shutdown
    BY <1>1 DEF IInv, ClearLock
  <2> QED
    BY <1>3, <2>1, <2>2, <2>3, <2>4
<1>13. \A u \in Threads : /\ State(u)' = State(u)
                          /\ pc[u] \notin Ended => State(u) \in Nodes \ {n}
  <2>1. \A u \in Threads : State(u)' = State(u)
    BY <1>2 DEF State
  <2>2. \A u \in Threads : State(u) = n => u = t
    BY StateInNodes DEF IInv, n
  <2> QED
    BY <1>2, <2>1, <2>2, StateInNodes DEF Ended, IInv
<1>14. TypeOK'
  BY <1>2, <1>4, <1>7 DEF IInv, TypeOK
<1>15. Counted'
  BY <1>2 DEF IInv, Counted
<1>16. Owned'
  <2>1. ASSUME NEW u \in Threads
        PROVE  /\ pc[u] \in Initialising => stage'[State(u)] = "unlisted"
               /\ pc[u] \in InCall => stage'[State(u)] \in {"listed", "late"}
    BY <1>8, <1>13 DEF IInv, Owned, Initialising, InCall, Ended
  <2>2. ASSUME NEW u \in Threads, NEW l \in Keys
        PROVE  /\ stage'[<<u, l>>] = "unlisted"
                    => pc[u] \in Ended \/ (pc[u] \in Initialising /\ key[u] = l)
               /\ stage'[<<u, l>>] = "freed" => pc[u] \in Ended
               /\ pc[u] = "exit" /\ l \in todo'[u] => stage'[<<u, l>>] \notin {"none", "freed"}
    <3>1. CASE <<u, l>> = n
      <4>1. u = t /\ l = k
        BY <3>1 DEF n
      <4> QED
        BY <1>2, <1>4, <4>1 DEF Ended
    <3>2. CASE <<u, l>> # n
      <4>1. stage'[<<u, l>>] = stage[<<u, l>>]
        BY <1>8, <3>2, StateInNodes DEF IInv
      <4>2. l \in todo'[u] => l \in todo[u]
        BY <1>4
      <4> QED
        BY <4>1, <4>2 DEF IInv, Owned
    <3> QED
      BY <3>1, <3>2
  <2>3. ASSUME NEW m \in Nodes, stage'[m] \in {"none", "unlisted"}
        PROVE  next'[m] = Null /\ previous'[m] = Null
    <3>1. stage[m] \in {"none", "unlisted"}
      BY <1>8, <1>9, <2>3
    <3> QED
      BY <1>12, <3>1 DEF IInv, Owned
  <2> QED
    BY <1>2, <1>13, <2>1, <2>2, <2>3 DEF Owned
<1>17. ClearLock'
  <2>1. ASSUME NEW m \in Nodes
        PROVE  /\ reading[m] => stage'[m] = "listed" /\ writer[m] = NoThread
               /\ writer[m] # NoThread => shutdown /\ stage'[m] \in {"listed", "late"}
               /\ stage'[m] = "late" => writer[m] # NoThread
    BY <1>3, <1>8, <1>9 DEF IInv, ClearLock
  <2> QED
    BY <1>2, <1>13, <2>1 DEF IInv, ClearLock
<1>18. ListLock'
  <2>1. \A u \in Threads : pos[u] # Null => stage'[pos[u]] = "listed"
    BY <1>5 DEF IInv, ListLock
  <2> QED
    BY <1>2, <2>1 DEF IInv, ListLock
<1>19. Wiped'
  <2>1. ASSUME NEW m \in Nodes
        PROVE  /\ stage'[m] = "listed" /\ writer[m] # NoThread => drbg'[m] = 0
               /\ source'[m] = "zeroized" => writer[m] # NoThread
               /\ stage'[m] \in {"listed", "late"} => source'[m] # "none"
    BY <1>8, <1>9 DEF IInv, Wiped
  <2>2. \A u \in Threads : pc[u] \in Seeding \cup {"add"} => source'[State(u)] # "none"
    BY <1>8, <1>13 DEF IInv, Wiped, Seeding, Ended
  <2>3. \A u \in Threads : pc[u] # "zeroize"
    BY <1>3 DEF Clearing
  <2>4. Cleared' => \A m \in Listed' : writer[m] # NoThread /\ source'[m] = "zeroized"
    BY <1>2, <1>5 DEF Cleared, Listed, IInv, Wiped
  <2> QED
    BY <1>2, <1>13, <2>1, <2>2, <2>3, <2>4 DEF Wiped
<1>20. Past'
  BY <1>2 DEF IInv, Past
<1>21. Recent'
  <2> SUFFICES ASSUME NEW u \in Threads PROVE RecentOf(u)'
    BY DEF Recent
  <2>1. CASE pc[u] \in Ended
    BY <1>2, <2>1 DEF IInv, Recent, RecentOf, Ended, Drawing, Seeding
  <2>2. CASE pc[u] \notin Ended
    BY RecentKept, <1>2, <1>8, <1>13, <2>2 DEF IInv, Recent
  <2> QED
    BY <2>1, <2>2
<1>22. Young'
  <2> SUFFICES ASSUME available, NEW u \in Threads, NEW l \in Keys, stage'[<<u, l>>] = "listed",
                      pc[u] \notin Ended, ~(must[u] /\ key[u] = l)
               PROVE  gn[<<u, l>>] + 1 <= drbg'[<<u, l>>] \/ writer[<<u, l>>] # NoThread
    BY <1>2 DEF Young
  <2>1. <<u, l>> \in Nodes \ {n}
    BY <1>2, StateInNodes DEF Ended, IInv, n
  <2> QED
    BY <1>8, <2>1 DEF IInv, Young
<1> QED
  BY <1>14, <1>15, <1>16, <1>17, <1>18, <1>11, <1>19, <1>20, <1>21, <1>22 DEF IInv

-------------------------------------------------------------------------------
(* The theorems.                                                           *)

\* Before the first call.
LEMMA InitHolds == Init => IInv
<1> SUFFICES ASSUME Init PROVE IInv
  OBVIOUS
<1>1. /\ \A t \in Threads : /\ pc[t] = "idle" /\ pos[t] = Null /\ todo[t] = {} /\ ~must[t]
                            /\ begun[t] = 0
      /\ \A n \in Nodes : /\ stage[n] = "none" /\ ~reading[n] /\ writer[n] = NoThread
                          /\ source[n] = "none" /\ gn[n] = 0
  BY DEF Init
<1>2. TypeOK
  <2>1. (CHOOSE k \in Keys : TRUE) \in Keys
    BY RandAssumption
  <2>2. shutdown \in BOOLEAN /\ available \in BOOLEAN
    BY Zenon DEF Init
  <2> QED
    BY <2>2, RandAssumption DEF Init, TypeOK, PCs, Stages
<1>3. next = [n \in Nodes |-> Null] /\ previous = [n \in Nodes |-> Null] /\ listLock = NoThread
      /\ head = Null /\ shutdown = FALSE /\ era = 1
  BY DEF Init
<1>4. \A t \in Threads, k \in Keys : stage[<<t, k>>] = "none" /\ ~reading[<<t, k>>]
  BY <1>1, <1>2, StateInNodes
<1>5. Counted /\ Owned /\ ClearLock /\ ListLock
  <2> USE DEF Initialising, InCall, Using, Ended, Clearing
  <2>1. Counted
    BY <1>1 DEF Counted
  <2>2. Owned
    BY <1>1, <1>3, <1>4 DEF Owned
  <2>3. ClearLock
    BY <1>1, <1>4 DEF ClearLock
  <2>4. ListLock
    BY <1>1, <1>3 DEF ListLock
  <2> QED
    BY <2>1, <2>2, <2>3, <2>4
<1>6. Listed = {} /\ Cardinality(Listed) = 0
  BY <1>1, FS_EmptySet DEF Listed
<1>7. Chained
  <2>1. [n \in {} |-> 1] \in [Listed -> 1..Cardinality(Listed)]
    BY <1>6
  <2>2. InOrder([n \in {} |-> 1]) /\ Swept([n \in {} |-> 1])
    BY <1>6, <1>3 DEF InOrder, Swept
  <2> QED
    BY <2>1, <2>2 DEF Chained
<1>8. Wiped
  BY <1>1, <1>6 DEF Wiped, Seeding
<1>9. Past
  BY <1>1, <1>3 DEF Past
<1>10. Recent
  BY <1>1 DEF Recent, RecentOf, Initialising, Drawing, Seeding
<1>11. Young
  BY <1>4 DEF Young
<1> QED
  BY <1>2, <1>5, <1>7, <1>8, <1>9, <1>10, <1>11 DEF IInv

\* Every step keeps the invariant.
LEMMA NextKeeps == ASSUME IInv, [Next]_vars PROVE IInv'
<1>1. CASE UNCHANGED vars
  <2>1. era \in 1..MaxEras /\ MaxEras \in Nat /\ era' = era
    BY <1>1, RandAssumption DEF vars, env, IInv, TypeOK
  <2>2. aborted' \in {"no", "ube", "lock"}
    BY <1>1 DEF vars, env, IInv, TypeOK
  <2>3. UNCHANGED <<available, list, locks, reading, state, pc, locals, exits>>
    BY <1>1 DEF vars, env
  <2> QED
    BY <2>1, <2>2, <2>3, EnvKeeps
<1>2. CASE VmClone
  BY <1>2, VmCloneKeeps
<1>3. ASSUME NEW t \in Threads, Step(t) PROVE IInv'
  BY <1>3, InitGnKeeps, InitSourceKeeps, InitSeedKeeps, InitDrbgKeeps,
     thread_local_list_add_nodeKeeps, rand_check_ctr_drbg_uniquenessKeeps,
     rand_maybe_get_ctr_drbg_pred_resistanceKeeps, LockReadKeeps, AbortInLockKeeps,
     UnlockToReseedKeeps, rand_get_ctr_drbg_seed_entropyKeeps, rand_ctr_drbg_reseedKeeps,
     CTR_DRBG_generateKeeps, rand_ensure_valid_stateKeeps, rand_thread_local_state_freeKeeps,
     GoneKeeps, ClearOneKeeps, ClearedAllKeeps, ZeroizeOneKeeps, ClearEndKeeps DEF Step
<1>4. ASSUME NEW t \in Threads, Request(t) PROVE IInv'
  BY <1>4, RAND_bytesKeeps, ThreadExitKeeps, ClearStartKeeps, ForkKeeps DEF Request
<1> QED
  BY <1>1, <1>2, <1>3, <1>4 DEF Next

\* The invariant holds in every state.
THEOREM Invariant == Spec => []IInv
<1>1. Init => IInv
  BY InitHolds
<1>2. IInv /\ [Next]_vars => IInv'
  BY NextKeeps
<1> QED
  BY <1>1, <1>2, PTL DEF Spec

\* The list of DRBG states is sound: it reaches exactly the registered states, each once,
\* its links are inverse to each other and no traversal dangles, whichever threads
\* register, exit or are killed, and however shutdown and fork interleave with them.
THEOREM ListStaysSound == Spec => []ListSound
<1>1. IInv => ListSound
  <2> SUFFICES ASSUME IInv PROVE ListSound
    OBVIOUS
  <2>1. \E order \in [Listed -> 1..Cardinality(Listed)] : InOrder(order)
    BY DEF IInv, Chained
  <2>2. \A t \in Threads : pos[t] # Null => pos[t] \in Listed
    BY DEF IInv, TypeOK, ListLock, Listed
  <2> QED
    BY <2>1, <2>2 DEF IInv, ListSound
<1> QED
  BY <1>1, Invariant, PTL

\* When rand_thread_local_state_clear_all has returned, every registered DRBG and its
\* entropy source are zeroised, stay so, and no state is usable.
THEOREM ClearedMeansZeroised == Spec => []Zeroised
<1>1. IInv => Zeroised
  BY DEF IInv, Zeroised, Wiped, ClearLock, Listed
<1> QED
  BY <1>1, Invariant, PTL

\* No state is freed while its lock is held for reading or for writing.
THEOREM LockedIsNotFreed == Spec => []NoFreeWhileLocked
<1>1. IInv => NoFreeWhileLocked
  BY DEF IInv, NoFreeWhileLocked, ClearLock
<1> QED
  BY <1>1, Invariant, PTL

\* Only rand_ensure_valid_state hands bytes to the caller.
LEMMA ReleaseStep ==
  ASSUME TypeOK, Next, NEW t \in Threads, Releases(t)
  PROVE  /\ pc[t] = "valid"
         /\ available => gn[State(t)] = UbeNumber
<1>1. pc[t] = "valid" /\ pc'[t] = "idle"
  BY DEF Releases
<1>2. ASSUME VmClone PROVE FALSE
  BY <1>1, <1>2 DEF VmClone
<1>3. ASSUME NEW u \in Threads, Request(u) PROVE FALSE
  <2>1. CASE ThreadExit(u) \/ ClearStart(u) \/ \E k \in Keys, c \in 1..MaxChunks : RAND_bytes(u, k, c)
    BY <1>1, <2>1 DEF TypeOK, ThreadExit, ClearStart, RAND_bytes, Goto
  <2>2. CASE Fork(u)
    BY <1>1, <2>2 DEF Fork
  <2> QED
    BY <1>3, <2>1, <2>2 DEF Request
<1>4. ASSUME NEW u \in Threads, Step(u)
      PROVE  u = t /\ rand_ensure_valid_state(t) /\ pc' # pc
  <2>1. pc' # pc
    BY <1>1
  <2>2. CASE InitGn(u) \/ InitSource(u) \/ InitSeed(u) \/ InitDrbg(u) \/ thread_local_list_add_node(u)
    BY <1>1, <2>2 DEF TypeOK, InitGn, InitSource, InitSeed, InitDrbg, thread_local_list_add_node,
       Goto
  <2>3. CASE \/ rand_check_ctr_drbg_uniqueness(u) \/ rand_maybe_get_ctr_drbg_pred_resistance(u)
             \/ LockRead(u) \/ AbortInLock(u) \/ UnlockToReseed(u)
    BY <1>1, <2>3 DEF TypeOK, rand_check_ctr_drbg_uniqueness,
       rand_maybe_get_ctr_drbg_pred_resistance, LockRead, AbortInLock, UnlockToReseed, Goto
  <2>4. CASE \/ rand_get_ctr_drbg_seed_entropy(u) \/ rand_ctr_drbg_reseed(u) \/ CTR_DRBG_generate(u)
             \/ \E k \in Keys : rand_thread_local_state_free(u, k)
    BY <1>1, <2>4 DEF TypeOK, rand_get_ctr_drbg_seed_entropy, rand_ctr_drbg_reseed,
       CTR_DRBG_generate, rand_thread_local_state_free, Goto
  <2>5. CASE Gone(u) \/ ClearOne(u) \/ ClearedAll(u) \/ ZeroizeOne(u) \/ ClearEnd(u)
    BY <1>1, <2>5 DEF TypeOK, Gone, ClearOne, ClearedAll, ZeroizeOne, ClearEnd, Goto
  <2>6. CASE rand_ensure_valid_state(u)
    BY <1>1, <2>6 DEF TypeOK, rand_ensure_valid_state, Goto
  <2> QED
    BY <1>4, <2>2, <2>3, <2>4, <2>5, <2>6 DEF Step
<1>5. rand_ensure_valid_state(t) /\ pc' # pc
  BY <1>2, <1>3, <1>4 DEF Next
<1> QED
  BY <1>5 DEF rand_ensure_valid_state

\* No stuttering step hands bytes to the caller.
LEMMA StutterReleasesNothing ==
  ASSUME UNCHANGED vars, NEW t \in Threads PROVE ~Releases(t)
BY DEF vars, Releases

\* What RAND_bytes returns depends on entropy drawn after the last uniqueness-breaking
\* event, without UBE detection on entropy drawn since the call began, for any
\* interleaving of events, reseeds, shutdown and other threads.
THEOREM OutputStaysUnique == Spec => OutputUnique
<1>1. ASSUME IInv, [Next]_vars, NEW t \in Threads, Releases(t)
      PROVE  out[t] >= IF available THEN era ELSE begun[t]
  <2>1. pc[t] = "valid" /\ (available => gn[State(t)] = UbeNumber)
    BY <1>1, ReleaseStep, StutterReleasesNothing DEF IInv
  <2>2. Floor(t) <= out[t]
    BY <1>1, <2>1 DEF IInv, Recent, RecentOf, Drawing
  <2>3. Floor(t) = IF available THEN era ELSE begun[t]
    BY <1>1, <2>1, Numbers DEF Floor, UbeNumber, IInv
  <2> QED
    BY <2>2, <2>3
<1>2. IInv /\ [Next]_vars
        => [\A t \in Threads : Releases(t) => out[t] >= IF available THEN era ELSE begun[t]]_vars
  BY <1>1
<1> QED
  BY <1>2, Invariant, PTL DEF Spec, OutputUnique

\* No RAND_bytes returns output once rand_thread_local_state_clear_all has returned.
THEOREM NothingAfterClear == Spec => NoOutputAfterClear
<1>1. ASSUME IInv, [Next]_vars, NEW t \in Threads, Releases(t)
      PROVE  ~Cleared
  <2>1. pc[t] = "valid"
    BY <1>1 DEF Releases
  <2>2. State(t) \in Listed /\ writer[State(t)] = NoThread
    BY <1>1, <2>1, StateInNodes DEF IInv, ClearLock, Using, Listed
  <2> QED
    BY <1>1, <2>2 DEF IInv, Wiped
<1>2. IInv /\ [Next]_vars => [\A t \in Threads : Releases(t) => ~Cleared]_vars
  BY <1>1
<1> QED
  BY <1>2, Invariant, PTL DEF Spec, NoOutputAfterClear

===============================================================================
