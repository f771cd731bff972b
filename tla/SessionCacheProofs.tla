------------------------- MODULE SessionCacheProofs -------------------------
(***************************************************************************)
(* Proofs about SessionCache, for any number of connections, sessions and  *)
(* session IDs, any cache sizes, timeouts and intervals between flushes.   *)
(***************************************************************************)
EXTENDS SessionCache, FiniteSetTheorems, WellFoundedInduction, TLAPS

----------------------------------------------------------------------------
(* The cache as a value.                                                   *)

CacheRec ==
  [table : [Id -> Session \cup {Nil}], head : Session \cup {Nil},
   tail : Session \cup {Nil}, prev : [Session -> Link], next : [Session -> Link],
   refs : [Session -> Int]]

\* The sessions in the table of C.
In(C) == {s \in Session : \E i \in Id : C.table[i] = s}

\* The list of C holds exactly L: neighbours agree, both ends are right, and every
\* part of the list is left by some link, so that there is no cycle.
Chain(C, L) ==
  /\ \A s \in Session :
       /\ s \in L <=> C.next[s] # Nil
       /\ s \in L <=> C.prev[s] # Nil
       /\ C.next[s] # HeadEnd /\ C.prev[s] # TailEnd
       /\ C.next[s] \in Session => C.prev[C.next[s]] = s
       /\ C.prev[s] \in Session => C.next[C.prev[s]] = s
       /\ C.prev[s] = HeadEnd <=> C.head = s
       /\ C.next[s] = TailEnd <=> C.tail = s
  /\ C.head = Nil <=> L = {}
  /\ C.tail = Nil <=> L = {}
  /\ \A S \in SUBSET L : S # {} => \E s \in S : C.next[s] \notin S

\* s was created, and not in the future.
Known(s) == info[s] \in [id : Id, time : 1 .. MaxTime] /\ info[s].time <= now

\* The table finds a session under its own ID.
Indexed(C) == \A i \in Id : C.table[i] # Nil => Known(C.table[i]) /\ IdOf(C.table[i]) = i

\* What is sound about a cache whatever its reference counts.
Sound(C) == C \in CacheRec /\ Indexed(C) /\ Chain(C, In(C))

\* The references to s that are not the cache's own.
Outside(C, s) == C.refs[s] - (IF s \in In(C) THEN 1 ELSE 0)

----------------------------------------------------------------------------
(* The list.                                                               *)

\* The neighbours of a session in the list.
LEMMA Neighbours ==
  ASSUME NEW C \in CacheRec, NEW L \in SUBSET Session, Chain(C, L), NEW s \in L
  PROVE  /\ C.prev[s] \in L \cup {HeadEnd} /\ C.next[s] \in L \cup {TailEnd}
         /\ C.prev[s] # Nil /\ C.next[s] # Nil /\ C.prev[s] # s /\ C.next[s] # s
         /\ C.prev[s] \in Session => C.next[C.prev[s]] = s
         /\ C.next[s] \in Session => C.prev[C.next[s]] = s
<1>1. s \in Session /\ C.prev[s] \in Link /\ C.next[s] \in Link
  BY DEF CacheRec
<1>2. C.prev[s] # Nil /\ C.next[s] # Nil /\ C.prev[s] # TailEnd /\ C.next[s] # HeadEnd
  BY DEF Chain
<1>3. C.next[s] # s
  <2>1. {s} \in SUBSET L /\ {s} # {}
    OBVIOUS
  <2>2. PICK t \in {s} : C.next[t] \notin {s}
    BY <2>1 DEF Chain
  <2> QED BY <2>2
<1>4. C.prev[s] # s
  BY <1>3 DEF Chain
<1>5. C.next[s] \in Session => C.next[s] \in L
  BY CacheAssumption DEF Chain
<1>6. C.prev[s] \in Session => C.prev[s] \in L
  BY <1>1, CacheAssumption DEF Chain
<1> QED BY <1>1, <1>2, <1>3, <1>4, <1>5, <1>6 DEF Link, Chain

\* A session that is first and last is alone.
LEMMA Alone ==
  ASSUME NEW C \in CacheRec, NEW L \in SUBSET Session, Chain(C, L), NEW s \in L,
         C.prev[s] = HeadEnd, C.next[s] = TailEnd
  PROVE  L = {s}
<1> SUFFICES ASSUME L \ {s} # {} PROVE FALSE
  OBVIOUS
<1>1. PICK t \in L \ {s} : C.next[t] \notin L \ {s}
  BY DEF Chain
<1>2. C.next[t] \in L \cup {TailEnd}
  BY Neighbours
<1>3. CASE C.next[t] = TailEnd
  BY <1>3 DEF Chain
<1>4. CASE C.next[t] = s
  BY <1>1, <1>4, CacheAssumption DEF Chain
<1> QED BY <1>1, <1>2, <1>3, <1>4

\* What SSL_SESSION_list_remove does to the links, in all four of its cases.
LEMMA RemovedLinks ==
  ASSUME NEW C \in CacheRec, NEW L \in SUBSET Session, Chain(C, L), NEW s \in L,
         NEW D, D = SSL_SESSION_list_remove(C, s)
  PROVE  /\ D \in CacheRec
         /\ D.table = C.table /\ D.refs = C.refs
         /\ \A t \in Session :
              /\ D.next[t] = IF t = s THEN Nil ELSE IF t = C.prev[s] THEN C.next[s]
                             ELSE C.next[t]
              /\ D.prev[t] = IF t = s THEN Nil ELSE IF t = C.next[s] THEN C.prev[s]
                             ELSE C.prev[t]
         /\ D.head = IF C.prev[s] # HeadEnd THEN C.head
                     ELSE IF C.next[s] = TailEnd THEN Nil ELSE C.next[s]
         /\ D.tail = IF C.next[s] # TailEnd THEN C.tail
                     ELSE IF C.prev[s] = HeadEnd THEN Nil ELSE C.prev[s]
<1> DEFINE p == C.prev[s]
           n == C.next[s]
           cut == [C EXCEPT !.prev[s] = Nil, !.next[s] = Nil]
<1>1. /\ s \in Session
      /\ p \in Session \cup {HeadEnd} /\ n \in Session \cup {TailEnd}
      /\ p # Nil /\ n # Nil /\ p # s /\ n # s
  BY Neighbours
<1>2. /\ cut \in CacheRec /\ cut.table = C.table /\ cut.refs = C.refs
      /\ cut.head = C.head /\ cut.tail = C.tail
      /\ \A t \in Session : /\ cut.next[t] = IF t = s THEN Nil ELSE C.next[t]
                            /\ cut.prev[t] = IF t = s THEN Nil ELSE C.prev[t]
  BY DEF CacheRec, Link
<1>3. CASE n = TailEnd /\ p = HeadEnd
  <2>1. D = [cut EXCEPT !.head = Nil, !.tail = Nil]
    BY <1>3 DEF SSL_SESSION_list_remove
  <2> HIDE DEF cut
  <2>2. /\ D \in CacheRec /\ D.table = cut.table /\ D.refs = cut.refs
        /\ D.next = cut.next /\ D.prev = cut.prev /\ D.head = Nil /\ D.tail = Nil
    BY <1>2, <2>1 DEF CacheRec
  <2>3. \A t \in Session : t # p /\ t # n
    BY <1>3, CacheAssumption
  <2> QED BY <1>2, <1>3, <2>2, <2>3
<1>4. CASE n = TailEnd /\ p # HeadEnd
  <2>1. D = [cut EXCEPT !.tail = p, !.next[p] = TailEnd]
    BY <1>4 DEF SSL_SESSION_list_remove
  <2> HIDE DEF cut
  <2>2. /\ p \in Session \cup {HeadEnd} /\ n \in Session \cup {TailEnd}
        /\ DOMAIN cut.next = Session /\ DOMAIN cut.prev = Session
    BY <1>1, <1>2 DEF CacheRec
  <2>3. /\ D.table = cut.table /\ D.refs = cut.refs /\ D.head = cut.head /\ D.tail = p
        /\ D.next = [cut.next EXCEPT ![p] = TailEnd] /\ D.prev = cut.prev
    BY <2>1
  <2>4. D.next \in [Session -> Link] /\ D.prev \in [Session -> Link]
    BY <1>2, <2>2, <2>3, <1>4 DEF CacheRec
  <2>5. D \in CacheRec
    BY <1>1, <1>2, <1>4, <2>1, <2>4 DEF CacheRec
  <2> HIDE DEF p, n
  <2>6. \A t \in Session :
          /\ D.next[t] = IF t = s THEN Nil ELSE IF t = p THEN n ELSE C.next[t]
          /\ D.prev[t] = IF t = s THEN Nil ELSE IF t = n THEN p ELSE C.prev[t]
    BY <1>1, <1>2, <2>2, <2>3, <1>4, CacheAssumption
  <2>7. /\ D.head = IF p # HeadEnd THEN C.head ELSE IF n = TailEnd THEN Nil ELSE n
        /\ D.tail = IF n # TailEnd THEN C.tail ELSE IF p = HeadEnd THEN Nil ELSE p
    BY <1>2, <1>4, <2>3
  <2> QED BY <1>2, <2>3, <2>5, <2>6, <2>7 DEF p, n
<1>5. CASE n # TailEnd /\ p = HeadEnd
  <2>1. D = [cut EXCEPT !.head = n, !.prev[n] = HeadEnd]
    BY <1>5 DEF SSL_SESSION_list_remove
  <2> HIDE DEF cut
  <2>2. /\ p \in Session \cup {HeadEnd} /\ n \in Session \cup {TailEnd}
        /\ DOMAIN cut.next = Session /\ DOMAIN cut.prev = Session
    BY <1>1, <1>2 DEF CacheRec
  <2>3. /\ D.table = cut.table /\ D.refs = cut.refs /\ D.head = n /\ D.tail = cut.tail
        /\ D.next = cut.next /\ D.prev = [cut.prev EXCEPT ![n] = HeadEnd]
    BY <2>1
  <2>4. D.next \in [Session -> Link] /\ D.prev \in [Session -> Link]
    BY <1>2, <2>2, <2>3, <1>5 DEF CacheRec
  <2>5. D \in CacheRec
    BY <1>1, <1>2, <1>5, <2>1, <2>4 DEF CacheRec
  <2> HIDE DEF p, n
  <2>6. \A t \in Session :
          /\ D.next[t] = IF t = s THEN Nil ELSE IF t = p THEN n ELSE C.next[t]
          /\ D.prev[t] = IF t = s THEN Nil ELSE IF t = n THEN p ELSE C.prev[t]
    BY <1>1, <1>2, <2>2, <2>3, <1>5, CacheAssumption
  <2>7. /\ D.head = IF p # HeadEnd THEN C.head ELSE IF n = TailEnd THEN Nil ELSE n
        /\ D.tail = IF n # TailEnd THEN C.tail ELSE IF p = HeadEnd THEN Nil ELSE p
    BY <1>2, <1>5, <2>3
  <2> QED BY <1>2, <2>3, <2>5, <2>6, <2>7 DEF p, n
<1>6. CASE n # TailEnd /\ p # HeadEnd
  <2>1. D = [cut EXCEPT !.prev[n] = p, !.next[p] = n]
    BY <1>1, <1>6 DEF SSL_SESSION_list_remove
  <2> HIDE DEF cut
  <2>2. /\ p \in Session \cup {HeadEnd} /\ n \in Session \cup {TailEnd}
        /\ DOMAIN cut.next = Session /\ DOMAIN cut.prev = Session
    BY <1>1, <1>2 DEF CacheRec
  <2>3. /\ D.table = cut.table /\ D.refs = cut.refs /\ D.head = cut.head /\ D.tail = cut.tail
        /\ D.next = [cut.next EXCEPT ![p] = n] /\ D.prev = [cut.prev EXCEPT ![n] = p]
    BY <2>1
  <2>4. D.next \in [Session -> Link] /\ D.prev \in [Session -> Link]
    BY <1>2, <2>2, <2>3, <1>6 DEF CacheRec
  <2>5. D \in CacheRec
    BY <1>2, <2>1, <2>4 DEF CacheRec
  <2> HIDE DEF p, n
  <2>6. \A t \in Session :
          /\ D.next[t] = IF t = s THEN Nil ELSE IF t = p THEN n ELSE C.next[t]
          /\ D.prev[t] = IF t = s THEN Nil ELSE IF t = n THEN p ELSE C.prev[t]
    BY <1>1, <1>2, <2>2, <2>3
  <2>7. /\ D.head = IF p # HeadEnd THEN C.head ELSE IF n = TailEnd THEN Nil ELSE n
        /\ D.tail = IF n # TailEnd THEN C.tail ELSE IF p = HeadEnd THEN Nil ELSE p
    BY <1>2, <1>6, <2>3
  <2> QED BY <1>2, <2>3, <2>5, <2>6, <2>7 DEF p, n
<1> QED BY <1>3, <1>4, <1>5, <1>6

\* SSL_SESSION_list_remove takes one session out and leaves a list of the others.
LEMMA Unlinked ==
  ASSUME NEW C \in CacheRec, NEW L \in SUBSET Session, Chain(C, L), NEW s \in L,
         NEW D, D = SSL_SESSION_list_remove(C, s)
  PROVE  Chain(D, L \ {s})
<1> DEFINE p == C.prev[s]
           n == C.next[s]
<1>1. /\ \A t \in Session :
           /\ D.next[t] = IF t = s THEN Nil ELSE IF t = p THEN n ELSE C.next[t]
           /\ D.prev[t] = IF t = s THEN Nil ELSE IF t = n THEN p ELSE C.prev[t]
      /\ D.head = IF p # HeadEnd THEN C.head ELSE IF n = TailEnd THEN Nil ELSE n
      /\ D.tail = IF n # TailEnd THEN C.tail ELSE IF p = HeadEnd THEN Nil ELSE p
  BY RemovedLinks
<1>2. /\ s \in Session
      /\ p \in Session \cup {HeadEnd} /\ n \in Session \cup {TailEnd}
      /\ p # Nil /\ n # Nil /\ p # s /\ n # s
  BY Neighbours
<1>3. /\ p \in Session => C.next[p] = s /\ p \in L
      /\ n \in Session => C.prev[n] = s /\ n \in L
  BY Neighbours, CacheAssumption
<1>4. p = HeadEnd /\ n = TailEnd <=> L = {s}
  <2>1. ASSUME p = HeadEnd, n = TailEnd PROVE L = {s}
    BY <2>1, Alone
  <2>2. ASSUME L = {s} PROVE p = HeadEnd /\ n = TailEnd
    BY <2>2, <1>2, <1>3
  <2> QED BY <2>1, <2>2
<1> HIDE DEF p, n
<1>5. ASSUME NEW t \in Session
      PROVE  /\ t \in L \ {s} <=> D.next[t] # Nil
             /\ t \in L \ {s} <=> D.prev[t] # Nil
             /\ D.next[t] # HeadEnd /\ D.prev[t] # TailEnd
  BY <1>1, <1>2, <1>3, CacheAssumption DEF Chain
<1>6. ASSUME NEW t \in Session
      PROVE  /\ D.next[t] \in Session => D.prev[D.next[t]] = t
             /\ D.prev[t] \in Session => D.next[D.prev[t]] = t
  BY <1>1, CacheAssumption DEF Chain, p, n
<1>7. ASSUME NEW t \in Session
      PROVE  /\ D.prev[t] = HeadEnd <=> D.head = t
             /\ D.next[t] = TailEnd <=> D.tail = t
  BY <1>1, CacheAssumption DEF Chain, p, n
<1>8. /\ D.head = Nil <=> L \ {s} = {}
      /\ D.tail = Nil <=> L \ {s} = {}
  <2>1. C.head # Nil /\ C.tail # Nil
    BY DEF Chain
  <2>2. L \ {s} = {} <=> L = {s}
    OBVIOUS
  <2> QED BY <1>1, <1>2, <1>4, <2>1, <2>2
<1>9. ASSUME NEW S \in SUBSET (L \ {s}), S # {}
      PROVE  \E t \in S : D.next[t] \notin S
  <2>1. PICK t \in S : C.next[t] \notin S
    BY <1>9 DEF Chain
  <2>2. CASE t # p
    BY <1>1, <2>1, <2>2
  <2>3. CASE t = p /\ n \notin S
    BY <1>1, <2>3
  <2>4. CASE t = p /\ n \in S
    <3>1. S \cup {s} \in SUBSET L /\ S \cup {s} # {}
      OBVIOUS
    <3>2. PICK u \in S \cup {s} : C.next[u] \notin S \cup {s}
      BY <3>1 DEF Chain
    <3>3. u # s
      BY <2>4, <3>2 DEF n
    <3>4. u # p
      BY <1>2, <1>3, <2>4, <3>2
    <3> QED BY <1>1, <3>2, <3>3, <3>4
  <2> QED BY <2>2, <2>3, <2>4
<1> QED BY <1>5, <1>6, <1>7, <1>8, <1>9 DEF Chain

\* What SSL_SESSION_list_add does to the links.
LEMMA AddedLinks ==
  ASSUME NEW C \in CacheRec, NEW L \in SUBSET Session, Chain(C, L), NEW s \in Session \ L,
         NEW D, D = SSL_SESSION_list_add(C, s)
  PROVE  /\ D \in CacheRec
         /\ D.table = C.table /\ D.refs = C.refs
         /\ \A t \in Session :
              /\ D.next[t] = IF t # s THEN C.next[t]
                             ELSE IF C.head = Nil THEN TailEnd ELSE C.head
              /\ D.prev[t] = IF t = s THEN HeadEnd ELSE IF t = C.head THEN s ELSE C.prev[t]
         /\ D.head = s
         /\ D.tail = IF C.head = Nil THEN s ELSE C.tail
<1> DEFINE h == C.head
<1>1. /\ C.next[s] = Nil /\ h \in L \cup {Nil} /\ h # s
      /\ DOMAIN C.next = Session /\ DOMAIN C.prev = Session
  <2>1. /\ C.next[s] = Nil /\ h \in Session \cup {Nil}
        /\ DOMAIN C.next = Session /\ DOMAIN C.prev = Session
    BY DEF Chain, CacheRec
  <2>2. ASSUME h \in Session PROVE h \in L
    <3>1. C.prev[h] = HeadEnd
      BY <2>2 DEF Chain
    <3> QED BY <2>2, <3>1, CacheAssumption DEF Chain
  <2>3. Nil # s
    BY CacheAssumption
  <2> QED BY <2>1, <2>2, <2>3
<1>2. CASE h = Nil
  <2>1. D = [C EXCEPT !.head = s, !.tail = s, !.prev[s] = HeadEnd, !.next[s] = TailEnd]
    BY <1>1, <1>2 DEF SSL_SESSION_list_add
  <2>2. /\ D.table = C.table /\ D.refs = C.refs /\ D.head = s /\ D.tail = s
        /\ D.next = [C.next EXCEPT ![s] = TailEnd] /\ D.prev = [C.prev EXCEPT ![s] = HeadEnd]
    BY <2>1
  <2>3. D.next \in [Session -> Link] /\ D.prev \in [Session -> Link]
    BY <2>2 DEF CacheRec, Link
  <2>4. D \in CacheRec
    BY <2>1, <2>3 DEF CacheRec
  <2>5. \A t \in Session : t # h
    BY <1>2, CacheAssumption
  <2> QED BY <1>1, <1>2, <2>2, <2>4, <2>5
<1>3. CASE h # Nil
  <2>1. D = [C EXCEPT !.next[s] = C.head, !.prev[C.head] = s, !.prev[s] = HeadEnd, !.head = s]
    BY <1>1, <1>3 DEF SSL_SESSION_list_add
  <2>2. /\ D.table = C.table /\ D.refs = C.refs /\ D.head = s /\ D.tail = C.tail
        /\ D.next = [C.next EXCEPT ![s] = h]
        /\ D.prev = [[C.prev EXCEPT ![h] = s] EXCEPT ![s] = HeadEnd]
    BY <2>1
  <2>3. D.next \in [Session -> Link] /\ D.prev \in [Session -> Link]
    BY <2>2 DEF CacheRec, Link
  <2>4. D \in CacheRec
    BY <2>1, <2>3 DEF CacheRec
  <2> HIDE DEF h
  <2>5. \A t \in Session :
              /\ D.next[t] = IF t # s THEN C.next[t] ELSE h
              /\ D.prev[t] = IF t = s THEN HeadEnd ELSE IF t = h THEN s ELSE C.prev[t]
    BY <1>1, <1>3, <2>2
  <2> QED BY <1>3, <2>2, <2>4, <2>5 DEF h
<1> QED BY <1>2, <1>3

\* SSL_SESSION_list_add makes a list of one session more, which is its first.
LEMMA Linked ==
  ASSUME NEW C \in CacheRec, NEW L \in SUBSET Session, Chain(C, L), NEW s \in Session \ L,
         NEW D, D = SSL_SESSION_list_add(C, s)
  PROVE  Chain(D, L \cup {s})
<1> DEFINE h == C.head
<1>1. /\ \A t \in Session :
           /\ D.next[t] = IF t # s THEN C.next[t] ELSE IF h = Nil THEN TailEnd ELSE h
           /\ D.prev[t] = IF t = s THEN HeadEnd ELSE IF t = h THEN s ELSE C.prev[t]
      /\ D.head = s
      /\ D.tail = IF h = Nil THEN s ELSE C.tail
  BY AddedLinks
<1>2. /\ h \in L \cup {Nil} /\ h # s /\ (h = Nil <=> L = {})
      /\ h # Nil => C.prev[h] = HeadEnd
  <2>1. h \in Session \cup {Nil} /\ (h = Nil <=> L = {})
    BY DEF Chain, CacheRec
  <2>2. ASSUME h \in Session PROVE h \in L /\ C.prev[h] = HeadEnd
    <3>1. C.prev[h] = HeadEnd
      BY <2>2 DEF Chain
    <3> QED BY <2>2, <3>1, CacheAssumption DEF Chain
  <2>3. Nil # s
    BY CacheAssumption
  <2> QED BY <2>1, <2>2, <2>3
<1>3. /\ \A t \in L : C.next[t] # s /\ C.prev[t] # s
      /\ \A t \in Session \ L : C.next[t] = Nil /\ C.prev[t] = Nil
  <2>1. ASSUME NEW t \in L PROVE C.next[t] # s /\ C.prev[t] # s
    BY Neighbours, CacheAssumption
  <2> QED BY <2>1 DEF Chain
<1> HIDE DEF h
<1>4. ASSUME NEW t \in Session
      PROVE  /\ t \in L \cup {s} <=> D.next[t] # Nil
             /\ t \in L \cup {s} <=> D.prev[t] # Nil
             /\ D.next[t] # HeadEnd /\ D.prev[t] # TailEnd
  BY <1>1, <1>2, CacheAssumption DEF Chain
<1>5. ASSUME NEW t \in Session
      PROVE  /\ D.next[t] \in Session => D.prev[D.next[t]] = t
             /\ D.prev[t] \in Session => D.next[D.prev[t]] = t
  BY <1>1, <1>2, CacheAssumption DEF Chain
<1>6. ASSUME NEW t \in Session
      PROVE  /\ D.prev[t] = HeadEnd <=> D.head = t
             /\ D.next[t] = TailEnd <=> D.tail = t
  BY <1>1, <1>2, CacheAssumption DEF Chain
<1>7. D.head # Nil /\ D.tail # Nil
  <2>1. L # {} => C.tail # Nil
    BY DEF Chain
  <2> QED BY <1>1, <1>2, <2>1, CacheAssumption
<1>8. ASSUME NEW S \in SUBSET (L \cup {s}), S # {}
      PROVE  \E t \in S : D.next[t] \notin S
  <2>1. CASE S = {s}
    BY <1>1, <1>2, <2>1, CacheAssumption
  <2>2. CASE S \ {s} # {}
    <3>1. S \ {s} \in SUBSET L
      OBVIOUS
    <3>2. PICK t \in S \ {s} : C.next[t] \notin S \ {s}
      BY <2>2, <3>1 DEF Chain
    <3> QED BY <1>1, <1>3, <3>1, <3>2
  <2> QED BY <1>8, <2>1, <2>2
<1> QED BY <1>4, <1>5, <1>6, <1>7, <1>8 DEF Chain

\* Only the links make a list.
LEMMA SameLinks ==
  ASSUME NEW C, NEW D, NEW L, Chain(C, L),
         D.next = C.next, D.prev = C.prev, D.head = C.head, D.tail = C.tail
  PROVE  Chain(D, L)
  BY DEF Chain

----------------------------------------------------------------------------
(* The table and the reference counts.                                     *)

\* A cached session is found under its ID and nowhere else.
LEMMA FoundById ==
  ASSUME NEW C \in CacheRec, Indexed(C), NEW s \in In(C)
  PROVE  /\ s \in Session /\ s # Nil
         /\ IdOf(s) \in Id /\ C.table[IdOf(s)] = s
         /\ \A i \in Id : C.table[i] = s <=> i = IdOf(s)
         /\ Known(s)
<1>1. PICK i \in Id : C.table[i] = s /\ s \in Session
  BY DEF In
<1>2. s # Nil
  BY <1>1, CacheAssumption
<1>3. \A j \in Id : C.table[j] = s => IdOf(s) = j /\ Known(s)
  BY <1>2 DEF Indexed
<1> QED BY <1>1, <1>2, <1>3

\* The sessions in a table are as many as the IDs they are found under.
LEMMA ItemsCount ==
  ASSUME NEW C \in CacheRec, Indexed(C)
  PROVE  /\ IsFiniteSet(In(C)) /\ Cardinality(In(C)) = Items(C)
         /\ Items(C) \in Nat
         /\ IsFiniteSet({i \in Id : C.table[i] # Nil})
<1> DEFINE U == {i \in Id : C.table[i] # Nil}
           f == [i \in U |-> C.table[i]]
<1>1. IsFiniteSet(U)
  BY CacheAssumption, FS_Subset
<1>2. \A i \in U : C.table[i] \in In(C)
  BY DEF CacheRec, In
<1>3. \A i, j \in U : C.table[i] = C.table[j] => i = j
  BY DEF Indexed
<1>4. \A s \in In(C) : \E i \in U : C.table[i] = s
  BY CacheAssumption DEF In
<1>5. f \in Bijection(U, In(C))
  BY <1>2, <1>3, <1>4 DEF Bijection, Injection, Surjection, IsInjective
<1>6. ExistsBijection(U, In(C))
  BY <1>5 DEF ExistsBijection
<1>7. IsFiniteSet(In(C)) /\ Cardinality(In(C)) = Cardinality(U)
  BY <1>1, <1>6, FS_Bijection
<1>8. Cardinality(U) \in Nat
  BY <1>1, FS_CardinalityType
<1> QED BY <1>1, <1>7, <1>8 DEF Items

\* remove_session of a cached session: it leaves the table and the list, and the
\* references that others hold stay.
LEMMA Removed ==
  ASSUME NEW C, Sound(C), NEW s \in In(C), NEW D, D = remove_session(C, s)
  PROVE  /\ Sound(D)
         /\ In(D) = In(C) \ {s}
         /\ \A t \in Session : Outside(D, t) = Outside(C, t)
         /\ Items(D) = Items(C) - 1
         /\ C.head # s => D.head = C.head
<1> DEFINE k == IdOf(s)
           A == [C EXCEPT !.table[k] = Nil]
           B == SSL_SESSION_list_remove(A, s)
<1>1. /\ s \in Session /\ s # Nil /\ k \in Id /\ C.table[k] = s
      /\ \A i \in Id : C.table[i] = s <=> i = k
  BY FoundById DEF Sound
<1>2. D = [B EXCEPT !.refs[s] = @ - 1]
  BY <1>1 DEF remove_session, SSL_SESSION_free
<1>3. /\ A \in CacheRec /\ A.next = C.next /\ A.prev = C.prev /\ A.head = C.head
      /\ A.tail = C.tail /\ A.refs = C.refs /\ A.table = [C.table EXCEPT ![k] = Nil]
  <2>1. C \in CacheRec
    BY DEF Sound
  <2> HIDE DEF k
  <2> QED BY <1>1, <2>1 DEF CacheRec
<1>4. Chain(A, In(C))
  BY <1>3, SameLinks DEF Sound
<1> HIDE DEF A, B, k
<1>5. In(C) \in SUBSET Session
  BY DEF In
<1>6. /\ B \in CacheRec /\ B.table = A.table /\ B.refs = A.refs
      /\ B.head = IF A.prev[s] # HeadEnd THEN A.head
                  ELSE IF A.next[s] = TailEnd THEN Nil ELSE A.next[s]
  BY <1>3, <1>4, <1>5, RemovedLinks DEF B
<1>7. Chain(B, In(C) \ {s})
  BY <1>3, <1>4, <1>5, Unlinked DEF B
<1>8. /\ D \in CacheRec /\ D.next = B.next /\ D.prev = B.prev /\ D.head = B.head
      /\ D.tail = B.tail /\ D.table = [C.table EXCEPT ![k] = Nil]
      /\ D.refs = [C.refs EXCEPT ![s] = C.refs[s] - 1]
  BY <1>2, <1>3, <1>6 DEF CacheRec
<1>9. DOMAIN C.table = Id /\ DOMAIN C.refs = Session /\ \A t \in Session : C.refs[t] \in Int
  BY DEF Sound, CacheRec
<1>10. \A i \in Id : D.table[i] = IF i = k THEN Nil ELSE C.table[i]
  BY <1>8, <1>9
<1>11. In(D) = In(C) \ {s}
  BY <1>1, <1>10, CacheAssumption DEF In
<1>12. Indexed(D)
  BY <1>10 DEF Sound, Indexed
<1>13. Chain(D, In(D))
  BY <1>7, <1>8, <1>11, SameLinks
<1>14. ASSUME NEW t \in Session PROVE Outside(D, t) = Outside(C, t)
  <2>1. CASE t = s
    BY <1>8, <1>9, <1>11 DEF Outside
  <2>2. CASE t # s
    BY <1>8, <1>9, <1>11, <2>2 DEF Outside
  <2> QED BY <2>1, <2>2
<1>15. Items(D) = Items(C) - 1
  <2>1. {i \in Id : D.table[i] # Nil} = {i \in Id : C.table[i] # Nil} \ {k}
    BY <1>10
  <2>2. k \in {i \in Id : C.table[i] # Nil} /\ IsFiniteSet({i \in Id : C.table[i] # Nil})
    BY <1>1, ItemsCount DEF Sound
  <2> QED BY <2>1, <2>2, FS_RemoveElement DEF Items
<1>16. C.head # s => D.head = C.head
  BY <1>1, <1>3, <1>4, <1>6, <1>8 DEF Chain
<1> QED BY <1>8, <1>11, <1>12, <1>13, <1>14, <1>15, <1>16 DEF Sound

\* remove_session of anything else changes nothing.
LEMMA NotRemoved ==
  ASSUME NEW C, Sound(C), NEW s \in (Session \ In(C)) \cup {Nil}, s # Nil => IdOf(s) \in Id
  PROVE  remove_session(C, s) = C
<1>1. CASE s = Nil
  BY <1>1 DEF remove_session
<1>2. CASE s # Nil
  <2>1. C.table[IdOf(s)] # s
    BY <1>2 DEF In
  <2> QED BY <1>2, <2>1 DEF remove_session
<1> QED BY <1>1, <1>2

----------------------------------------------------------------------------
(* The loops.  Induction is by the least number for which a claim fails.   *)

\* Every set of numbers has a least one.
LEMMA LeastNumber ==
  ASSUME NEW T \in SUBSET Nat, T # {}
  PROVE  \E x \in T : \A y \in T : x <= y
<1>1. IsWellFoundedOn(OpToRel(<, Nat), Nat)
  BY NatLessThanWellFounded
<1>2. \E x \in T : \A y \in T : ~(<<y, x>> \in OpToRel(<, Nat))
  BY <1>1, WFMin
<1>3. \A x, y \in T : x <= y \/ <<y, x>> \in OpToRel(<, Nat)
  BY DEF OpToRel
<1> QED BY <1>2, <1>3

\* The states of the loop of add_session_locked.
LEMMA EvictionSteps ==
  ASSUME NEW C, NEW k \in Nat
  PROVE  \E f : /\ f[0] = C /\ f[k] = Evicted(C, k)
                /\ \A n \in 1 .. k : f[n] = remove_session(f[n - 1], f[n - 1].tail)
<1> DEFINE Is(f, m) == f = [n \in 0 .. m |-> IF n = 0 THEN C
                                             ELSE remove_session(f[n - 1], f[n - 1].tail)]
           T == {m \in Nat : ~ \E f : Is(f, m)}
<1>1. T = {}
  <2> SUFFICES ASSUME T # {} PROVE FALSE
    OBVIOUS
  <2>1. PICK x \in T : \A y \in T : x <= y
    BY LeastNumber
  <2>2. CASE x = 0
    <3>1. Is([n \in 0 .. 0 |-> C], 0)
      OBVIOUS
    <3> QED BY <2>1, <2>2, <3>1
  <2>3. CASE x # 0
    <3>1. x - 1 \in Nat /\ x - 1 \notin T
      BY <2>1, <2>3
    <3>2. PICK f : Is(f, x - 1)
      BY <3>1
    <3> DEFINE g == [n \in 0 .. x |-> IF n = x THEN remove_session(f[x - 1], f[x - 1].tail)
                                      ELSE f[n]]
    <3>3. ASSUME NEW n \in 0 .. x
          PROVE  g[n] = IF n = 0 THEN C ELSE remove_session(g[n - 1], g[n - 1].tail)
      BY <2>3, <3>2
    <3>4. Is(g, x)
      BY <3>3
    <3> QED BY <2>1, <3>4
  <2> QED BY <2>2, <2>3
<1>2. \E f : Is(f, k)
  BY <1>1
<1>3. \E f : Is(f, k) /\ f[k] = Evicted(C, k)
  BY <1>2 DEF Evicted
<1>4. PICK f : Is(f, k) /\ f[k] = Evicted(C, k)
  BY <1>3
<1>5. f[0] = C
  BY <1>4
<1>6. \A n \in 1 .. k : f[n] = remove_session(f[n - 1], f[n - 1].tail)
  BY <1>4
<1> QED BY <1>4, <1>5, <1>6

\* When two sessions are cached, the last of the list is not the first.
LEMMA LastIsNotFirst ==
  ASSUME NEW C, Sound(C), Items(C) >= 2
  PROVE  C.tail \in In(C) /\ C.head \in In(C) /\ C.tail # C.head
<1>1. /\ IsFiniteSet(In(C)) /\ Cardinality(In(C)) = Items(C) /\ Items(C) \in Nat
      /\ C \in CacheRec /\ Chain(C, In(C)) /\ In(C) \in SUBSET Session
  BY ItemsCount DEF Sound, In
<1>2. In(C) # {}
  BY <1>1, FS_EmptySet
<1>3. C.tail \in Session /\ C.head \in Session
  BY <1>1, <1>2 DEF Chain, CacheRec
<1>4. C.next[C.tail] = TailEnd /\ C.prev[C.head] = HeadEnd
  BY <1>1, <1>3 DEF Chain
<1>5. C.tail \in In(C) /\ C.head \in In(C)
  BY <1>1, <1>3 DEF Chain
<1>6. ASSUME C.tail = C.head PROVE FALSE
  <2>1. In(C) = {C.tail}
    BY <1>1, <1>4, <1>5, <1>6, Alone
  <2>2. Cardinality(In(C)) = 1
    BY <2>1, FS_Singleton
  <2> QED BY <1>1, <2>2
<1> QED BY <1>5, <1>6

\* The loop of add_session_locked takes the oldest sessions out and stops before the
\* one at the head, which was just added.
LEMMA EvictedKeeps ==
  ASSUME NEW C, Sound(C), NEW k \in Nat, k < Items(C), NEW D, D = Evicted(C, k)
  PROVE  /\ Sound(D) /\ In(D) \subseteq In(C)
         /\ Items(D) = Items(C) - k
         /\ D.head = C.head
         /\ \A t \in Session : Outside(D, t) = Outside(C, t)
<1>1. PICK f : /\ f[0] = C /\ f[k] = Evicted(C, k)
               /\ \A n \in 1 .. k : f[n] = remove_session(f[n - 1], f[n - 1].tail)
  BY EvictionSteps
<1>2. Items(C) \in Nat
  BY ItemsCount DEF Sound
<1> DEFINE Good(n) == /\ Sound(f[n]) /\ In(f[n]) \subseteq In(C)
                      /\ Items(f[n]) = Items(C) - n
                      /\ f[n].head = C.head
                      /\ \A t \in Session : Outside(f[n], t) = Outside(C, t)
           T == {n \in 0 .. k : ~ Good(n)}
<1>3. T = {}
  <2> SUFFICES ASSUME T # {} PROVE FALSE
    OBVIOUS
  <2>1. PICK x \in T : \A y \in T : x <= y
    <3>1. T \in SUBSET Nat
      OBVIOUS
    <3> HIDE DEF T
    <3> QED BY <3>1, LeastNumber
  <2>2. x # 0
    BY <1>1, <1>2
  <2>3. x - 1 \in 0 .. k /\ x - 1 \notin T /\ x \in 1 .. k
    <3>1. x \in 0 .. k
      BY <2>1
    <3> HIDE DEF T
    <3> QED BY <2>1, <2>2, <3>1
  <2>4. Good(x - 1)
    BY <2>3
  <2>5. Items(f[x - 1]) >= 2
    BY <1>2, <2>4
  <2>6. /\ f[x - 1].tail \in In(f[x - 1]) /\ f[x - 1].head # f[x - 1].tail
    BY <2>4, <2>5, LastIsNotFirst
  <2>7. f[x] = remove_session(f[x - 1], f[x - 1].tail)
    BY <1>1, <2>3
  <2>8. /\ Sound(f[x]) /\ In(f[x]) = In(f[x - 1]) \ {f[x - 1].tail}
        /\ \A t \in Session : Outside(f[x], t) = Outside(f[x - 1], t)
        /\ Items(f[x]) = Items(f[x - 1]) - 1
        /\ f[x].head = f[x - 1].head
    BY <2>4, <2>6, <2>7, Removed
  <2>9. Items(f[x]) = Items(C) - x
    BY <1>2, <2>4, <2>8
  <2>10. Good(x)
    BY <2>4, <2>8, <2>9
  <2> QED BY <2>1, <2>10
<1>4. k \in 0 .. k
  OBVIOUS
<1>5. Good(k)
  BY <1>3, <1>4
<1> QED BY <1>1, <1>5

\* The states of the loop of SSL_CTX_flush_sessions.
LEMMA FlushSteps ==
  ASSUME NEW S, Cardinality(S) \in Nat
  PROVE  \E f : /\ f[0] = cache /\ f[Cardinality(S)] = Flushed(S)
                /\ \A n \in 1 .. Cardinality(S) :
                     f[n] = remove_session(f[n - 1],
                                           CHOOSE s \in S : f[n - 1].table[IdOf(s)] = s)
<1> DEFINE Go(C) == remove_session(C, CHOOSE s \in S : C.table[IdOf(s)] = s)
           Is(f, m) == f = [n \in 0 .. m |-> IF n = 0 THEN cache ELSE Go(f[n - 1])]
           T == {m \in Nat : ~ \E f : Is(f, m)}
           k == Cardinality(S)
<1>1. T = {}
  <2> SUFFICES ASSUME T # {} PROVE FALSE
    OBVIOUS
  <2> HIDE DEF Go
  <2>1. PICK x \in T : \A y \in T : x <= y
    BY LeastNumber
  <2>2. CASE x = 0
    <3>1. Is([n \in 0 .. 0 |-> cache], 0)
      OBVIOUS
    <3> QED BY <2>1, <2>2, <3>1
  <2>3. CASE x # 0
    <3>1. x \in Nat /\ x - 1 \in Nat /\ ~(x <= x - 1)
      BY <2>3
    <3>2. PICK f : Is(f, x - 1)
      BY <2>1, <3>1
    <3> DEFINE g == [n \in 0 .. x |-> IF n = x THEN Go(f[x - 1]) ELSE f[n]]
    <3>3. ASSUME NEW n \in 0 .. x PROVE g[n] = IF n = 0 THEN cache ELSE Go(g[n - 1])
      BY <2>3, <3>2
    <3>4. Is(g, x)
      BY <3>3
    <3> QED BY <2>1, <3>4
  <2> QED BY <2>2, <2>3
<1>2. \E f : Is(f, k)
  BY <1>1
<1>3. \E f : Is(f, k) /\ f[k] = Flushed(S)
  BY <1>2 DEF Flushed
<1>4. PICK f : Is(f, k) /\ f[k] = Flushed(S)
  BY <1>3
<1>5. f[0] = cache /\ \A n \in 1 .. k : f[n] = Go(f[n - 1])
  <2> HIDE DEF Go
  <2> QED BY <1>4
<1>6. f[k] = Flushed(S)
  BY <1>4
<1> HIDE DEF Is
<1> QED BY <1>5, <1>6

\* SSL_CTX_flush_sessions takes out the sessions it is to remove, and no others.
LEMMA FlushedKeeps ==
  ASSUME Sound(cache), NEW S \in SUBSET In(cache), NEW D, D = Flushed(S)
  PROVE  /\ Sound(D) /\ In(D) = In(cache) \ S
         /\ \A t \in Session : Outside(D, t) = Outside(cache, t)
<1> DEFINE k == Cardinality(S)
<1>1. IsFiniteSet(S) /\ k \in Nat /\ \A s \in S : IdOf(s) \in Id /\ s \in Session
  <2>1. IsFiniteSet(In(cache))
    BY ItemsCount DEF Sound
  <2>2. \A s \in S : IdOf(s) \in Id /\ s \in Session
    BY FoundById DEF Sound
  <2> QED BY <2>1, <2>2, FS_Subset, FS_CardinalityType
<1>2. PICK f : /\ f[0] = cache /\ f[k] = Flushed(S)
               /\ \A n \in 1 .. k :
                    f[n] = remove_session(f[n - 1], CHOOSE s \in S : f[n - 1].table[IdOf(s)] = s)
  BY <1>1, FlushSteps
<1> DEFINE Good(n) == /\ Sound(f[n]) /\ In(f[n]) \subseteq In(cache)
                      /\ In(cache) \ S \subseteq In(f[n])
                      /\ Cardinality(S \cap In(f[n])) = k - n
                      /\ \A t \in Session : Outside(f[n], t) = Outside(cache, t)
           T == {n \in 0 .. k : ~ Good(n)}
<1>3. T = {}
  <2> SUFFICES ASSUME T # {} PROVE FALSE
    OBVIOUS
  <2>1. PICK x \in T : \A y \in T : x <= y
    <3>1. T \in SUBSET Nat
      BY <1>1
    <3> HIDE DEF T
    <3> QED BY <3>1, LeastNumber
  <2>2. x # 0
    <3>1. S \cap In(cache) = S
      OBVIOUS
    <3>2. k - 0 = k /\ Cardinality(S \cap In(f[0])) = k
      BY <1>1, <1>2, <3>1
    <3>3. Good(0)
      BY <1>2, <3>2
    <3> QED BY <2>1, <3>3
  <2>3. x - 1 \in 0 .. k /\ x - 1 \notin T /\ x \in 1 .. k
    <3>1. x \in 0 .. k
      BY <2>1
    <3> HIDE DEF T, k
    <3> QED BY <1>1, <2>1, <2>2, <3>1
  <2>4. Good(x - 1)
    BY <2>3
  <2> DEFINE C == f[x - 1]
             s == CHOOSE s \in S : C.table[IdOf(s)] = s
  <2>5. IsFiniteSet(S \cap In(C))
    BY <1>1, FS_Subset
  <2>6. PICK u \in S : u \in In(C)
    <3>1. Cardinality(S \cap In(C)) # 0
      BY <1>1, <2>3, <2>4
    <3> QED BY <2>5, <3>1, FS_EmptySet
  <2>7. s \in S /\ C.table[IdOf(s)] = s
    <3>1. C.table[IdOf(u)] = u
      BY <2>4, <2>6, FoundById DEF Sound
    <3> QED BY <2>6, <3>1
  <2> HIDE DEF s
  <2>8. s \in In(C)
    BY <1>1, <2>7 DEF In
  <2>9. f[x] = remove_session(C, s)
    BY <1>2, <2>3 DEF s
  <2>10. /\ Sound(f[x]) /\ In(f[x]) = In(C) \ {s}
         /\ \A t \in Session : Outside(f[x], t) = Outside(C, t)
    BY <2>4, <2>8, <2>9, Removed
  <2>11. Cardinality(S \cap In(f[x])) = k - x
    <3> DEFINE U == S \cap In(C)
    <3>1. S \cap In(f[x]) = U \ {s} /\ s \in U /\ IsFiniteSet(U)
      BY <2>5, <2>7, <2>8, <2>10
    <3> HIDE DEF U
    <3>2. Cardinality(S \cap In(f[x])) = Cardinality(U) - 1
      BY <3>1, FS_RemoveElement
    <3> QED BY <1>1, <2>3, <2>4, <3>2 DEF U
  <2>12. Good(x)
    BY <2>4, <2>7, <2>10, <2>11
  <2> QED BY <2>1, <2>12
<1>4. Good(k)
  BY <1>1, <1>3
<1>5. S \cap In(f[k]) = {}
  <2>1. IsFiniteSet(S \cap In(f[k])) /\ Cardinality(S \cap In(f[k])) = 0
    BY <1>1, <1>4, FS_Subset
  <2> QED BY <2>1, FS_EmptySet
<1>6. In(f[k]) = In(cache) \ S
  BY <1>4, <1>5
<1> QED BY <1>2, <1>4, <1>6

----------------------------------------------------------------------------
(* Adding.                                                                 *)

\* Trimmed brings the cache back to its limit and keeps the head.
LEMMA TrimmedKeeps ==
  ASSUME NEW C, Sound(C), size \in Nat, NEW D, D = Trimmed(C)
  PROVE  /\ Sound(D) /\ In(D) \subseteq In(C)
         /\ size > 0 => Items(D) <= size
         /\ D.head = C.head
         /\ \A t \in Session : Outside(D, t) = Outside(C, t)
<1>1. Items(C) \in Nat
  BY ItemsCount DEF Sound
<1>2. CASE size = 0 \/ Items(C) <= size
  BY <1>2 DEF Trimmed
<1>3. CASE ~(size = 0 \/ Items(C) <= size)
  <2>1. /\ Items(C) - size \in Nat /\ Items(C) - size < Items(C)
        /\ Items(C) - (Items(C) - size) = size
    BY <1>1, <1>3
  <2>2. D = Evicted(C, Items(C) - size)
    BY <1>3 DEF Trimmed
  <2>3. /\ Sound(D) /\ In(D) \subseteq In(C)
        /\ Items(D) = Items(C) - (Items(C) - size)
        /\ D.head = C.head
        /\ \A t \in Session : Outside(D, t) = Outside(C, t)
    BY <2>1, <2>2, EvictedKeeps
  <2> QED BY <2>1, <2>3
<1> QED BY <1>2, <1>3

\* The hash table takes s in place of what was there, which leaves the list.
LEMMA ReplacedKeeps ==
  ASSUME NEW C, Sound(C), NEW s \in Session, Known(s), s \notin In(C),
         NEW D, D = Replaced(C, s, C.table[IdOf(s)])
  PROVE  /\ D \in CacheRec /\ Indexed(D) /\ s \in In(D)
         /\ Chain(D, In(D) \ {s})
         /\ \A t \in Session \ {s} : Outside(D, t) = Outside(C, t)
         /\ D.refs[s] = C.refs[s]
<1> DEFINE k == IdOf(s)
           old == C.table[k]
           A == [C EXCEPT !.table[k] = s]
           B == SSL_SESSION_list_remove(A, old)
<1>1. C \in CacheRec /\ Indexed(C) /\ Chain(C, In(C)) /\ k \in Id
  BY DEF Sound, Known, IdOf
<1> HIDE DEF k
<1>2. /\ A \in CacheRec /\ A.next = C.next /\ A.prev = C.prev /\ A.head = C.head
      /\ A.tail = C.tail /\ A.refs = C.refs /\ A.table = [C.table EXCEPT ![k] = s]
  BY <1>1 DEF CacheRec
<1>3. Chain(A, In(C)) /\ In(C) \in SUBSET Session
  BY <1>1, <1>2, SameLinks DEF In
<1>4. DOMAIN C.table = Id /\ DOMAIN C.refs = Session /\ \A t \in Session : C.refs[t] \in Int
  BY <1>1 DEF CacheRec
<1>5. ASSUME NEW E, E.table = A.table PROVE In(E) = (In(C) \ {old}) \cup {s} /\ Indexed(E)
  <2>1. \A i \in Id : E.table[i] = IF i = k THEN s ELSE C.table[i]
    BY <1>4, <1>5
  <2>2. \A i \in Id : old \in Session /\ C.table[i] = old => i = k
    BY <1>1, CacheAssumption DEF Indexed
  <2>3. ASSUME NEW t \in Session PROVE t \in In(E) <=> t \in (In(C) \ {old}) \cup {s}
    <3>1. t \in In(E) <=> t = s \/ \E i \in Id : i # k /\ C.table[i] = t
      BY <1>1, <2>1 DEF In
    <3>2. ASSUME t # s PROVE t \in In(C) \ {old} <=> \E i \in Id : i # k /\ C.table[i] = t
      BY <1>1, <2>2 DEF In
    <3> QED BY <3>1, <3>2
  <2>4. In(E) \subseteq Session /\ In(C) \subseteq Session
    BY DEF In
  <2>5. Indexed(E)
    BY <1>1, <2>1 DEF Indexed, k
  <2> QED BY <2>3, <2>4, <2>5
<1>6. CASE old = Nil
  <2>1. D = A
    BY <1>6 DEF Replaced, k
  <2>2. In(D) = In(C) \cup {s} /\ Indexed(D)
    BY <1>3, <1>5, <1>6, <2>1, CacheAssumption
  <2>3. In(D) \ {s} = In(C)
    BY <2>2
  <2>4. ASSUME NEW t \in Session \ {s} PROVE Outside(D, t) = Outside(C, t)
    BY <2>1, <2>2 DEF Outside
  <2> HIDE DEF A
  <2> QED BY <1>2, <1>3, <2>1, <2>2, <2>3, <2>4
<1>7. CASE old # Nil
  <2>1. old \in In(C) /\ old \in Session /\ old # s
    BY <1>1, <1>7 DEF CacheRec, In
  <2>2. D = [B EXCEPT !.refs[old] = @ - 1]
    BY <1>7 DEF Replaced, SSL_SESSION_free, k
  <2> HIDE DEF A, B
  <2>3. B \in CacheRec /\ B.table = A.table /\ B.refs = A.refs
    BY <1>2, <1>3, <2>1, RemovedLinks DEF B
  <2>4. Chain(B, In(C) \ {old})
    BY <1>2, <1>3, <2>1, Unlinked DEF B
  <2>5. /\ D \in CacheRec /\ D.table = A.table /\ D.next = B.next /\ D.prev = B.prev
        /\ D.head = B.head /\ D.tail = B.tail
        /\ D.refs = [C.refs EXCEPT ![old] = C.refs[old] - 1]
    BY <1>2, <2>2, <2>3 DEF CacheRec
  <2>6. In(D) = (In(C) \ {old}) \cup {s} /\ Indexed(D)
    BY <1>5, <2>5
  <2>7. In(D) \ {s} = In(C) \ {old}
    BY <2>6
  <2>8. ASSUME NEW t \in Session \ {s} PROVE Outside(D, t) = Outside(C, t)
    <3>1. CASE t = old
      BY <1>4, <2>1, <2>5, <2>6 DEF Outside
    <3>2. CASE t # old
      BY <1>4, <2>1, <2>5, <2>6, <3>2 DEF Outside
    <3> QED BY <3>1, <3>2
  <2>9. Chain(D, In(D) \ {s})
    BY <2>4, <2>5, <2>7, SameLinks
  <2>10. D.refs[s] = C.refs[s]
    BY <1>4, <2>1, <2>5
  <2> QED BY <2>5, <2>6, <2>8, <2>9, <2>10
<1> QED BY <1>6, <1>7

\* add_session_locked: the references that others hold stay; the session is cached
\* and the limit kept, unless nothing changed.
LEMMA AddKeeps ==
  ASSUME NEW C, Sound(C), size \in Nat, NEW s \in Session, Known(s),
         NEW D, D = add_session_locked(UpRef(C, s), s)
  PROVE  /\ Sound(D)
         /\ \A t \in Session : Outside(D, t) = Outside(C, t)
         /\ D # C => s \in In(D) /\ (size > 0 => Items(D) <= size)
<1> DEFINE A == UpRef(C, s)
           old == A.table[IdOf(s)]
<1>1. /\ C \in CacheRec /\ DOMAIN C.refs = Session /\ \A t \in Session : C.refs[t] \in Int
  BY DEF Sound, CacheRec
<1>2. /\ A \in CacheRec /\ A.table = C.table /\ A.next = C.next /\ A.prev = C.prev
      /\ A.head = C.head /\ A.tail = C.tail
      /\ A.refs = [C.refs EXCEPT ![s] = C.refs[s] + 1]
  BY <1>1 DEF UpRef, CacheRec
<1>3. Sound(A) /\ In(A) = In(C)
  <2>1. In(A) = In(C) /\ Indexed(A)
    BY <1>2 DEF Sound, In, Indexed
  <2>2. Chain(A, In(A))
    BY <1>2, <2>1, SameLinks DEF Sound
  <2> QED BY <1>2, <2>1, <2>2 DEF Sound
<1>4. CASE old = s
  <2>1. D = [A EXCEPT !.refs[s] = @ - 1]
    BY <1>4 DEF add_session_locked, SSL_SESSION_free
  <2>2. /\ D \in CacheRec /\ D.table = C.table /\ D.next = C.next /\ D.prev = C.prev
        /\ D.head = C.head /\ D.tail = C.tail
        /\ D.refs = [A.refs EXCEPT ![s] = A.refs[s] - 1]
    BY <1>2 DEF CacheRec
  <2>3. D.refs = C.refs
    BY <1>1, <1>2, <2>2
  <2>4. D = C
    BY <1>1, <2>2, <2>3 DEF CacheRec
  <2> QED BY <2>4
<1>5. CASE old # s
  <2>1. s \notin In(A)
    BY <1>3, <1>5, FoundById DEF Sound
  <2> DEFINE B == Replaced(A, s, old)
             E == SSL_SESSION_list_add(B, s)
  <2>2. D = Trimmed(E)
    BY <1>5 DEF add_session_locked
  <2>3. /\ B \in CacheRec /\ Indexed(B) /\ s \in In(B)
        /\ Chain(B, In(B) \ {s})
        /\ \A t \in Session \ {s} : Outside(B, t) = Outside(A, t)
        /\ B.refs[s] = A.refs[s]
    BY <1>3, <2>1, ReplacedKeeps
  <2> HIDE DEF A, B, E
  <2>4. In(B) \ {s} \in SUBSET Session /\ s \in Session \ (In(B) \ {s})
    BY DEF In
  <2>5. E \in CacheRec /\ E.table = B.table /\ E.refs = B.refs /\ E.head = s
    BY <2>3, <2>4, AddedLinks DEF E
  <2>6. Chain(E, (In(B) \ {s}) \cup {s})
    BY <2>3, <2>4, Linked DEF E
  <2>7. In(E) = In(B) /\ Indexed(E) /\ (In(B) \ {s}) \cup {s} = In(B)
    BY <2>3, <2>5 DEF In, Indexed
  <2>8. Sound(E)
    BY <2>5, <2>6, <2>7 DEF Sound
  <2>9. ASSUME NEW t \in Session PROVE Outside(E, t) = Outside(C, t)
    <3>1. CASE t = s
      BY <1>1, <1>2, <1>3, <2>1, <2>3, <2>5, <2>7 DEF Outside
    <3>2. CASE t # s
      <4>1. Outside(E, t) = Outside(B, t)
        BY <2>5, <2>7 DEF Outside
      <4>2. Outside(A, t) = Outside(C, t)
        BY <1>1, <1>2, <1>3, <3>2 DEF Outside
      <4> QED BY <2>3, <3>2, <4>1, <4>2
    <3> QED BY <3>1, <3>2
  <2>10. /\ Sound(D) /\ In(D) \subseteq In(E)
         /\ size > 0 => Items(D) <= size
         /\ D.head = s
         /\ \A t \in Session : Outside(D, t) = Outside(E, t)
    BY <2>2, <2>5, <2>8, TrimmedKeeps
  <2>11. s \in In(D)
    <3>1. D.prev[s] = HeadEnd
      BY <2>10 DEF Sound, Chain
    <3> QED BY <2>10, <3>1, CacheAssumption DEF Sound, Chain
  <2> QED BY <2>9, <2>10, <2>11
<1> QED BY <1>4, <1>5

----------------------------------------------------------------------------
(* The inductive invariant.                                                *)

ConnRec == [pc : {"idle", "update", "flush", "notify", "check", "store", "remove", "open"},
            s : Session \cup {Nil}]

\* How many connections hold s.
Holders(f, s) == Cardinality({c \in Conn : f[c].s = s})

\* Everybody but the cache owns one reference.
Owned(C, f, X) ==
  \A s \in Session : Outside(C, s) = Holders(f, s) + (IF s \in X THEN 1 ELSE 0)

\* A connection holds a session unless it is idle, and has seen it expired before it
\* removes it.
Placed(f) ==
  /\ f \in [Conn -> ConnRec]
  /\ \A c \in Conn :
       /\ f[c].pc = "idle" <=> f[c].s = Nil
       /\ f[c].s # Nil => Known(f[c].s)
       /\ f[c].pc = "remove" => ~ ssl_session_is_time_valid(f[c].s)

Typed ==
  /\ info \in [Session -> [id : Id, time : 1 .. MaxTime] \cup {Nil}]
  /\ size \in CacheSizes /\ count \in 0 .. FlushEvery - 1 /\ now \in 1 .. MaxTime
  /\ outer \subseteq Session
  /\ \A s \in outer : Known(s)

IInv ==
  /\ Typed
  /\ Sound(cache)
  /\ Placed(conn)
  /\ Owned(cache, conn, outer)

----------------------------------------------------------------------------
(* What a step does to the references and their owners.                    *)

\* A reference is taken.
LEMMA RefTaken ==
  ASSUME NEW C, Sound(C), NEW s \in Session, NEW D, D = UpRef(C, s)
  PROVE  /\ Sound(D) /\ In(D) = In(C)
         /\ \A t \in Session : Outside(D, t) = Outside(C, t) + (IF t = s THEN 1 ELSE 0)
<1>1. /\ C \in CacheRec /\ DOMAIN C.refs = Session /\ \A t \in Session : C.refs[t] \in Int
  BY DEF Sound, CacheRec
<1>2. /\ D \in CacheRec /\ D.table = C.table /\ D.next = C.next /\ D.prev = C.prev
      /\ D.head = C.head /\ D.tail = C.tail
      /\ D.refs = [C.refs EXCEPT ![s] = C.refs[s] + 1]
  BY <1>1 DEF UpRef, CacheRec
<1>3. In(D) = In(C) /\ Indexed(D)
  BY <1>2 DEF Sound, In, Indexed
<1>4. Chain(D, In(D))
  BY <1>2, <1>3, SameLinks DEF Sound
<1>5. ASSUME NEW t \in Session
      PROVE  Outside(D, t) = Outside(C, t) + (IF t = s THEN 1 ELSE 0)
  BY <1>1, <1>2, <1>3 DEF Outside
<1> QED BY <1>2, <1>3, <1>4, <1>5 DEF Sound

\* A reference is dropped.
LEMMA RefDropped ==
  ASSUME NEW C, Sound(C), NEW s \in Session, NEW D, D = SSL_SESSION_free(C, s)
  PROVE  /\ Sound(D) /\ In(D) = In(C)
         /\ \A t \in Session : Outside(D, t) = Outside(C, t) - (IF t = s THEN 1 ELSE 0)
<1>1. /\ C \in CacheRec /\ DOMAIN C.refs = Session /\ \A t \in Session : C.refs[t] \in Int
  BY DEF Sound, CacheRec
<1>2. /\ D \in CacheRec /\ D.table = C.table /\ D.next = C.next /\ D.prev = C.prev
      /\ D.head = C.head /\ D.tail = C.tail
      /\ D.refs = [C.refs EXCEPT ![s] = C.refs[s] - 1]
  BY <1>1 DEF SSL_SESSION_free, CacheRec
<1>3. In(D) = In(C) /\ Indexed(D)
  BY <1>2 DEF Sound, In, Indexed
<1>4. Chain(D, In(D))
  BY <1>2, <1>3, SameLinks DEF Sound
<1>5. ASSUME NEW t \in Session
      PROVE  Outside(D, t) = Outside(C, t) - (IF t = s THEN 1 ELSE 0)
  BY <1>1, <1>2, <1>3 DEF Outside
<1> QED BY <1>2, <1>3, <1>4, <1>5 DEF Sound

\* The holders of a session are finitely many.
LEMMA HoldersType ==
  ASSUME NEW f, NEW s
  PROVE  /\ Holders(f, s) \in Nat /\ Holders(f, s) <= Cardinality(Conn)
         /\ Cardinality(Conn) \in Nat
         /\ IsFiniteSet({c \in Conn : f[c].s = s})
         /\ Holders(f, s) = 0 => \A c \in Conn : f[c].s # s
<1> DEFINE U == {c \in Conn : f[c].s = s}
<1>1. U \subseteq Conn
  OBVIOUS
<1>2. Holders(f, s) = Cardinality(U)
  BY DEF Holders
<1>3. \A c \in Conn : f[c].s = s => c \in U
  OBVIOUS
<1> HIDE DEF U
<1>4. IsFiniteSet(U) /\ Cardinality(U) <= Cardinality(Conn)
  BY <1>1, CacheAssumption, FS_Subset
<1>5. Cardinality(U) \in Nat /\ Cardinality(Conn) \in Nat
  BY <1>4, CacheAssumption, FS_CardinalityType
<1>6. Cardinality(U) = 0 => U = {}
  BY <1>4, FS_EmptySet
<1> QED BY <1>2, <1>3, <1>4, <1>5, <1>6 DEF U

\* From f to g, only c changes what it holds, to v.
Turns(f, g, c, v) == \A d \in Conn : g[d].s = IF d = c THEN v ELSE f[d].s

\* A connection that held none holds v.
LEMMA HoldersMore ==
  ASSUME NEW f, NEW g, NEW c \in Conn, f[c].s = Nil, NEW v \in Session, Turns(f, g, c, v)
  PROVE  \A t \in Session : Holders(g, t) = Holders(f, t) + (IF t = v THEN 1 ELSE 0)
<1> SUFFICES ASSUME NEW t \in Session
             PROVE  Holders(g, t) = Holders(f, t) + (IF t = v THEN 1 ELSE 0)
  OBVIOUS
<1> DEFINE U == {d \in Conn : f[d].s = t}
           W == {d \in Conn : g[d].s = t}
<1>1. \A d \in Conn : g[d].s = IF d = c THEN v ELSE f[d].s
  BY DEF Turns
<1>2. IsFiniteSet(U) /\ Holders(f, t) = Cardinality(U) /\ Holders(g, t) = Cardinality(W)
      /\ Cardinality(U) \in Nat
  BY HoldersType DEF Holders
<1>3. c \notin U
  BY CacheAssumption
<1>4. CASE t = v
  <2>1. W = U \cup {c}
    BY <1>1, <1>4
  <2> HIDE DEF U, W
  <2>2. Cardinality(U \cup {c}) = Cardinality(U) + 1
    BY <1>2, <1>3, FS_AddElement
  <2> QED BY <1>2, <1>4, <2>1, <2>2
<1>5. CASE t # v
  <2>1. W = U
    BY <1>1, <1>3, <1>5
  <2> HIDE DEF U, W
  <2> QED BY <1>2, <1>5, <2>1
<1> QED BY <1>4, <1>5

\* A connection that held one leaves.
LEMMA HoldersLess ==
  ASSUME NEW f, NEW g, NEW c \in Conn, f[c].s \in Session, Turns(f, g, c, Nil)
  PROVE  \A t \in Session : Holders(g, t) = Holders(f, t) - (IF t = f[c].s THEN 1 ELSE 0)
<1> SUFFICES ASSUME NEW t \in Session
             PROVE  Holders(g, t) = Holders(f, t) - (IF t = f[c].s THEN 1 ELSE 0)
  OBVIOUS
<1> DEFINE U == {d \in Conn : f[d].s = t}
           W == {d \in Conn : g[d].s = t}
<1>1. \A d \in Conn : g[d].s = IF d = c THEN Nil ELSE f[d].s
  BY DEF Turns
<1>2. IsFiniteSet(U) /\ Holders(f, t) = Cardinality(U) /\ Holders(g, t) = Cardinality(W)
      /\ Cardinality(U) \in Nat
  BY HoldersType DEF Holders
<1>3. W = U \ {c}
  BY <1>1, CacheAssumption
<1>4. c \in U <=> t = f[c].s
  OBVIOUS
<1> HIDE DEF U, W
<1>5. CASE t = f[c].s
  <2>1. Cardinality(U \ {c}) = Cardinality(U) - 1
    BY <1>2, <1>4, <1>5, FS_RemoveElement
  <2> QED BY <1>2, <1>3, <1>5, <2>1
<1>6. CASE t # f[c].s
  <2>1. W = U
    BY <1>3, <1>4, <1>6
  <2> QED BY <1>2, <1>6, <2>1
<1> QED BY <1>5, <1>6

\* A connection with a session goes on.
LEMMA Moves ==
  ASSUME Placed(conn), NEW c \in Conn, conn[c].pc # "idle",
         NEW p \in {"update", "flush", "notify", "check", "store", "remove", "open"},
         p = "remove" => ~ ssl_session_is_time_valid(conn[c].s),
         Goto(c, p)
  PROVE  /\ Placed(conn')
         /\ \A t : Holders(conn', t) = Holders(conn, t)
<1>1. conn \in [Conn -> ConnRec] /\ conn' = [conn EXCEPT ![c].pc = p]
  BY DEF Placed, Goto
<1>2. conn' \in [Conn -> ConnRec]
  BY <1>1 DEF ConnRec
<1>3. /\ \A d \in Conn : conn'[d].s = conn[d].s
      /\ \A d \in Conn : conn'[d].pc = IF d = c THEN p ELSE conn[d].pc
  BY <1>1
<1>4. ASSUME NEW d \in Conn
      PROVE  /\ conn'[d].pc = "idle" <=> conn'[d].s = Nil
             /\ conn'[d].s # Nil => Known(conn'[d].s)
             /\ conn'[d].pc = "remove" => ~ ssl_session_is_time_valid(conn'[d].s)
  BY <1>3 DEF Placed
<1>5. \A t : Holders(conn', t) = Holders(conn, t)
  BY <1>3 DEF Holders
<1> QED BY <1>2, <1>4, <1>5 DEF Placed

\* A connection takes a session.
LEMMA Takes ==
  ASSUME Placed(conn), NEW c \in Conn, conn[c].pc = "idle",
         NEW p \in {"update", "check", "store"}, NEW s \in Session, Known(s),
         conn' = [conn EXCEPT ![c] = [pc |-> p, s |-> s]]
  PROVE  /\ Placed(conn')
         /\ \A t \in Session : Holders(conn', t) = Holders(conn, t) + (IF t = s THEN 1 ELSE 0)
<1> DEFINE r == [pc |-> p, s |-> s]
<1>1. conn \in [Conn -> ConnRec] /\ conn[c].s = Nil
  BY DEF Placed
<1>2. r \in ConnRec /\ r.s = s /\ r.pc = p
  BY DEF ConnRec
<1>3. conn' \in [Conn -> ConnRec] /\ \A d \in Conn : conn'[d] = IF d = c THEN r ELSE conn[d]
  BY <1>1, <1>2
<1>4. ASSUME NEW d \in Conn
      PROVE  /\ conn'[d].pc = "idle" <=> conn'[d].s = Nil
             /\ conn'[d].s # Nil => Known(conn'[d].s)
             /\ conn'[d].pc = "remove" => ~ ssl_session_is_time_valid(conn'[d].s)
  BY CacheAssumption DEF Placed
<1>5. Turns(conn, conn', c, s)
  BY <1>3 DEF Turns
<1> HIDE DEF r
<1>6. \A t \in Session : Holders(conn', t) = Holders(conn, t) + (IF t = s THEN 1 ELSE 0)
  BY <1>1, <1>5, HoldersMore
<1> QED BY <1>2, <1>3, <1>4, <1>6 DEF Placed

\* A connection gives its session back.
LEMMA Leaves ==
  ASSUME Placed(conn), NEW c \in Conn, conn[c].pc # "idle", Leave(c)
  PROVE  /\ Placed(conn')
         /\ conn[c].s \in Session /\ Known(conn[c].s)
         /\ \A t \in Session :
              Holders(conn', t) = Holders(conn, t) - (IF t = conn[c].s THEN 1 ELSE 0)
<1>1. conn \in [Conn -> ConnRec] /\ conn[c].s \in Session /\ Known(conn[c].s)
  BY DEF Placed, ConnRec
<1>2. Idle \in ConnRec /\ Idle.pc = "idle" /\ Idle.s = Nil
  BY DEF Idle, ConnRec
<1>3. conn' = [conn EXCEPT ![c] = Idle]
  BY DEF Leave
<1>4. conn' \in [Conn -> ConnRec] /\ \A d \in Conn : conn'[d] = IF d = c THEN Idle ELSE conn[d]
  BY <1>1, <1>2, <1>3
<1>5. ASSUME NEW d \in Conn
      PROVE  /\ conn'[d].pc = "idle" <=> conn'[d].s = Nil
             /\ conn'[d].s # Nil => Known(conn'[d].s)
             /\ conn'[d].pc = "remove" => ~ ssl_session_is_time_valid(conn'[d].s)
  BY <1>2, <1>4 DEF Placed
<1>6. Turns(conn, conn', c, Nil)
  BY <1>2, <1>4 DEF Turns
<1>7. \A t \in Session : Holders(conn', t) = Holders(conn, t) - (IF t = conn[c].s THEN 1 ELSE 0)
  BY <1>1, <1>6, HoldersLess
<1> QED BY <1>1, <1>4, <1>5, <1>7 DEF Placed

\* A step that leaves the sessions and the clock alone keeps the invariant when the cache
\* is sound and every reference has its owner.
LEMMA Frame ==
  ASSUME IInv, UNCHANGED <<info, now>>, size' \in CacheSizes, count' \in 0 .. FlushEvery - 1,
         outer' \subseteq Session, \A s \in outer' : Known(s),
         Sound(cache'), Placed(conn'), Owned(cache', conn', outer')
  PROVE  IInv'
<1>1. Typed'
  BY DEF IInv, Typed, Known
<1>2. Sound(cache)'
  BY DEF Sound, Indexed, Known, IdOf
<1>3. Placed(conn)'
  BY DEF Placed, Known, ssl_session_is_time_valid
<1>4. Owned(cache, conn, outer)'
  BY DEF Owned, Outside, In, Holders
<1> QED BY <1>1, <1>2, <1>3, <1>4 DEF IInv

----------------------------------------------------------------------------
(* One lemma for each action.                                              *)

\* Adding to the cache, whether the insertion succeeds or not.
LEMMA AddedKeeps ==
  ASSUME IInv, NEW s \in Session, Known(s), cache' \in Added(s)
  PROVE  /\ Sound(cache')
         /\ \A t \in Session : Outside(cache', t) = Outside(cache, t)
         /\ cache' # cache => s \in In(cache') /\ (size > 0 => Items(cache') <= size)
<1>1. Sound(cache) /\ size \in Nat
  BY CacheAssumption DEF IInv, Typed
<1>2. CASE cache' = cache
  BY <1>1, <1>2
<1>3. CASE cache' = add_session_locked(UpRef(cache, s), s)
  BY <1>1, <1>3, AddKeeps
<1> QED BY <1>2, <1>3 DEF Added

\* What a flush removes is in the cache.
LEMMA FlushedAtCached ==
  ASSUME IInv, NEW t
  PROVE  FlushedAt(t) \in SUBSET In(cache)
<1> SUFFICES ASSUME NEW s \in FlushedAt(t) PROVE s \in In(cache)
  OBVIOUS
<1>1. s \in Session /\ info[s] # Nil /\ cache.table[IdOf(s)] = s
  BY DEF FlushedAt
<1>2. IdOf(s) \in Id
  BY <1>1 DEF IInv, Typed, IdOf
<1> QED BY <1>1, <1>2 DEF In

\* ssl_update_cache adds and counts.
LEMMA UpdateKeeps ==
  ASSUME IInv, NEW c \in Conn, ssl_update_cache(c)
  PROVE  IInv'
<1>1. Placed(conn) /\ conn[c].pc # "idle" /\ conn[c].s \in Session /\ Known(conn[c].s)
  BY DEF IInv, ssl_update_cache, Placed, ConnRec
<1>2. /\ Sound(cache')
      /\ \A t \in Session : Outside(cache', t) = Outside(cache, t)
  BY <1>1, AddedKeeps DEF ssl_update_cache
<1>3. count' \in 0 .. FlushEvery - 1
  BY CacheAssumption DEF IInv, Typed, ssl_update_cache
<1>4. /\ Placed(conn')
      /\ \A t : Holders(conn', t) = Holders(conn, t)
  <2>1. CASE count' = 0
    <3>1. Goto(c, "flush")
      BY <2>1 DEF ssl_update_cache
    <3> QED BY <1>1, <3>1, Moves
  <2>2. CASE count' # 0
    <3>1. Goto(c, "notify")
      BY <2>2 DEF ssl_update_cache
    <3> QED BY <1>1, <3>1, Moves
  <2> QED BY <2>1, <2>2
<1>5. UNCHANGED <<info, size, now, outer>>
  BY DEF ssl_update_cache
<1>6. Owned(cache', conn', outer')
  BY <1>2, <1>4, <1>5 DEF IInv, Owned
<1>7. size' \in CacheSizes /\ outer' \subseteq Session /\ \A s \in outer' : Known(s)
  BY <1>5 DEF IInv, Typed
<1> QED BY <1>2, <1>3, <1>4, <1>5, <1>6, <1>7, Frame

\* ssl_lookup_session stores what it was given.
LEMMA StoreKeeps ==
  ASSUME IInv, NEW c \in Conn, Store(c)
  PROVE  IInv'
<1>1. Placed(conn) /\ conn[c].pc # "idle" /\ conn[c].s \in Session /\ Known(conn[c].s)
  BY DEF IInv, Store, Placed, ConnRec
<1>2. /\ Sound(cache')
      /\ \A t \in Session : Outside(cache', t) = Outside(cache, t)
  BY <1>1, AddedKeeps DEF Store
<1>3. Goto(c, "check") /\ UNCHANGED <<info, size, count, now, outer>>
  BY DEF Store
<1>4. /\ Placed(conn')
      /\ \A t : Holders(conn', t) = Holders(conn, t)
  BY <1>1, <1>3, Moves
<1>5. Owned(cache', conn', outer')
  BY <1>2, <1>3, <1>4 DEF IInv, Owned
<1>6. /\ size' \in CacheSizes /\ count' \in 0 .. FlushEvery - 1
      /\ outer' \subseteq Session /\ \A s \in outer' : Known(s)
  BY <1>3 DEF IInv, Typed
<1> QED BY <1>2, <1>3, <1>4, <1>5, <1>6, Frame

\* The automatic flush.
LEMMA AutoFlushKeeps ==
  ASSUME IInv, NEW c \in Conn, AutoFlush(c)
  PROVE  IInv'
<1>1. Placed(conn) /\ conn[c].pc # "idle" /\ Sound(cache)
  BY DEF IInv, AutoFlush
<1>2. PICK t : cache' = Flushed(FlushedAt(t))
  BY DEF AutoFlush
<1>3. /\ Sound(cache')
      /\ \A s \in Session : Outside(cache', s) = Outside(cache, s)
  BY <1>1, <1>2, FlushedAtCached, FlushedKeeps
<1>4. Goto(c, "notify") /\ UNCHANGED <<info, size, count, now, outer>>
  BY DEF AutoFlush
<1>5. /\ Placed(conn')
      /\ \A s : Holders(conn', s) = Holders(conn, s)
  BY <1>1, <1>4, Moves
<1>6. Owned(cache', conn', outer')
  BY <1>3, <1>4, <1>5 DEF IInv, Owned
<1>7. /\ size' \in CacheSizes /\ count' \in 0 .. FlushEvery - 1
      /\ outer' \subseteq Session /\ \A s \in outer' : Known(s)
  BY <1>4 DEF IInv, Typed
<1> QED BY <1>3, <1>4, <1>5, <1>6, <1>7, Frame

\* A flush by the application.
LEMMA FlushKeeps ==
  ASSUME IInv, SSL_CTX_flush_sessions
  PROVE  IInv'
<1>1. PICK t : cache' = Flushed(FlushedAt(t))
  BY DEF SSL_CTX_flush_sessions
<1>2. /\ Sound(cache')
      /\ \A s \in Session : Outside(cache', s) = Outside(cache, s)
  BY <1>1, FlushedAtCached, FlushedKeeps DEF IInv
<1>3. UNCHANGED <<info, size, count, now, outer, conn>>
  BY DEF SSL_CTX_flush_sessions
<1>4. Owned(cache', conn', outer') /\ Placed(conn')
  BY <1>2, <1>3 DEF IInv, Owned
<1>5. /\ size' \in CacheSizes /\ count' \in 0 .. FlushEvery - 1
      /\ outer' \subseteq Session /\ \A s \in outer' : Known(s)
  BY <1>3 DEF IInv, Typed
<1> QED BY <1>2, <1>3, <1>4, <1>5, Frame

\* new_session_cb keeps its reference, or not.
LEMMA NotifyKeeps ==
  ASSUME IInv, NEW c \in Conn, Notify(c)
  PROVE  IInv'
<1> DEFINE s == conn[c].s
<1>1. Placed(conn) /\ conn[c].pc # "idle" /\ s \in Session /\ Known(s) /\ Sound(cache)
  BY DEF IInv, Notify, Placed, ConnRec
<1>2. Goto(c, "open") /\ UNCHANGED <<info, size, count, now>>
  BY DEF Notify
<1>3. /\ Placed(conn')
      /\ \A t : Holders(conn', t) = Holders(conn, t)
  BY <1>1, <1>2, Moves
<1>4. size' \in CacheSizes /\ count' \in 0 .. FlushEvery - 1
  BY <1>2 DEF IInv, Typed
<1>5. CASE s \notin outer /\ outer' = outer \cup {s} /\ cache' = UpRef(cache, s)
  <2>1. outer' \subseteq Session /\ \A t \in outer' : Known(t)
    BY <1>1, <1>5 DEF IInv, Typed
  <2> HIDE DEF s
  <2>2. /\ Sound(cache')
        /\ \A t \in Session : Outside(cache', t) = Outside(cache, t) + (IF t = s THEN 1 ELSE 0)
    BY <1>1, <1>5, RefTaken
  <2>3. ASSUME NEW t \in Session
        PROVE  Outside(cache', t) = Holders(conn', t) + (IF t \in outer' THEN 1 ELSE 0)
    <3>1. /\ Outside(cache, t) = Holders(conn, t) + (IF t \in outer THEN 1 ELSE 0)
          /\ Holders(conn, t) \in Nat
      BY HoldersType DEF IInv, Owned
    <3> QED BY <1>3, <1>5, <2>2, <3>1
  <2>4. Owned(cache', conn', outer')
    BY <2>3 DEF Owned
  <2> QED BY <1>2, <1>3, <1>4, <2>1, <2>2, <2>4, Frame
<1>6. CASE UNCHANGED <<outer, cache>>
  <2>1. outer' \subseteq Session /\ \A t \in outer' : Known(t)
    BY <1>6 DEF IInv, Typed
  <2>2. Owned(cache', conn', outer') /\ Sound(cache')
    BY <1>1, <1>3, <1>6 DEF IInv, Owned
  <2> QED BY <1>2, <1>3, <1>4, <2>1, <2>2, Frame
<1> QED BY <1>5, <1>6 DEF Notify

\* ssl_lookup_session finds a session in the cache, or in the application's.
LEMMA LookupKeeps ==
  ASSUME IInv, NEW c \in Conn, Lookup(c)
  PROVE  IInv'
<1>1. Placed(conn) /\ conn[c].pc = "idle" /\ Sound(cache)
  BY DEF IInv, Lookup
<1>2. UNCHANGED <<info, size, count, now, outer>>
  BY DEF Lookup
<1>3. \E s \in Session : /\ Known(s) /\ cache' = UpRef(cache, s)
                         /\ \E p \in {"check", "store"} :
                              conn' = [conn EXCEPT ![c] = [pc |-> p, s |-> s]]
  <2>1. PICK i \in Id :
          \/ /\ cache.table[i] # Nil
             /\ cache' = UpRef(cache, cache.table[i])
             /\ conn' = [conn EXCEPT ![c] = [pc |-> "check", s |-> cache.table[i]]]
          \/ /\ cache.table[i] = Nil
             /\ \E s \in outer : /\ IdOf(s) = i
                                 /\ cache' = UpRef(cache, s)
                                 /\ conn' = [conn EXCEPT ![c] = [pc |-> "store", s |-> s]]
    BY DEF Lookup
  <2>2. CASE cache.table[i] # Nil
    <3>1. cache.table[i] \in Session /\ Known(cache.table[i])
      BY <1>1, <2>2 DEF Sound, CacheRec, Indexed
    <3> QED BY <2>1, <2>2, <3>1
  <2>3. CASE cache.table[i] = Nil
    BY <2>1, <2>3 DEF IInv, Typed
  <2> QED BY <2>2, <2>3
<1>4. PICK s \in Session : /\ Known(s) /\ cache' = UpRef(cache, s)
                           /\ \E p \in {"check", "store"} :
                                conn' = [conn EXCEPT ![c] = [pc |-> p, s |-> s]]
  BY <1>3
<1>5. PICK p \in {"check", "store"} : conn' = [conn EXCEPT ![c] = [pc |-> p, s |-> s]]
  BY <1>4
<1>6. /\ Placed(conn')
      /\ \A t \in Session : Holders(conn', t) = Holders(conn, t) + (IF t = s THEN 1 ELSE 0)
  BY <1>1, <1>4, <1>5, Takes
<1>7. /\ Sound(cache')
      /\ \A t \in Session : Outside(cache', t) = Outside(cache, t) + (IF t = s THEN 1 ELSE 0)
  BY <1>1, <1>4, RefTaken
<1>8. ASSUME NEW t \in Session
      PROVE  Outside(cache', t) = Holders(conn', t) + (IF t \in outer' THEN 1 ELSE 0)
  <2>1. /\ Outside(cache, t) = Holders(conn, t) + (IF t \in outer THEN 1 ELSE 0)
        /\ Holders(conn, t) \in Nat
    BY HoldersType DEF IInv, Owned
  <2> QED BY <1>2, <1>6, <1>7, <2>1
<1>9. Owned(cache', conn', outer')
  BY <1>8 DEF Owned
<1>10. /\ size' \in CacheSizes /\ count' \in 0 .. FlushEvery - 1
       /\ outer' \subseteq Session /\ \A t \in outer' : Known(t)
  BY <1>2 DEF IInv, Typed
<1> QED BY <1>2, <1>6, <1>7, <1>9, <1>10, Frame

\* ssl_lookup_session looks at the clock.
LEMMA CheckTimeKeeps ==
  ASSUME IInv, NEW c \in Conn, CheckTime(c)
  PROVE  IInv'
<1>1. Placed(conn) /\ conn[c].pc # "idle" /\ Sound(cache)
  BY DEF IInv, CheckTime
<1>2. UNCHANGED <<cache, info, size, count, now, outer>>
  BY DEF CheckTime
<1>3. /\ Placed(conn')
      /\ \A t : Holders(conn', t) = Holders(conn, t)
  <2>1. CASE ssl_session_is_time_valid(conn[c].s)
    <3>1. Goto(c, "open")
      BY <2>1 DEF CheckTime, FinishHandshake
    <3> QED BY <1>1, <3>1, Moves
  <2>2. CASE ~ ssl_session_is_time_valid(conn[c].s)
    <3>1. Goto(c, "remove")
      BY <2>2 DEF CheckTime
    <3> QED BY <1>1, <2>2, <3>1, Moves
  <2> QED BY <2>1, <2>2
<1>4. Owned(cache', conn', outer') /\ Sound(cache')
  BY <1>2, <1>3 DEF IInv, Owned
<1>5. /\ size' \in CacheSizes /\ count' \in 0 .. FlushEvery - 1
      /\ outer' \subseteq Session /\ \A t \in outer' : Known(t)
  BY <1>2 DEF IInv, Typed
<1> QED BY <1>2, <1>3, <1>4, <1>5, Frame

\* SSL_CTX_remove_session: at most the session asked for leaves the cache.
LEMMA RemoveAny ==
  ASSUME IInv, NEW s \in Session, Known(s), NEW C, C = remove_session(cache, s)
  PROVE  /\ Sound(C) /\ In(cache) \ In(C) \subseteq {s}
         /\ \A t \in Session : Outside(C, t) = Outside(cache, t)
<1>1. Sound(cache)
  BY DEF IInv
<1>2. CASE s \in In(cache)
  <2>1. /\ Sound(C) /\ In(C) = In(cache) \ {s}
        /\ \A t \in Session : Outside(C, t) = Outside(cache, t)
    BY <1>1, <1>2, Removed
  <2> QED BY <2>1
<1>3. CASE s \notin In(cache)
  <2>1. s \in (Session \ In(cache)) \cup {Nil} /\ IdOf(s) \in Id
    BY <1>3 DEF Known, IdOf
  <2>2. C = cache
    BY <1>1, <2>1, NotRemoved
  <2> QED BY <1>1, <2>2
<1> QED BY <1>2, <1>3

\* A connection gives its reference back.
LEMMA GivenBack ==
  ASSUME IInv, NEW c \in Conn, conn[c].pc # "idle", Leave(c),
         UNCHANGED <<info, size, count, now, outer>>,
         NEW C, Sound(C), \A t \in Session : Outside(C, t) = Outside(cache, t),
         cache' = SSL_SESSION_free(C, conn[c].s)
  PROVE  IInv'
<1> DEFINE s == conn[c].s
<1>1. /\ Placed(conn') /\ s \in Session
      /\ \A t \in Session : Holders(conn', t) = Holders(conn, t) - (IF t = s THEN 1 ELSE 0)
  BY Leaves DEF IInv
<1>2. cache' = SSL_SESSION_free(C, s)
  OBVIOUS
<1> HIDE DEF s
<1>3. /\ Sound(cache')
      /\ \A t \in Session : Outside(cache', t) = Outside(C, t) - (IF t = s THEN 1 ELSE 0)
  BY <1>1, <1>2, RefDropped
<1>4. ASSUME NEW t \in Session
      PROVE  Outside(cache', t) = Holders(conn', t) + (IF t \in outer' THEN 1 ELSE 0)
  <2>1. /\ Outside(cache, t) = Holders(conn, t) + (IF t \in outer THEN 1 ELSE 0)
        /\ Holders(conn, t) \in Nat
    BY HoldersType DEF IInv, Owned
  <2>2. Outside(C, t) = Outside(cache, t) /\ outer' = outer
    OBVIOUS
  <2> QED BY <1>1, <1>3, <2>1, <2>2
<1>5. Owned(cache', conn', outer')
  BY <1>4 DEF Owned
<1>6. /\ size' \in CacheSizes /\ count' \in 0 .. FlushEvery - 1
      /\ outer' \subseteq Session /\ \A t \in outer' : Known(t)
  BY DEF IInv, Typed
<1> QED BY <1>1, <1>3, <1>5, <1>6, Frame

\* The expired session is removed.
LEMMA RemoveExpiredKeeps ==
  ASSUME IInv, NEW c \in Conn, RemoveExpired(c)
  PROVE  IInv'
<1> DEFINE C == remove_session(cache, conn[c].s)
<1>1. /\ conn[c].pc # "idle" /\ Leave(c) /\ UNCHANGED <<info, size, count, now, outer>>
      /\ cache' = SSL_SESSION_free(C, conn[c].s)
  BY DEF RemoveExpired
<1>2. conn[c].s \in Session /\ Known(conn[c].s)
  BY <1>1 DEF IInv, Placed, ConnRec
<1>3. Sound(C) /\ \A t \in Session : Outside(C, t) = Outside(cache, t)
  BY <1>2, RemoveAny
<1> HIDE DEF C
<1> QED BY <1>1, <1>3, GivenBack

\* The connection is freed.
LEMMA CloseKeeps ==
  ASSUME IInv, NEW c \in Conn, Close(c)
  PROVE  IInv'
<1>1. PICK C \in {cache, remove_session(cache, conn[c].s)} :
        cache' = SSL_SESSION_free(C, conn[c].s)
  BY DEF Close
<1>2. /\ conn[c].pc # "idle" /\ Leave(c) /\ UNCHANGED <<info, size, count, now, outer>>
  BY DEF Close
<1>3. conn[c].s \in Session /\ Known(conn[c].s)
  BY <1>2 DEF IInv, Placed, ConnRec
<1>4. Sound(C) /\ \A t \in Session : Outside(C, t) = Outside(cache, t)
  <2>1. CASE C = cache
    BY <2>1 DEF IInv
  <2>2. CASE C = remove_session(cache, conn[c].s)
    BY <1>3, <2>2, RemoveAny
  <2> QED BY <2>1, <2>2
<1> QED BY <1>1, <1>2, <1>4, GivenBack

\* The limit is changed.
LEMMA SetSizeKeeps ==
  ASSUME IInv, SSL_CTX_sess_set_cache_size
  PROVE  IInv'
<1>1. UNCHANGED <<cache, info, count, now, outer, conn>> /\ size' \in CacheSizes
  BY DEF SSL_CTX_sess_set_cache_size
<1>2. /\ count' \in 0 .. FlushEvery - 1
      /\ outer' \subseteq Session /\ \A t \in outer' : Known(t)
      /\ Sound(cache') /\ Placed(conn') /\ Owned(cache', conn', outer')
  BY <1>1 DEF IInv, Typed
<1> QED BY <1>1, <1>2, Frame

\* The application drops a session.
LEMMA DropKeeps ==
  ASSUME IInv, DropExternal
  PROVE  IInv'
<1>1. PICK s \in outer : outer' = outer \ {s} /\ cache' = SSL_SESSION_free(cache, s)
  BY DEF DropExternal
<1>2. UNCHANGED <<info, size, count, now, conn>>
  BY DEF DropExternal
<1>3. /\ size' \in CacheSizes /\ count' \in 0 .. FlushEvery - 1
      /\ outer' \subseteq Session /\ \A t \in outer' : Known(t)
      /\ Placed(conn') /\ s \in Session /\ Sound(cache)
  BY <1>1, <1>2 DEF IInv, Typed
<1>4. /\ Sound(cache')
      /\ \A t \in Session : Outside(cache', t) = Outside(cache, t) - (IF t = s THEN 1 ELSE 0)
  BY <1>1, <1>3, RefDropped
<1>5. ASSUME NEW t \in Session
      PROVE  Outside(cache', t) = Holders(conn', t) + (IF t \in outer' THEN 1 ELSE 0)
  <2>1. /\ Outside(cache, t) = Holders(conn, t) + (IF t \in outer THEN 1 ELSE 0)
        /\ Holders(conn, t) \in Nat
    BY HoldersType DEF IInv, Owned
  <2> QED BY <1>1, <1>2, <1>4, <2>1
<1>6. Owned(cache', conn', outer')
  BY <1>5 DEF Owned
<1> QED BY <1>2, <1>3, <1>4, <1>6, Frame

\* The clock moves on: what was created stays so, and what has expired too.
LEMMA TickKeeps ==
  ASSUME IInv, Tick
  PROVE  IInv'
<1>1. /\ UNCHANGED <<cache, info, size, count, outer, conn>>
      /\ now \in 1 .. MaxTime /\ now < MaxTime /\ now' = now + 1
  BY DEF Tick, IInv, Typed
<1>2. now' \in 1 .. MaxTime
  BY <1>1, CacheAssumption
<1>3. ASSUME NEW s, Known(s) PROVE Known(s)'
  <2>1. info'[s] \in [id : Id, time : 1 .. MaxTime] /\ info[s].time \in Int
        /\ info'[s] = info[s] /\ info[s].time <= now
    BY <1>1, <1>3 DEF Known
  <2> QED BY <1>1, <2>1 DEF Known
<1>4. Typed'
  BY <1>1, <1>2, <1>3 DEF IInv, Typed
<1>5. Sound(cache)'
  <2>1. Sound(cache)
    BY DEF IInv
  <2>2. (cache \in CacheRec)' /\ Chain(cache, In(cache))'
    BY <1>1, <2>1 DEF Sound
  <2>3. Indexed(cache)'
    BY <1>1, <1>3, <2>1 DEF Sound, Indexed, IdOf
  <2> QED BY <2>2, <2>3 DEF Sound
<1>6. Placed(conn)'
  <2>1. ASSUME NEW c \in Conn, conn[c].pc = "remove"
        PROVE  ~ ssl_session_is_time_valid(conn[c].s)'
    <3>1. Known(conn[c].s) /\ ~ ssl_session_is_time_valid(conn[c].s)
      BY <2>1 DEF IInv, Placed
    <3>2. info[conn[c].s].time \in Int /\ info[conn[c].s].time <= now
      BY <3>1 DEF Known
    <3> QED BY <1>1, <3>1, <3>2, CacheAssumption DEF ssl_session_is_time_valid
  <2> QED BY <1>1, <1>3, <2>1 DEF IInv, Placed, ssl_session_is_time_valid
<1>7. Owned(cache, conn, outer)'
  BY <1>1 DEF IInv, Owned, Outside, In, Holders
<1> QED BY <1>4, <1>5, <1>6, <1>7 DEF IInv

\* A session without references is in nobody's hands.
LEMMA Unreferenced ==
  ASSUME IInv, NEW s \in Session, cache.refs[s] = 0
  PROVE  s \notin In(cache) /\ s \notin outer /\ \A c \in Conn : conn[c].s # s
<1>1. /\ Outside(cache, s) = Holders(conn, s) + (IF s \in outer THEN 1 ELSE 0)
      /\ Holders(conn, s) \in Nat
      /\ Holders(conn, s) = 0 => \A c \in Conn : conn[c].s # s
  BY HoldersType DEF IInv, Owned
<1>2. Outside(cache, s) = 0 - (IF s \in In(cache) THEN 1 ELSE 0)
  BY DEF Outside
<1> QED BY <1>1, <1>2

\* A full handshake makes a session of one that nobody refers to.
LEMMA FullHandshakeKeeps ==
  ASSUME IInv, NEW c \in Conn, FullHandshake(c)
  PROVE  IInv'
<1>1. PICK s \in Session, i \in Id :
        /\ cache.refs[s] = 0
        /\ info' = [info EXCEPT ![s] = [id |-> i, time |-> now]]
        /\ cache' = UpRef(cache, s)
        /\ conn' = [conn EXCEPT ![c] = [pc |-> "update", s |-> s]]
  BY DEF FullHandshake, FinishHandshake
<1>2. conn[c].pc = "idle" /\ UNCHANGED <<size, count, now, outer>>
  BY DEF FullHandshake
<1>3. s \notin In(cache) /\ s \notin outer /\ \A d \in Conn : conn[d].s # s
  BY <1>1, Unreferenced
<1>4. /\ info \in [Session -> [id : Id, time : 1 .. MaxTime] \cup {Nil}]
      /\ now \in 1 .. MaxTime /\ Sound(cache) /\ Placed(conn) /\ outer \subseteq Session
  BY DEF IInv, Typed
<1>5. /\ info' \in [Session -> [id : Id, time : 1 .. MaxTime] \cup {Nil}]
      /\ \A t \in Session \ {s} : info'[t] = info[t]
      /\ info'[s] = [id |-> i, time |-> now]
  BY <1>1, <1>4
<1>6. Known(s)' /\ \A t \in Session \ {s} : Known(t) => Known(t)'
  BY <1>2, <1>4, <1>5 DEF Known
<1>7. Typed'
  BY <1>2, <1>5, <1>6 DEF IInv, Typed
<1>8. /\ Sound(cache') /\ In(cache') = In(cache)
      /\ \A t \in Session : Outside(cache', t) = Outside(cache, t) + (IF t = s THEN 1 ELSE 0)
  BY <1>1, <1>4, RefTaken
<1>9. Sound(cache)'
  <2>1. (cache \in CacheRec)' /\ Chain(cache, In(cache))'
    BY <1>8 DEF Sound
  <2>2. ASSUME NEW k \in Id, cache'.table[k] # Nil
        PROVE  (Known(cache.table[k]) /\ IdOf(cache.table[k]) = k)'
    <3>1. /\ cache'.table[k] \in Session
          /\ Known(cache'.table[k]) /\ IdOf(cache'.table[k]) = k
      BY <1>8, <2>2 DEF Sound, CacheRec, Indexed
    <3>2. cache'.table[k] # s
      BY <1>3, <1>8, <3>1 DEF In
    <3> QED BY <1>2, <1>5, <3>1, <3>2 DEF IdOf, Known
  <2>3. Indexed(cache)'
    BY <2>2 DEF Indexed
  <2> QED BY <2>1, <2>3 DEF Sound
<1> DEFINE r == [pc |-> "update", s |-> s]
<1>10. r \in ConnRec /\ r.s = s /\ r.pc = "update"
  BY DEF ConnRec
<1>11. conn \in [Conn -> ConnRec] /\ conn[c].s = Nil
  BY <1>2, <1>4 DEF Placed
<1>12. conn' \in [Conn -> ConnRec] /\ \A d \in Conn : conn'[d] = IF d = c THEN r ELSE conn[d]
  BY <1>1, <1>10, <1>11
<1> HIDE DEF r
<1>13. Placed(conn)'
  <2>1. ASSUME NEW d \in Conn
        PROVE  /\ (conn[d].pc = "idle" <=> conn[d].s = Nil)'
               /\ (conn[d].s # Nil => Known(conn[d].s))'
               /\ (conn[d].pc = "remove" => ~ ssl_session_is_time_valid(conn[d].s))'
    <3>1. CASE d = c
      BY <1>6, <1>10, <1>12, <3>1, CacheAssumption
    <3>2. CASE d # c
      <4>1. conn'[d] = conn[d] /\ conn[d].s \in (Session \ {s}) \cup {Nil}
        BY <1>3, <1>12, <3>2 DEF ConnRec
      <4>2. /\ conn[d].pc = "idle" <=> conn[d].s = Nil
            /\ conn[d].s # Nil => Known(conn[d].s)
            /\ conn[d].pc = "remove" => ~ ssl_session_is_time_valid(conn[d].s)
        BY <1>4 DEF Placed
      <4>3. (conn[d].pc = "remove" => ~ ssl_session_is_time_valid(conn[d].s))'
        BY <1>2, <1>5, <4>1, <4>2 DEF ssl_session_is_time_valid
      <4> QED BY <1>2, <1>5, <4>1, <4>2, <4>3 DEF Known
    <3> QED BY <3>1, <3>2
  <2>2. (conn \in [Conn -> ConnRec])'
    BY <1>12 DEF ConnRec
  <2> QED BY <2>1, <2>2 DEF Placed
<1>14. Turns(conn, conn', c, s)
  BY <1>10, <1>12 DEF Turns
<1>15. \A t \in Session : Holders(conn', t) = Holders(conn, t) + (IF t = s THEN 1 ELSE 0)
  BY <1>11, <1>14, HoldersMore
<1>16. ASSUME NEW t \in Session
       PROVE  Outside(cache', t) = Holders(conn', t) + (IF t \in outer' THEN 1 ELSE 0)
  <2>1. /\ Outside(cache, t) = Holders(conn, t) + (IF t \in outer THEN 1 ELSE 0)
        /\ Holders(conn, t) \in Nat
    BY HoldersType DEF IInv, Owned
  <2> QED BY <1>2, <1>8, <1>15, <2>1
<1>17. Owned(cache, conn, outer)'
  BY <1>16 DEF Owned, Outside, In, Holders
<1> QED BY <1>7, <1>9, <1>13, <1>17 DEF IInv

----------------------------------------------------------------------------
(* The theorems.                                                           *)

\* An empty cache is sound, and nobody holds anything.
LEMMA InitHolds == Init => IInv
<1> SUFFICES ASSUME Init PROVE IInv
  OBVIOUS
<1>1. Typed
  BY CacheAssumption DEF Init, Typed
<1>2. cache \in CacheRec /\ In(cache) = {} /\ Indexed(cache)
  BY CacheAssumption DEF Init, CacheRec, Link, In, Indexed
<1>3. Chain(cache, {})
  BY CacheAssumption DEF Init, Chain
<1>4. Placed(conn)
  BY DEF Init, Placed, Idle, ConnRec
<1>5. ASSUME NEW s \in Session
      PROVE  Outside(cache, s) = Holders(conn, s) + (IF s \in outer THEN 1 ELSE 0)
  <2>1. {c \in Conn : conn[c].s = s} = {}
    BY CacheAssumption DEF Init, Idle
  <2>2. Holders(conn, s) = 0
    BY <2>1, FS_EmptySet DEF Holders
  <2>3. cache.refs[s] = 0 /\ outer = {}
    BY DEF Init
  <2>4. s \notin In(cache)
    BY <1>2
  <2>5. Outside(cache, s) = 0 - 0
    BY <2>3, <2>4 DEF Outside
  <2> QED BY <2>2, <2>3, <2>5
<1> QED BY <1>1, <1>2, <1>3, <1>4, <1>5 DEF IInv, Sound, Owned

\* Every step keeps the invariant.
LEMMA NextKeeps ==
  ASSUME IInv, [Next]_vars
  PROVE  IInv'
<1>1. CASE UNCHANGED vars
  <2>1. UNCHANGED <<cache, info, size, count, now, outer, conn>>
    BY <1>1 DEF vars
  <2>2. /\ size' \in CacheSizes /\ count' \in 0 .. FlushEvery - 1
        /\ outer' \subseteq Session /\ \A t \in outer' : Known(t)
        /\ Sound(cache') /\ Placed(conn') /\ Owned(cache', conn', outer')
    BY <2>1 DEF IInv, Typed
  <2> QED BY <2>1, <2>2, Frame
<1>2. ASSUME NEW c \in Conn, FullHandshake(c) PROVE IInv'
  BY <1>2, FullHandshakeKeeps
<1>3. ASSUME NEW c \in Conn, ssl_update_cache(c) PROVE IInv'
  BY <1>3, UpdateKeeps
<1>4. ASSUME NEW c \in Conn, AutoFlush(c) PROVE IInv'
  BY <1>4, AutoFlushKeeps
<1>5. ASSUME NEW c \in Conn, Notify(c) PROVE IInv'
  BY <1>5, NotifyKeeps
<1>6. ASSUME NEW c \in Conn, Lookup(c) PROVE IInv'
  BY <1>6, LookupKeeps
<1>7. ASSUME NEW c \in Conn, Store(c) PROVE IInv'
  BY <1>7, StoreKeeps
<1>8. ASSUME NEW c \in Conn, CheckTime(c) PROVE IInv'
  BY <1>8, CheckTimeKeeps
<1>9. ASSUME NEW c \in Conn, RemoveExpired(c) PROVE IInv'
  BY <1>9, RemoveExpiredKeeps
<1>10. ASSUME NEW c \in Conn, Close(c) PROVE IInv'
  BY <1>10, CloseKeeps
<1>11. CASE SSL_CTX_flush_sessions
  BY <1>11, FlushKeeps
<1>12. CASE SSL_CTX_sess_set_cache_size
  BY <1>12, SetSizeKeeps
<1>13. CASE DropExternal
  BY <1>13, DropKeeps
<1>14. CASE Tick
  BY <1>14, TickKeeps
<1> QED
  BY <1>1, <1>2, <1>3, <1>4, <1>5, <1>6, <1>7, <1>8, <1>9, <1>10, <1>11, <1>12, <1>13, <1>14
     DEF Next

\* The cache is always sound and every reference has its owner, however connections,
\* flushes, resizings and the clock interleave.
THEOREM Inductive == Spec => []IInv
BY InitHolds, NextKeeps, PTL DEF Spec

\* What the invariant says of the cache that everybody sees.
LEMMA CachedIsIn == Cached = In(cache)
BY DEF Cached, In

\* Reference counts are exact: no session is freed while it can be reached, none is
\* leaked by a collision, an eviction, a flush or a failed insertion.
THEOREM ReferencesExact == Spec => []RefsExact
<1>1. ASSUME IInv PROVE RefsExact
  <2> SUFFICES ASSUME NEW s \in Session
               PROVE  cache.refs[s] = Cardinality({c \in Conn : conn[c].s = s})
                                        + (IF s \in Cached THEN 1 ELSE 0)
                                        + (IF s \in outer THEN 1 ELSE 0)
    BY DEF RefsExact
  <2>1. /\ Outside(cache, s) = Holders(conn, s) + (IF s \in outer THEN 1 ELSE 0)
        /\ Holders(conn, s) \in Nat /\ cache.refs[s] \in Int
    BY <1>1, HoldersType DEF IInv, Owned, Sound, CacheRec
  <2>2. Outside(cache, s) = cache.refs[s] - (IF s \in Cached THEN 1 ELSE 0)
    BY CachedIsIn DEF Outside
  <2>3. cache.refs[s] = Holders(conn, s) + (IF s \in Cached THEN 1 ELSE 0)
                                         + (IF s \in outer THEN 1 ELSE 0)
    BY <2>1, <2>2
  <2> QED BY <2>3 DEF Holders
<1> QED BY <1>1, Inductive, PTL

\* The table and the doubly linked list always hold the same sessions, and the list is a
\* list: SSL_SESSION_list_add and SSL_SESSION_list_remove never lose or repeat one.
THEOREM ListAndTableAgree == Spec => []ListMatchesTable
<1>1. ASSUME IInv PROVE ListMatchesTable
  <2>1. cache \in CacheRec /\ Chain(cache, Cached)
    BY <1>1, CachedIsIn DEF IInv, Sound
  <2>2. ASSUME NEW s \in Session
        PROVE  cache.refs[s] \in 0 .. Cardinality(Conn) + 2
    <3>1. /\ Outside(cache, s) = Holders(conn, s) + (IF s \in outer THEN 1 ELSE 0)
          /\ Holders(conn, s) \in Nat /\ Holders(conn, s) <= Cardinality(Conn)
          /\ Cardinality(Conn) \in Nat /\ cache.refs[s] \in Int
      BY <1>1, <2>1, HoldersType DEF IInv, Owned, CacheRec
    <3>2. Outside(cache, s) = cache.refs[s] - (IF s \in In(cache) THEN 1 ELSE 0)
      BY DEF Outside
    <3> QED BY <3>1, <3>2
  <2>3. TypeOK
    BY <1>1, <2>1, <2>2 DEF IInv, Typed, Placed, ConnRec, CacheRec, TypeOK
  <2> QED BY <2>1, <2>3 DEF Chain, ListMatchesTable
<1> QED BY <1>1, Inductive, PTL

\* What changes a connection is an action of its own.
LEMMA OwnStep ==
  ASSUME IInv, [Next]_vars, NEW c \in Conn, conn'[c] # conn[c]
  PROVE  \/ FullHandshake(c) \/ ssl_update_cache(c) \/ AutoFlush(c) \/ Notify(c)
         \/ Lookup(c) \/ Store(c) \/ CheckTime(c) \/ RemoveExpired(c) \/ Close(c)
<1>1. conn \in [Conn -> ConnRec]
  BY DEF IInv, Placed
<1>2. Next
  BY DEF vars
<1>3. PICK d \in Conn :
        \/ FullHandshake(d) \/ ssl_update_cache(d) \/ AutoFlush(d) \/ Notify(d)
        \/ Lookup(d) \/ Store(d) \/ CheckTime(d) \/ RemoveExpired(d) \/ Close(d)
  BY <1>2 DEF Next, SSL_CTX_flush_sessions, SSL_CTX_sess_set_cache_size, DropExternal, Tick
<1>4. \E r : conn' = [conn EXCEPT ![d] = r]
  <2>1. \A p : Goto(d, p) => conn' = [conn EXCEPT ![d] = [conn[d] EXCEPT !.pc = p]]
    BY <1>1 DEF Goto
  <2> QED BY <1>3, <2>1 DEF FullHandshake, ssl_update_cache, AutoFlush, Notify, Lookup, Store,
             CheckTime, RemoveExpired, Close, Leave
<1>5. d = c
  BY <1>1, <1>4
<1> QED BY <1>3, <1>5

\* An addition leaves the cache within its limit, whatever it was before, and never
\* evicts what it has just added.
THEOREM BoundedByAdding == Spec => BoundedAfterAdd
<1>1. ASSUME IInv, [Next]_vars, NEW c \in Conn,
             conn[c].pc \in {"update", "store"}, conn'[c] # conn[c], cache' # cache
      PROVE  conn[c].s \in Cached' /\ (size > 0 => Cardinality(Cached') <= size)
  <2>1. cache' \in Added(conn[c].s)
    BY <1>1, OwnStep DEF FullHandshake, ssl_update_cache, AutoFlush, Notify, Lookup, Store,
       CheckTime, RemoveExpired, Close
  <2>2. conn[c].s \in Session /\ Known(conn[c].s)
    BY <1>1 DEF IInv, Placed, ConnRec
  <2>3. /\ Sound(cache') /\ conn[c].s \in In(cache')
        /\ size > 0 => Items(cache') <= size
    BY <1>1, <2>1, <2>2, AddedKeeps
  <2>4. Cardinality(In(cache')) = Items(cache')
    BY <2>3, ItemsCount DEF Sound
  <2>5. Cached' = In(cache')
    BY DEF Cached, In
  <2> QED BY <2>3, <2>4, <2>5
<1>2. IInv /\ [Next]_vars
        => [\A c \in Conn :
              conn[c].pc \in {"update", "store"} /\ conn'[c] # conn[c] /\ cache' # cache
                => conn[c].s \in Cached' /\ (size > 0 => Cardinality(Cached') <= size)]_vars
  BY <1>1
<1> QED BY <1>2, Inductive, PTL DEF Spec, BoundedAfterAdd

\* A connection that found its session expired removes that session at most, although
\* another may have been stored under its ID since.
THEOREM RemovesOnlyExpired == Spec => OnlyExpiredRemoved
<1>1. ASSUME IInv, [Next]_vars, NEW c \in Conn, conn[c].pc = "remove", conn'[c].pc = "idle",
             NEW s \in Cached \ Cached'
      PROVE  ~ ssl_session_is_time_valid(s)
  <2> DEFINE mine == conn[c].s
  <2>1. RemoveExpired(c)
    BY <1>1, OwnStep DEF FullHandshake, ssl_update_cache, AutoFlush, Notify, Lookup, Store,
       CheckTime, Close
  <2>2. mine \in Session /\ Known(mine) /\ ~ ssl_session_is_time_valid(mine)
    BY <1>1 DEF IInv, Placed, ConnRec
  <2>3. PICK C : C = remove_session(cache, mine) /\ cache' = SSL_SESSION_free(C, mine)
    BY <2>1 DEF RemoveExpired
  <2> HIDE DEF mine
  <2>4. Sound(C) /\ In(cache) \ In(C) \subseteq {mine}
    BY <1>1, <2>2, <2>3, RemoveAny
  <2>5. In(cache') = In(C)
    BY <2>2, <2>3, <2>4, RefDropped
  <2>6. Cached' = In(cache') /\ Cached = In(cache)
    BY DEF Cached, In
  <2>7. s = mine
    BY <1>1, <2>4, <2>5, <2>6
  <2> QED BY <2>2, <2>7
<1>2. IInv /\ [Next]_vars
        => [\A c \in Conn : conn[c].pc = "remove" /\ conn'[c].pc = "idle"
              => \A s \in Cached \ Cached' : ~ ssl_session_is_time_valid(s)]_vars
  BY <1>1
<1> QED BY <1>2, Inductive, PTL DEF Spec, OnlyExpiredRemoved
=============================================================================
