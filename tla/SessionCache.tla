---------------------------- MODULE SessionCache ----------------------------
(***************************************************************************)
(* The internal session cache of an SSL_CTX used by servers                *)
(* (ssl/ssl_session.cc): a hash table by session ID and an intrusive,      *)
(* doubly linked list in order of insertion, both under ctx->lock, holding *)
(* one reference to each cached SSL_SESSION; beside it the application's   *)
(* external cache, reached through new_session_cb and get_session_cb.      *)
(*                                                                         *)
(* Connections run concurrently: each critical section is one step, and    *)
(* what a connection looked up may be replaced, evicted or flushed before  *)
(* its next step.                                                          *)
(*                                                                         *)
(* One configuration of the SSL_CTX is modelled, the one in which all of   *)
(* the code runs: session_cache_mode has SSL_SESS_CACHE_SERVER and none of *)
(* the NO_ flags (NO_INTERNAL_STORE, NO_INTERNAL_LOOKUP, NO_AUTO_CLEAR),   *)
(* both callbacks are set, and sessions are resumable and found by ID, not *)
(* by ticket; so the early return of ssl_update_cache is never taken.      *)
(***************************************************************************)
EXTENDS Integers, FiniteSets

CONSTANTS Conn,       \* connections of the server
          Session,    \* SSL_SESSION addresses
          Id,         \* session IDs
          Nil,        \* NULL
          HeadEnd, TailEnd, \* &ctx->session_cache_head, &ctx->session_cache_tail
          Timeout,    \* session->timeout
          MaxTime,    \* bound: the clock
          CacheSizes, \* values SSL_CTX_sess_set_cache_size is given; 0: no limit
          FlushEvery  \* handshakes between automatic flushes (255)

ASSUME CacheAssumption ==
  /\ IsFiniteSet(Conn) /\ IsFiniteSet(Id)
  /\ Timeout \in Nat \ {0} /\ MaxTime \in Nat \ {0}
  /\ CacheSizes \subseteq Nat /\ CacheSizes # {}
  /\ FlushEvery \in Nat \ {0}
  /\ Nil \notin Session \cup {HeadEnd, TailEnd}
  /\ HeadEnd \notin Session /\ TailEnd \notin Session /\ HeadEnd # TailEnd

VARIABLES cache,  \* the table, the list and the reference counts
          info,   \* the ID and the creation time of each session
          size,   \* ctx->session_cache_size
          count,  \* ctx->handshakes_since_cache_flush
          now,    \* the clock, in seconds
          outer,  \* sessions the application's cache owns a reference to
          conn    \* each connection's place and the session it holds

vars == <<cache, info, size, count, now, outer, conn>>

Idle == [pc |-> "idle", s |-> Nil]
Goto(c, place) == conn' = [conn EXCEPT ![c].pc = place]
Leave(c) == conn' = [conn EXCEPT ![c] = Idle]

Init ==
  /\ cache = [table |-> [i \in Id |-> Nil], head |-> Nil, tail |-> Nil,
              prev |-> [s \in Session |-> Nil], next |-> [s \in Session |-> Nil],
              refs |-> [s \in Session |-> 0]]
  /\ info = [s \in Session |-> Nil]
  /\ size \in CacheSizes /\ count = 0 /\ now = 1
  /\ outer = {}
  /\ conn = [c \in Conn |-> Idle]

----------------------------------------------------------------------------
\* The list.

\* Faulty variant: the new last element does not point to the sentinel.
RemoveNotLast(C, s) ==
  LET p == C.prev[s]
      n == C.next[s]
      cut == [C EXCEPT !.prev[s] = Nil, !.next[s] = Nil]
  IN  CASE n = Nil \/ p = Nil -> C
        [] n = TailEnd /\ p = HeadEnd -> [cut EXCEPT !.head = Nil, !.tail = Nil]
        [] n = TailEnd /\ p # HeadEnd -> [cut EXCEPT !.tail = p]
        [] n # TailEnd /\ p = HeadEnd -> [cut EXCEPT !.head = n, !.prev[n] = HeadEnd]
        [] OTHER -> [cut EXCEPT !.prev[n] = p, !.next[p] = n]

\* SSL_SESSION_list_remove: only, last, first and middle element; a session
\* that is in no list is left alone.
SSL_SESSION_list_remove(C, s) ==
  LET p == C.prev[s]
      n == C.next[s]
      cut == [C EXCEPT !.prev[s] = Nil, !.next[s] = Nil]
  IN  CASE n = Nil \/ p = Nil -> C
        [] n = TailEnd /\ p = HeadEnd -> [cut EXCEPT !.head = Nil, !.tail = Nil]
        [] n = TailEnd /\ p # HeadEnd -> [cut EXCEPT !.tail = p, !.next[p] = TailEnd]
        [] n # TailEnd /\ p = HeadEnd -> [cut EXCEPT !.head = n, !.prev[n] = HeadEnd]
        [] OTHER -> [cut EXCEPT !.prev[n] = p, !.next[p] = n]

\* SSL_SESSION_list_add: at the head.
SSL_SESSION_list_add(C0, s) ==
  LET C == IF C0.next[s] # Nil /\ C0.prev[s] # Nil
           THEN SSL_SESSION_list_remove(C0, s) ELSE C0
  IN  IF C.head = Nil
      THEN [C EXCEPT !.head = s, !.tail = s, !.prev[s] = HeadEnd, !.next[s] = TailEnd]
      ELSE [C EXCEPT !.next[s] = C.head, !.prev[C.head] = s,
                     !.prev[s] = HeadEnd, !.head = s]

UpRef(C, s) == [C EXCEPT !.refs[s] = @ + 1]
SSL_SESSION_free(C, s) == [C EXCEPT !.refs[s] = @ - 1]

IdOf(s) == info[s].id

\* Faulty variant: whatever has the ID is removed.
RemoveById(C, s) ==
  LET found == IF s = Nil THEN Nil ELSE C.table[IdOf(s)]
  IN  IF found = Nil THEN C
      ELSE SSL_SESSION_free(
             SSL_SESSION_list_remove([C EXCEPT !.table[IdOf(s)] = Nil], found), found)

\* remove_session: only the very session goes, not another with its ID.
remove_session(C, s) ==
  IF s = Nil \/ C.table[IdOf(s)] # s THEN C
  ELSE SSL_SESSION_free(
         SSL_SESSION_list_remove([C EXCEPT !.table[IdOf(s)] = Nil], s), s)

Items(C) == Cardinality({i \in Id : C.table[i] # Nil})

\* The loop of add_session_locked, k times: the last element of the list goes.
Evicted(C, k) ==
  LET ev[n \in 0 .. k] == IF n = 0 THEN C
                          ELSE remove_session(ev[n - 1], ev[n - 1].tail)
  IN  ev[k]

\* Faulty variant: one session more than the limit is tolerated.
OneTooMany(C) == IF size = 0 \/ Items(C) <= size + 1 THEN C
                 ELSE Evicted(C, Items(C) - size)

\* add_session_locked: back to the limit.
Trimmed(C) == IF size = 0 \/ Items(C) <= size THEN C
              ELSE Evicted(C, Items(C) - size)

\* Faulty variant: the session that was displaced stays in the list.
ReplaceKeepsOld(C, s, old) == [C EXCEPT !.table[IdOf(s)] = s]

\* The hash table took s and gave |old| back: it leaves the list, and the
\* table's reference to it goes.
Replaced(C, s, old) ==
  LET D == [C EXCEPT !.table[IdOf(s)] = s]
  IN  IF old = Nil THEN D
      ELSE SSL_SESSION_free(SSL_SESSION_list_remove(D, old), old)

\* add_session_locked on a session with a reference taken for the cache.
add_session_locked(C, s) ==
  LET old == C.table[IdOf(s)]
  IN  IF old = s THEN SSL_SESSION_free(C, s)
      ELSE Trimmed(SSL_SESSION_list_add(Replaced(C, s, old), s))

\* What adding may do; the insertion fails when it needs an item for the
\* table and there is no memory.
Added(s) ==
  {add_session_locked(UpRef(cache, s), s)}
    \cup (IF cache.table[IdOf(s)] = Nil THEN {cache} ELSE {})

----------------------------------------------------------------------------
\* A session is valid while its timeout has not passed.
ssl_session_is_time_valid(s) ==
  now >= info[s].time /\ Timeout > now - info[s].time

\* do_finish_server_handshake calls ssl_update_cache for a new session only.
FinishHandshake(has_new_session) == IF has_new_session THEN "update" ELSE "open"

\* A full handshake: ssl_get_new_session makes a session with the time of the
\* clock, do_select_parameters gives it an ID, and nobody else sees it before the
\* handshake has finished.
FullHandshake(c) ==
  /\ conn[c].pc = "idle"
  /\ \E s \in Session, i \in Id :
        /\ cache.refs[s] = 0
        /\ info' = [info EXCEPT ![s] = [id |-> i, time |-> now]]
        /\ cache' = UpRef(cache, s)
        /\ conn' = [conn EXCEPT ![c] = [pc |-> FinishHandshake(TRUE), s |-> s]]
  /\ UNCHANGED <<size, count, now, outer>>

\* ssl_update_cache, the critical section: add, and count towards a flush.
ssl_update_cache(c) ==
  /\ conn[c].pc = "update"
  /\ cache' \in Added(conn[c].s)
  /\ count' = (count + 1) % FlushEvery
  /\ Goto(c, IF count' = 0 THEN "flush" ELSE "notify")
  /\ UNCHANGED <<info, size, now, outer>>

\* timeout_doall_arg: which sessions SSL_CTX_flush_sessions(ctx, t) removes.
\* The test for a sum that wraps (time + timeout < time, in 64 bits) is false for
\* every time of the clock up to MaxTime and is left out.
FlushedAt(t) ==
  {s \in Session : /\ info[s] # Nil
                   /\ cache.table[IdOf(s)] = s
                   /\ t = 0 \/ t > info[s].time + Timeout}

\* Their removal, one after another; the order does not matter.
Flushed(S) ==
  LET rm[n \in 0 .. Cardinality(S)] ==
        IF n = 0 THEN cache
        ELSE remove_session(rm[n - 1], CHOOSE s \in S : rm[n - 1].table[IdOf(s)] = s)
  IN  rm[Cardinality(S)]

\* ssl_update_cache, the automatic flush, at a time read before the lock.
AutoFlush(c) ==
  /\ conn[c].pc = "flush"
  /\ \E t \in 1 .. now : cache' = Flushed(FlushedAt(t))
  /\ Goto(c, "notify")
  /\ UNCHANGED <<info, size, count, now, outer>>

\* ssl_update_cache: new_session_cb may keep its reference.
Notify(c) ==
  /\ conn[c].pc = "notify"
  /\ LET s == conn[c].s
     IN  \/ /\ s \notin outer
            /\ outer' = outer \cup {s} /\ cache' = UpRef(cache, s)
         \/ UNCHANGED <<outer, cache>>
  /\ Goto(c, "open")
  /\ UNCHANGED <<info, size, count, now>>

\* ssl_lookup_session, the read under the lock, which takes a reference.
Lookup(c) ==
  /\ conn[c].pc = "idle"
  /\ \E i \in Id :
        \/ /\ cache.table[i] # Nil
           /\ cache' = UpRef(cache, cache.table[i])
           /\ conn' = [conn EXCEPT ![c] = [pc |-> "check", s |-> cache.table[i]]]
        \* A miss: get_session_cb returns a new reference.
        \/ /\ cache.table[i] = Nil
           /\ \E s \in outer : /\ IdOf(s) = i
                               /\ cache' = UpRef(cache, s)
                               /\ conn' = [conn EXCEPT ![c] = [pc |-> "store", s |-> s]]
  /\ UNCHANGED <<info, size, count, now, outer>>

\* ssl_lookup_session stores what the external cache returned.
Store(c) ==
  /\ conn[c].pc = "store"
  /\ cache' \in Added(conn[c].s)
  /\ Goto(c, "check")
  /\ UNCHANGED <<info, size, count, now, outer>>

\* ssl_lookup_session looks at the clock; a connection that resumes a session
\* keeps its reference and does not go through ssl_update_cache.
CheckTime(c) ==
  /\ conn[c].pc = "check"
  /\ Goto(c, IF ssl_session_is_time_valid(conn[c].s) THEN FinishHandshake(FALSE) ELSE "remove")
  /\ UNCHANGED <<cache, info, size, count, now, outer>>

\* SSL_CTX_remove_session of the expired session, then the lookup's own
\* reference goes and the handshake continues without a session.
RemoveExpired(c) ==
  /\ conn[c].pc = "remove"
  /\ cache' = SSL_SESSION_free(remove_session(cache, conn[c].s), conn[c].s)
  /\ Leave(c)
  /\ UNCHANGED <<info, size, count, now, outer>>

\* The connection is freed, with its reference; the application may first
\* call SSL_CTX_remove_session.
Close(c) ==
  /\ conn[c].pc = "open"
  /\ \E C \in {cache, remove_session(cache, conn[c].s)} :
        cache' = SSL_SESSION_free(C, conn[c].s)
  /\ Leave(c)
  /\ UNCHANGED <<info, size, count, now, outer>>

\* The application: flush, resize, drop an external session; and the clock.
SSL_CTX_flush_sessions ==
  /\ \E t \in 0 .. now : cache' = Flushed(FlushedAt(t))
  /\ UNCHANGED <<info, size, count, now, outer, conn>>

SSL_CTX_sess_set_cache_size ==
  /\ size' \in CacheSizes
  /\ UNCHANGED <<cache, info, count, now, outer, conn>>

DropExternal ==
  /\ \E s \in outer : outer' = outer \ {s} /\ cache' = SSL_SESSION_free(cache, s)
  /\ UNCHANGED <<info, size, count, now, conn>>

Tick ==
  /\ now < MaxTime /\ now' = now + 1
  /\ UNCHANGED <<cache, info, size, count, outer, conn>>

Next ==
  \/ \E c \in Conn :
       \/ FullHandshake(c) \/ ssl_update_cache(c) \/ AutoFlush(c) \/ Notify(c)
       \/ Lookup(c) \/ Store(c) \/ CheckTime(c) \/ RemoveExpired(c) \/ Close(c)
  \/ SSL_CTX_flush_sessions \/ SSL_CTX_sess_set_cache_size \/ DropExternal \/ Tick

Spec == Init /\ [][Next]_vars

----------------------------------------------------------------------------
\* Properties.

Cached == {s \in Session : \E i \in Id : cache.table[i] = s}
Link == Session \cup {Nil, HeadEnd, TailEnd}

\* Every field has its type; reference counts do not go below zero.
TypeOK ==
  /\ cache.table \in [Id -> Session \cup {Nil}]
  /\ cache.head \in Session \cup {Nil} /\ cache.tail \in Session \cup {Nil}
  /\ cache.prev \in [Session -> Link] /\ cache.next \in [Session -> Link]
  /\ cache.refs \in [Session -> 0 .. Cardinality(Conn) + 2]
  /\ info \in [Session -> [id : Id, time : 1 .. MaxTime] \cup {Nil}]
  /\ size \in CacheSizes /\ count \in 0 .. FlushEvery - 1 /\ now \in 1 .. MaxTime
  /\ outer \subseteq Session
  /\ conn \in [Conn -> [pc : {"idle", "update", "flush", "notify", "check", "store",
                              "remove", "open"}, s : Session \cup {Nil}]]

\* The reference count of a session is the number of its owners: the
\* connections that hold it, the cache (once, though it is in the table and in
\* the list) and the application.  So none is freed while it is reachable and
\* none is leaked, however lookups, collisions and evictions interleave.
RefsExact ==
  \A s \in Session :
     cache.refs[s] = Cardinality({c \in Conn : conn[c].s = s})
                       + (IF s \in Cached THEN 1 ELSE 0)
                       + (IF s \in outer THEN 1 ELSE 0)

\* The list and the table hold the same sessions; forward and backward links
\* agree and both ends are right (SSL_SESSION_list_add and _remove, for which
\* NULL, the two sentinels and a neighbour are different values of a link).
\* There is no cycle beside the list: from every cached session the links lead
\* to the tail.
ListMatchesTable ==
  /\ TypeOK
  /\ \A s \in Session :
        /\ s \in Cached <=> cache.next[s] # Nil
        /\ s \in Cached <=> cache.prev[s] # Nil
        /\ cache.next[s] \in Session => cache.prev[cache.next[s]] = s
        /\ cache.prev[s] \in Session => cache.next[cache.prev[s]] = s
        /\ cache.prev[s] = HeadEnd <=> cache.head = s
        /\ cache.next[s] = TailEnd <=> cache.tail = s
  /\ cache.head = Nil <=> Cached = {}
  /\ cache.tail = Nil <=> Cached = {}
  /\ \A S \in SUBSET Cached : S # {} => \E s \in S : cache.next[s] \notin S

\* A step that adds a session leaves the cache within its limit, also after
\* the limit was lowered, and never evicts what it has just added.
BoundedAfterAdd ==
  [][\A c \in Conn :
       conn[c].pc \in {"update", "store"} /\ conn'[c] # conn[c] /\ cache' # cache
         => conn[c].s \in Cached' /\ (size > 0 => Cardinality(Cached') <= size)]_vars

\* A connection that found its session expired removes no session that is
\* still valid, although another may have stored one under the same ID.
OnlyExpiredRemoved ==
  [][\A c \in Conn : conn[c].pc = "remove" /\ conn'[c].pc = "idle"
       => \A s \in Cached \ Cached' : ~ ssl_session_is_time_valid(s)]_vars
=============================================================================
