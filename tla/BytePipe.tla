------------------------------ MODULE BytePipe ------------------------------
(***************************************************************************)
(* What a BIO pair promises its two users (include/openssl/bio.h, "BIO      *)
(* pairs provide a loopback like system"): two bounded byte queues, one for *)
(* each direction, until either half takes the pair apart.                  *)
(***************************************************************************)
EXTENDS Naturals, Sequences

CONSTANTS
  Side,   \* the two halves
  Byte,   \* values of a byte
  Size,   \* Size[s]: capacity of the queue that side s writes to
  MaxLen  \* longest read or write

VARIABLES
  up,      \* the halves are connected
  closed,  \* closed[s]: s has shut its writing side
  q,       \* q[s]: bytes written on s and not yet read by the other side
  res      \* res[s]: outcome of the last I/O call on s

vars == <<up, closed, q, res>>

Other(s) == CHOOSE t \in Side : t # s

Least(m, n) == IF m <= n THEN m ELSE n

\* the outcome of a call: what it returned and the bytes it moved
Result(ret, data) == [ret |-> ret, data |-> data]

Init ==
  /\ up = TRUE
  /\ closed = [s \in Side |-> FALSE]
  /\ q = [s \in Side |-> <<>>]
  /\ res = [s \in Side |-> Result("none", <<>>)]

\* A write takes the longest prefix of the data that fits.
Write(s, data) ==
  LET n == Least(Len(data), Size[s] - Len(q[s])) IN
  /\ up /\ ~closed[s] /\ n > 0
  /\ q' = [q EXCEPT ![s] = @ \o SubSeq(data, 1, n)]
  /\ res' = [res EXCEPT ![s] = Result("ok", SubSeq(data, 1, n))]
  /\ UNCHANGED <<up, closed>>

\* A read takes up to n of the oldest bytes, in the order they were written.
Read(s, n) ==
  LET o == Other(s)
      k == Least(n, Len(q[o]))
  IN
  /\ up /\ k > 0
  /\ q' = [q EXCEPT ![o] = SubSeq(@, k + 1, Len(@))]
  /\ res' = [res EXCEPT ![s] = Result("ok", SubSeq(q[o], 1, k))]
  /\ UNCHANGED <<up, closed>>

\* A call that moves nothing, for a reason that holds when it returns.
Refuse(s, ret) ==
  /\ \/ ret = "retry_write" /\ up /\ ~closed[s] /\ Len(q[s]) = Size[s]
     \/ ret = "broken" /\ up /\ closed[s]
     \/ ret = "retry_read" /\ up /\ ~closed[Other(s)] /\ q[Other(s)] = <<>>
     \/ ret = "eof" /\ up /\ closed[Other(s)] /\ q[Other(s)] = <<>>
     \/ ret = "zero" /\ up
     \/ ret = "uninit" /\ ~up
  /\ res' = [res EXCEPT ![s] = Result(ret, <<>>)]
  /\ UNCHANGED <<up, closed, q>>

Close(s) ==
  /\ closed' = [closed EXCEPT ![s] = TRUE]
  /\ UNCHANGED <<up, q, res>>

\* Either half can end the connection; bytes in flight are gone.
Cut ==
  /\ up' = FALSE
  /\ q' = [s \in Side |-> <<>>]
  /\ UNCHANGED <<closed, res>>

Data == UNION {[1..n -> Byte] : n \in 0..MaxLen}

Reason == {"retry_write", "broken", "retry_read", "eof", "zero", "uninit"}

Next ==
  \/ \E s \in Side :
       \/ \E data \in Data : Write(s, data)
       \/ \E n \in 0..MaxLen : Read(s, n)
       \/ \E ret \in Reason : Refuse(s, ret)
       \/ Close(s)
  \/ Cut

Spec == Init /\ [][Next]_vars
=============================================================================
