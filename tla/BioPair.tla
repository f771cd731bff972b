------------------------------- MODULE BioPair -------------------------------
(***************************************************************************)
(* crypto/bio/pair.c with the parts of crypto/bio/bio.c that call it: two   *)
(* BIOs, each with a ring buffer for what it writes.  A call is one step:   *)
(* the BIO pair has no lock and leaves synchronisation to its caller        *)
(* (pair.c, bio_destroy_pair).                                              *)
(***************************************************************************)
EXTENDS Integers, Sequences

CONSTANTS
  Side,      \* the two halves
  Byte,      \* values of a byte
  Size,      \* Size[s]: writebuf length given to BIO_new_bio_pair
  Uninit,    \* what malloc leaves in the buffer
  MaxLen     \* bound: longest read or write

ASSUME PairAssumption ==
  /\ \E s, t \in Side : s # t /\ Side = {s, t}
  /\ Size \in [Side -> Nat \ {0}]
  /\ Uninit \notin Byte
  /\ MaxLen \in Nat

VARIABLES
  b,      \* b[s]: the bio_bio_st of half s; init stands for peer # NULL too
  retry,  \* retry[s]: the retry flags of the BIO: "none", "read" or "write"
  freed,  \* freed[s]: the caller released this half
  res     \* res[s]: outcome of the last I/O call on s

vars == <<b, retry, freed, res>>

Other(s) == CHOOSE t \in Side : t # s

Least(m, n) == IF m <= n THEN m ELSE n

Result(ret, data) == [ret |-> ret, data |-> data]

BioBio(s) ==
  [init : BOOLEAN, closed : BOOLEAN, len : 0..Size[s], offset : 0..(Size[s] - 1),
   request : 0..Size[s], buf : [0..(Size[s] - 1) -> Byte \cup {Uninit}]]

Ret == {"none", "ok", "retry_write", "broken", "retry_read", "eof", "zero", "uninit"}

Data == UNION {[1..n -> Byte] : n \in 0..MaxLen}

\* BIO_new_bio_pair; when it fails the caller has no BIOs.
Init ==
  /\ b = [s \in Side |->
           [init |-> TRUE, closed |-> FALSE, len |-> 0, offset |-> 0,
            request |-> 0, buf |-> [i \in 0..(Size[s] - 1) |-> Uninit]]]
  /\ retry = [s \in Side |-> "none"]
  /\ freed = [s \in Side |-> FALSE]
  /\ res = [s \in Side |-> Result("none", <<>>)]

-----------------------------------------------------------------------------
(* The ring of half s.  Position i counts from the oldest byte.             *)

Wrap(s, i) == IF i >= Size[s] THEN i - Size[s] ELSE i

\* the bytes written on s and not yet read
Contents(s) == [i \in 1..b[s].len |-> b[s].buf[Wrap(s, b[s].offset + (i - 1))]]

\* memcpy of n bytes of data, from its index j + 1 on, to buf[at]
CopyIn(buf, at, data, j, n) ==
  [i \in DOMAIN buf |-> IF i \in at..(at + n - 1) THEN data[j + (i - at) + 1] ELSE buf[i]]

\* memcpy of n bytes from buf[at]
CopyOut(buf, at, n) == [i \in 1..n |-> buf[at + (i - 1)]]

\* Faulty variant: the copy runs past the end of the buffer.
ChunkNoWrap(s, at, rest) == rest

\* the first of the one or two iterations: up to the end of the buffer
FirstChunk(s, at, rest) == IF at + rest <= Size[s] THEN rest ELSE Size[s] - at

\* both iterations of the copy loop of bio_write
Fill(s, data, n) ==
  LET at == Wrap(s, b[s].offset + b[s].len)
      c == FirstChunk(s, at, n)
      first == CopyIn(b[s].buf, at, data, 0, c)
  IN IF c = n THEN first
     ELSE CopyIn(first, Wrap(s, b[s].offset + b[s].len + c), data, c, n - c)

\* both iterations of the copy loop of bio_read
Drain(s, n) ==
  LET c == FirstChunk(s, b[s].offset, n)
      first == CopyOut(b[s].buf, b[s].offset, c)
  IN IF c = n THEN first ELSE first \o CopyOut(b[s].buf, 0, n - c)

\* Faulty variant: an empty ring keeps its offset.
OffsetKept(s, n) == Wrap(s, b[s].offset + n)

\* the offset left by bio_read after n bytes
OffsetAfter(s, n) == IF n = b[s].len THEN 0 ELSE Wrap(s, b[s].offset + n)

-----------------------------------------------------------------------------
(* Calls.  BIO_read and BIO_write refuse a BIO without init before they     *)
(* reach the method, which would have cleared the retry flags.  They return *)
(* at once when the length is 0, which changes nothing: an empty request    *)
(* below is the one with a NULL buffer, which does reach the method.        *)

Return(s, ret, data) == res' = [res EXCEPT ![s] = Result(ret, data)]

Uninitialized(s) ==
  /\ ~b[s].init
  /\ Return(s, "uninit", <<>>)
  /\ UNCHANGED <<b, retry>>

bio_write(s, data) ==
  LET n == Least(Len(data), Size[s] - b[s].len) IN
  /\ b[s].init
  /\ \/ /\ Len(data) = 0                           \* buf == NULL
        /\ b' = b
        /\ retry' = [retry EXCEPT ![s] = "none"]
        /\ Return(s, "zero", <<>>)
     \/ /\ Len(data) > 0 /\ b[s].closed
        /\ b' = [b EXCEPT ![s].request = 0]
        /\ retry' = [retry EXCEPT ![s] = "none"]
        /\ Return(s, "broken", <<>>)
     \/ /\ Len(data) > 0 /\ ~b[s].closed /\ b[s].len = Size[s]
        /\ b' = [b EXCEPT ![s].request = 0]
        /\ retry' = [retry EXCEPT ![s] = "write"]
        /\ Return(s, "retry_write", <<>>)
     \/ /\ ~b[s].closed /\ n > 0
        /\ b' = [b EXCEPT ![s].request = 0, ![s].len = @ + n, ![s].buf = Fill(s, data, n)]
        /\ retry' = [retry EXCEPT ![s] = "none"]
        /\ Return(s, "ok", SubSeq(data, 1, n))

BIO_write(s, data) ==
  /\ ~freed[s]
  /\ bio_write(s, data) \/ Uninitialized(s)
  /\ UNCHANGED freed

bio_read(s, size) ==
  LET o == Other(s)
      n == Least(size, b[o].len)
  IN
  /\ b[s].init
  /\ \/ /\ size = 0                                \* buf == NULL
        /\ b' = [b EXCEPT ![o].request = 0]
        /\ retry' = [retry EXCEPT ![s] = "none"]
        /\ Return(s, "zero", <<>>)
     \/ /\ size > 0 /\ b[o].len = 0 /\ b[o].closed
        /\ b' = [b EXCEPT ![o].request = 0]
        /\ retry' = [retry EXCEPT ![s] = "none"]
        /\ Return(s, "eof", <<>>)
     \/ /\ size > 0 /\ b[o].len = 0 /\ ~b[o].closed
        /\ b' = [b EXCEPT ![o].request = Least(size, Size[o])]
        /\ retry' = [retry EXCEPT ![s] = "read"]
        /\ Return(s, "retry_read", <<>>)
     \/ /\ n > 0
        /\ b' = [b EXCEPT ![o].request = 0, ![o].len = @ - n,
                          ![o].offset = OffsetAfter(o, n)]
        /\ retry' = [retry EXCEPT ![s] = "none"]
        /\ Return(s, "ok", Drain(o, n))

BIO_read(s, size) ==
  /\ ~freed[s]
  /\ bio_read(s, size) \/ Uninitialized(s)
  /\ UNCHANGED freed

\* bio_ctrl: the two commands that change the pair
BIO_shutdown_wr(s) ==
  /\ ~freed[s]
  /\ b' = [b EXCEPT ![s].closed = TRUE]
  /\ UNCHANGED <<retry, freed, res>>

BIO_reset_read_request(s) ==
  /\ ~freed[s]
  /\ b' = [b EXCEPT ![s].request = 0]
  /\ UNCHANGED <<retry, freed, res>>

\* bio_destroy_pair: request and closed stay as they are
bio_destroy_pair(s) ==
  IF b[s].init
  THEN [t \in Side |-> [b[t] EXCEPT !.init = FALSE, !.len = 0, !.offset = 0]]
  ELSE b

BIO_destroy_bio_pair(s) ==
  /\ ~freed[s]
  /\ b' = bio_destroy_pair(s)
  /\ UNCHANGED <<retry, freed, res>>

\* BIO_free of the last reference: bio_free takes the pair apart first
BIO_free(s) ==
  /\ ~freed[s]
  /\ b' = bio_destroy_pair(s)
  /\ freed' = [freed EXCEPT ![s] = TRUE]
  /\ UNCHANGED <<retry, res>>

Next ==
  \E s \in Side :
    \/ \E data \in Data : BIO_write(s, data)
    \/ \E n \in 0..MaxLen : BIO_read(s, n)
    \/ BIO_shutdown_wr(s)
    \/ BIO_reset_read_request(s)
    \/ BIO_destroy_bio_pair(s)
    \/ BIO_free(s)

Spec == Init /\ [][Next]_vars

-----------------------------------------------------------------------------
(* Properties.                                                              *)

\* The fields of bio_bio_st stay in their ranges: the offset inside the
\* buffer, the length and the read request at most its size (pair.c, asserts
\* of bio_read and bio_write).  A call moves bytes, never what malloc left in the
\* buffer.
TypeOK ==
  /\ b \in [Side -> [init : BOOLEAN, closed : BOOLEAN, len : Nat, offset : Nat,
                     request : Nat, buf : UNION {[0..(Size[s] - 1) -> Byte \cup {Uninit}] : s \in Side}]]
  /\ \A s \in Side : b[s] \in BioBio(s)
  /\ retry \in [Side -> {"none", "read", "write"}]
  /\ freed \in [Side -> BOOLEAN]
  /\ res \in [Side -> [ret : Ret, data : Seq(Byte)]]

\* The asserts of bio_read and bio_write, and the comment at bio_bio_st: offset is 0 if len == 0; request is 0 if
\* len != 0; peer != NULL on one half iff on the other.
StructComment ==
  /\ TypeOK
  /\ \A s \in Side : b[s].len = 0 => b[s].offset = 0
  /\ \A s \in Side : b[s].init => b[s].len = 0 \/ b[s].request = 0
  /\ \A s, t \in Side : b[s].init = b[t].init
  /\ \A s \in Side : ~b[s].init => b[s].len = 0

Pipe == INSTANCE BytePipe
  WITH up <- \A s \in Side : b[s].init,
       closed <- [s \in Side |-> b[s].closed],
       q <- [s \in Side |-> Contents(s)]

\* The pair is two bounded FIFO byte queues: every read returns the oldest
\* unread bytes in the order they were written, and every refusal has its
\* reason, whatever the wrap of the rings.
PipeSpec == Pipe!Spec
=============================================================================
