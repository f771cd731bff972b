------------------------------ MODULE DtlsProofs ------------------------------
(***************************************************************************)
(* Proofs about DtlsHandshake, for a message window of any size that a      *)
(* flight fits in, any number of timeouts, any MTU and any number of writes *)
(* that block, and about DtlsRecord, for windows, sequence numbers and      *)
(* epochs of any size, in particular for the 256 bits and 2^48 numbers of   *)
(* the code, which no run can reach.                                        *)
(***************************************************************************)
EXTENDS DtlsHandshake, DtlsRecord, FiniteSetTheorems, SequenceTheorems, TLAPS

-------------------------------------------------------------------------------
(* What an endpoint has sent and read at each position of its handshake.   *)

\* The number of the Finished of e, the position that flushes its flight, and
\* the position at which the handshake of e is complete.
FinSeq(res, e) == IF e = Client THEN IF res THEN 1 ELSE 2 ELSE IF res THEN 1 ELSE 3
FinAt(res, e) == IF e = Client THEN 8 ELSE IF res THEN 5 ELSE 11
EndAt(res, e) == IF res THEN IF e = Client THEN 9 ELSE 8 ELSE 12

\* The length of message number seq of e.
LenOf(res, e, seq) ==
  IF e = Client THEN 1 ELSE IF res THEN 2
  ELSE IF seq = 1 THEN 0 ELSE IF seq = 2 THEN 1 ELSE 2

\* handshake_read_seq and the read epoch of e at position p
ReadAt(res, e, p) ==
  IF e = Client
  THEN IF res THEN IF p <= 3 THEN 0 ELSE IF p <= 5 THEN 1 ELSE 2
       ELSE IF p <= 3 THEN 0 ELSE IF p = 4 THEN 1 ELSE IF p <= 9 THEN 2
       ELSE IF p <= 11 THEN 3 ELSE 4
  ELSE IF res THEN IF p = 1 THEN 0 ELSE IF p <= 7 THEN 1 ELSE 2
       ELSE IF p = 1 THEN 0 ELSE IF p <= 5 THEN 1 ELSE IF p <= 7 THEN 2 ELSE 3
CcsAt(res, e) == IF e = Client THEN IF res THEN 4 ELSE 10 ELSE 6
ReadEpoch(res, e, p) == IF p <= CcsAt(res, e) THEN 0 ELSE 1

\* handshake_write_seq, the write epoch and the messages of the flight of e at p
WriteAt(res, e, p) ==
  IF e = Client
  THEN IF res THEN IF p = 1 THEN 0 ELSE IF p <= 7 THEN 1 ELSE 2
       ELSE IF p = 1 THEN 0 ELSE IF p <= 5 THEN 1 ELSE IF p <= 7 THEN 2 ELSE 3
  ELSE IF res THEN IF p <= 2 THEN 0 ELSE IF p <= 4 THEN 1 ELSE 2
       ELSE IF p <= 2 THEN 0 ELSE IF p = 3 THEN 1 ELSE IF p <= 8 THEN 2
       ELSE IF p <= 10 THEN 3 ELSE 4
WriteEpoch(res, e, p) == IF p < FinAt(res, e) - 1 THEN 0 ELSE 1
FlightAt(res, e, p) ==
  IF e = Client
  THEN IF p = 1 THEN 0 ELSE IF p <= 6 THEN 1
       ELSE IF res THEN IF p = 7 THEN 1 ELSE 2
       ELSE IF p = 7 THEN 2 ELSE 3
  ELSE IF res THEN IF p <= 2 THEN 0 ELSE IF p <= 5 THEN p - 2 ELSE 3
       ELSE IF p <= 2 THEN 0 ELSE IF p = 3 THEN 1 ELSE IF p <= 8 THEN 2
       ELSE IF p <= 11 THEN p - 8 ELSE 3

\* positions before which a flight of e is being flushed, and after which it is
\* out and the next one is not begun
Flushes(res, e, p) ==
  IF e = Client THEN p = 2 \/ p = 8 ELSE IF res THEN p = 5 ELSE p = 4 \/ p = 11
IsOut(res, e, p) ==
  IF e = Client THEN (3 <= p /\ p <= IF res THEN 6 ELSE 5) \/ 9 <= p
  ELSE IF res THEN 6 <= p ELSE (5 <= p /\ p <= 8) \/ p = 12

\* the end whose Finished is the last one sent, and from where on nothing
\* answers its flight
SendsLast(res, e) == res <=> (e = Client)
NoReplyFrom(res, e) == IF e = Client THEN 7 ELSE 9

-------------------------------------------------------------------------------
(* The inductive invariant.                                                *)

Slots == [seq : Int, len : Int, got : SUBSET Int]
Msgs == [seq : Int, len : Int, fin : BOOLEAN, epoch : Int, ccs : BOOLEAN]
Records ==
  [epoch : Int, ccs : BOOLEAN, seq : Int, fin : BOOLEAN, len : Int, off : Int, n : Int]
Ins == [r_epoch : Int, read_seq : Int, ccs : BOOLEAN, slot : [0..(Flight - 1) -> Slots]]
Outs ==
  [w_epoch : Int, write_seq : Int, msgs : Seq(Msgs), written : Int, offset : Int,
   complete : BOOLEAN, has_reply : BOOLEAN]
Timers == [on : BOOLEAN, num : Int, mtu : Int]

Shape ==
  /\ resume \in BOOLEAN
  /\ pc \in [End -> Int]
  /\ status \in [End -> {"run", "done", "timeout", "fatal"}]
  /\ inc \in [End -> Ins]
  /\ out \in [End -> Outs]
  /\ timer \in [End -> Timers]
  /\ blocked \in 0..MaxBlock
  /\ net \in [End -> SUBSET Records]

\* m, a message or a record of one, is one of the handshake of e
Genuine(res, e, m) ==
  \/ m.ccs /\ ~m.fin /\ m.epoch = 0
  \/ ~m.ccs /\ ~m.fin /\ m.epoch = 0 /\ m.seq \in 0..(FinSeq(res, e) - 1)
     /\ m.len = LenOf(res, e, m.seq)
  \/ ~m.ccs /\ m.fin /\ m.epoch = 1 /\ m.seq = FinSeq(res, e) /\ m.len = LenOf(res, e, m.seq)

\* m is one that e has at position p: the Finished only from its flight on
Owed(res, e, p, m) == Genuine(res, e, m) /\ (m.fin => p >= FinAt(res, e))

\* where e is
PosOK(e) ==
  /\ pc[e] \in 1..EndAt(resume, e)
  /\ status[e] # "fatal"
  /\ status[e] = "done" => pc[e] = EndAt(resume, e)

ReadOK(e) ==
  /\ inc[e].read_seq = ReadAt(resume, e, pc[e])
  /\ inc[e].r_epoch = ReadEpoch(resume, e, pc[e])

WriteOK(e) ==
  /\ out[e].write_seq = WriteAt(resume, e, pc[e])
  /\ out[e].w_epoch = WriteEpoch(resume, e, pc[e])
  /\ out[e].written \in 0..Len(out[e].msgs)

\* the flight is the one of the position, unless the end of the handshake has
\* cleared it at the end that does not send last
FlightOK(e) ==
  /\ \/ Len(out[e].msgs) = FlightAt(resume, e, pc[e])
     \/ Len(out[e].msgs) = 0 /\ status[e] # "run" /\ ~SendsLast(resume, e)
  /\ \A i \in 1..Len(out[e].msgs) : Owed(resume, e, pc[e], out[e].msgs[i])
  /\ pc[e] >= FinAt(resume, e) /\ Len(out[e].msgs) > 0 => out[e].msgs[Len(out[e].msgs)].fin

ReplyOK(e) ==
  /\ status[e] = "run" /\ ~Flushes(resume, e, pc[e]) =>
       (out[e].complete <=> IsOut(resume, e, pc[e]))
  /\ SendsLast(resume, e) /\ pc[e] >= NoReplyFrom(resume, e) => ~out[e].has_reply

TimerOK(e) ==
  /\ timer[e].num \in 0..(MaxTimeouts + 1)
  /\ status[e] \in {"run", "done"} => timer[e].num <= MaxTimeouts
  /\ timer[e].mtu \in {Mtu, FallbackMtu}

\* a slot that is in use holds a message of the peer, of the read epoch and in
\* the window, in its place
SlotOK(e, f, i) ==
  LET p == Peer(e) IN
  f # None =>
    /\ f.seq \in inc[e].read_seq..(inc[e].read_seq + Flight - 1)
    /\ SlotOf(f.seq) = i
    /\ f.seq \in 0..FinSeq(resume, p) /\ f.len = LenOf(resume, p, f.seq)
    /\ inc[e].r_epoch = 0 => f.seq < FinSeq(resume, p)
    /\ inc[e].r_epoch = 1 => f.seq = FinSeq(resume, p)
    /\ f.seq = FinSeq(resume, p) => pc[p] >= FinAt(resume, p)

SlotsOK(e) == \A i \in 0..(Flight - 1) : SlotOK(e, inc[e].slot[i], i)

NetOK(e) == \A r \in net[e] : Owed(resume, Peer(e), pc[Peer(e)], r)

\* e has read the peer's Finished only if the peer has begun to send it
CausalOK(e) ==
  inc[e].read_seq > FinSeq(resume, Peer(e)) => pc[Peer(e)] >= FinAt(resume, Peer(e))

IInv ==
  /\ Shape
  /\ \A e \in End :
       /\ PosOK(e) /\ ReadOK(e) /\ WriteOK(e) /\ FlightOK(e) /\ ReplyOK(e) /\ TimerOK(e)
       /\ SlotsOK(e) /\ NetOK(e) /\ CausalOK(e)

-------------------------------------------------------------------------------
(* The scripts, position by position.                                      *)

Adds(res, e, p) ==
  IF e = Client THEN p = 1 \/ p = 7 \/ (~res /\ p = 5)
  ELSE IF res THEN p = 2 \/ p = 4 ELSE p = 2 \/ p = 3 \/ p = 8 \/ p = 10

\* What the script of e does at position p.
Does(res, e, p) ==
  IF Adds(res, e, p) THEN "add"
  ELSE IF p = FinAt(res, e) - 2 THEN "ccs"
  ELSE IF Flushes(res, e, p) THEN "flush"
  ELSE IF p = CcsAt(res, e) THEN "read_ccs"
  ELSE IF p = EndAt(res, e) THEN "finish" ELSE "recv"

\* The script at a position.
ScriptAt(e, p) ==
  LET len == LenOf(resume, e, WriteAt(resume, e, p)) IN
  Script(e)[p] =
    IF ~Adds(resume, e, p) THEN Do(Does(resume, e, p))
    ELSE IF p = FinAt(resume, e) - 1 THEN AddFinished(len) ELSE Add(len)

\* Does says what ClientScript and ServerScript ask for, message by message.
LEMMA ScriptIs ==
  ASSUME resume \in BOOLEAN, NEW e \in End, NEW p \in 1..EndAt(resume, e)
  PROVE  ScriptAt(e, p) /\ Len(Script(e)) = EndAt(resume, e)
<1>1. CASE e = Client /\ resume
  <2>1. Script(e) = ClientScript /\ (e = Client <=> TRUE)
    BY <1>1 DEF Script, Client, Server
  <2>2. p \in 1..9 /\ EndAt(resume, e) = 9
    BY <1>1, <2>1 DEF EndAt
  <2>3. Len(Script(e)) = 9
    BY <1>1, <2>1 DEF ClientScript
  <2> QED
    BY <1>1, <2>1, <2>2, <2>3
    DEF ScriptAt, ClientScript, Does, Adds, FinAt, Flushes, CcsAt, EndAt,
        LenOf, WriteAt
<1>2. CASE e = Client /\ ~resume
  <2>1. Script(e) = ClientScript /\ (e = Client <=> TRUE)
    BY <1>2 DEF Script, Client, Server
  <2>2. p \in 1..12 /\ EndAt(resume, e) = 12
    BY <1>2, <2>1 DEF EndAt
  <2>3. Len(Script(e)) = 12
    BY <1>2, <2>1 DEF ClientScript
  <2> QED
    BY <1>2, <2>1, <2>2, <2>3
    DEF ScriptAt, ClientScript, Does, Adds, FinAt, Flushes, CcsAt, EndAt,
        LenOf, WriteAt
<1>3. CASE e = Server /\ resume
  <2>1. Script(e) = ServerScript /\ (e = Client <=> FALSE)
    BY <1>3 DEF Script, Client, Server
  <2>2. p \in 1..8 /\ EndAt(resume, e) = 8
    BY <1>3, <2>1 DEF EndAt
  <2>3. Len(Script(e)) = 8
    BY <1>3, <2>1 DEF ServerScript
  <2> QED
    BY <1>3, <2>1, <2>2, <2>3
    DEF ScriptAt, ServerScript, Does, Adds, FinAt, Flushes, CcsAt, EndAt,
        LenOf, WriteAt
<1>4. CASE e = Server /\ ~resume
  <2>1. Script(e) = ServerScript /\ (e = Client <=> FALSE)
    BY <1>4 DEF Script, Client, Server
  <2>2. p \in 1..12 /\ EndAt(resume, e) = 12
    BY <1>4, <2>1 DEF EndAt
  <2>3. Len(Script(e)) = 12
    BY <1>4, <2>1 DEF ServerScript
  <2> QED
    BY <1>4, <2>1, <2>2, <2>3
    DEF ScriptAt, ServerScript, Does, Adds, FinAt, Flushes, CcsAt, EndAt,
        LenOf, WriteAt
<1> QED
  BY <1>1, <1>2, <1>3, <1>4 DEF End

\* What the step at position p changes in the tables.
TableStep(res, e, p) ==
  LET d == Does(res, e, p) IN
  /\ p + 1 \in 1..EndAt(res, e)
  /\ ReadAt(res, e, p + 1) = ReadAt(res, e, p) + IF d = "recv" THEN 1 ELSE 0
  /\ ReadEpoch(res, e, p + 1) = ReadEpoch(res, e, p) + IF d = "read_ccs" THEN 1 ELSE 0
  /\ WriteAt(res, e, p + 1) = WriteAt(res, e, p) + IF d = "add" THEN 1 ELSE 0
  /\ WriteEpoch(res, e, p + 1) = WriteEpoch(res, e, p) + IF d = "ccs" THEN 1 ELSE 0
  /\ d \in {"add", "ccs"} =>
       /\ FlightAt(res, e, p + 1) = (IF IsOut(res, e, p) THEN 0 ELSE FlightAt(res, e, p)) + 1
       /\ FlightAt(res, e, p + 1) <= 3
       /\ ~Flushes(res, e, p) /\ ~IsOut(res, e, p + 1) /\ p < FinAt(res, e)
  /\ d \notin {"add", "ccs"} =>
       /\ FlightAt(res, e, p + 1) = FlightAt(res, e, p) /\ FlightAt(res, e, p) >= 0
       /\ IsOut(res, e, p + 1) <=> (IsOut(res, e, p) \/ d = "flush")
       /\ ~Flushes(res, e, p + 1)
       /\ p # FinAt(res, e) - 1
       /\ Flushes(res, e, p) <=> d = "flush"
       /\ SendsLast(res, e) => p # NoReplyFrom(res, e) - 1
  /\ d = "add" => WriteEpoch(res, e, p) = IF p = FinAt(res, e) - 1 THEN 1 ELSE 0
  /\ d = "add" => IF p = FinAt(res, e) - 1 THEN WriteAt(res, e, p) = FinSeq(res, e)
                  ELSE WriteAt(res, e, p) \in 0..(FinSeq(res, e) - 1)
  /\ d = "ccs" => WriteEpoch(res, e, p) = 0 /\ p # FinAt(res, e) - 1
  /\ SendsLast(res, e) /\ p = NoReplyFrom(res, e) - 1 => IsOut(res, e, p)
  /\ SendsLast(res, e) /\ d = "recv" => p < NoReplyFrom(res, e) - 1

\* The tables go from one position to the next as the step there says.
LEMMA Tables ==
  ASSUME NEW res \in BOOLEAN, NEW e \in End, NEW p \in 1..EndAt(res, e), p # EndAt(res, e)
  PROVE  TableStep(res, e, p)
<1>1. CASE e = Client /\ res
  BY <1>1, SMTT(60)
  DEF TableStep, EndAt, ReadAt, ReadEpoch, WriteAt, WriteEpoch, Does, Adds, FinAt, Flushes, CcsAt,
      FlightAt, IsOut, SendsLast, NoReplyFrom, FinSeq
<1>2. CASE e = Client /\ ~res
  BY <1>2, SMTT(60)
  DEF TableStep, EndAt, ReadAt, ReadEpoch, WriteAt, WriteEpoch, Does, Adds, FinAt, Flushes, CcsAt,
      FlightAt, IsOut, SendsLast, NoReplyFrom, FinSeq
<1>3. CASE e = Server /\ res
  <2>1. ~(e = Client)
    BY <1>3 DEF Server, Client
  <2> QED
    BY <1>3, <2>1, SMTT(60)
    DEF TableStep, EndAt, ReadAt, ReadEpoch, WriteAt, WriteEpoch, Does, Adds, FinAt, Flushes,
        CcsAt, FlightAt, IsOut, SendsLast, NoReplyFrom, FinSeq
<1>4. CASE e = Server /\ ~res
  <2>1. ~(e = Client)
    BY <1>4 DEF Server, Client
  <2> QED
    BY <1>4, <2>1, SMTT(60)
    DEF TableStep, EndAt, ReadAt, ReadEpoch, WriteAt, WriteEpoch, Does, Adds, FinAt, Flushes,
        CcsAt, FlightAt, IsOut, SendsLast, NoReplyFrom, FinSeq
<1> QED
  BY <1>1, <1>2, <1>3, <1>4 DEF End

\* What e has read when it reads: the Finished comes alone after the change of
\* the epoch, and nothing of the old epoch is left when the epoch changes.
LEMMA ReadTable ==
  ASSUME NEW res \in BOOLEAN, NEW e \in End, NEW p \in 1..EndAt(res, e)
  PROVE  /\ ReadAt(res, e, p) \in 0..(FinSeq(res, Peer(e)) + 1)
         /\ Does(res, e, p) = "recv" => ReadAt(res, e, p) <= FinSeq(res, Peer(e))
         /\ Does(res, e, p) = "recv" /\ ReadEpoch(res, e, p) = 1 =>
              ReadAt(res, e, p) = FinSeq(res, Peer(e))
         /\ Does(res, e, p) = "read_ccs" =>
              ReadAt(res, e, p) = FinSeq(res, Peer(e)) /\ ReadEpoch(res, e, p) = 0
         /\ p = EndAt(res, e) =>
              ReadAt(res, e, p) = FinSeq(res, Peer(e)) + 1 /\ ReadEpoch(res, e, p) = 1
<1>0. Client # Server
  BY DEF Server, Client
<1>1. CASE e = Client /\ res
  BY <1>0, <1>1, SMTT(60)
  DEF EndAt, ReadAt, ReadEpoch, Does, Adds, FinAt, Flushes, CcsAt, FinSeq, Peer
<1>2. CASE e = Client /\ ~res
  BY <1>0, <1>2, SMTT(60)
  DEF EndAt, ReadAt, ReadEpoch, Does, Adds, FinAt, Flushes, CcsAt, FinSeq, Peer
<1>3. CASE e = Server /\ res
  BY <1>0, <1>3, SMTT(60)
  DEF EndAt, ReadAt, ReadEpoch, Does, Adds, FinAt, Flushes, CcsAt, FinSeq, Peer
<1>4. CASE e = Server /\ ~res
  BY <1>0, <1>4, SMTT(60)
  DEF EndAt, ReadAt, ReadEpoch, Does, Adds, FinAt, Flushes, CcsAt, FinSeq, Peer
<1> QED
  BY <1>1, <1>2, <1>3, <1>4 DEF End

-------------------------------------------------------------------------------
(* Facts the steps share.                                                  *)

\* At in terms of the tables.
LEMMA AtIs ==
  ASSUME Shape, NEW e \in End, PosOK(e), NEW what, At(e, what)
  PROVE  status[e] = "run" /\ Does(resume, e, pc[e]) = what
<1>1. ScriptAt(e, pc[e])
  BY ScriptIs DEF Shape, PosOK
<1>2. status[e] = "run" /\ Script(e)[pc[e]].do = what
  BY DEF At
<1>3. CASE Adds(resume, e, pc[e])
  BY <1>1, <1>2, <1>3 DEF ScriptAt, Does, Add, AddFinished
<1>4. CASE ~Adds(resume, e, pc[e])
  BY <1>1, <1>2, <1>4 DEF ScriptAt, Do
<1> QED
  BY <1>3, <1>4

\* A peer is another end, and has e as its peer.
LEMMA PeerIs ==
  ASSUME NEW e \in End
  PROVE  /\ Peer(e) \in End /\ Peer(e) # e /\ Peer(Peer(e)) = e
         /\ \A x \in End : x = e \/ x = Peer(e)
BY DEF End, Peer, Client, Server

\* Messages and records stay owed as the endpoint goes on.
LEMMA OwedLater ==
  ASSUME NEW res, NEW e, NEW p \in Int, NEW q \in Int, q >= p, NEW m, Owed(res, e, p, m)
  PROVE  Owed(res, e, q, m)
<1>1. FinAt(res, e) \in Int
  BY DEF FinAt
<1> QED
  BY <1>1 DEF Owed

\* A slot is in order when it was and the end has read no more.
LEMMA InFrame ==
  ASSUME Shape, NEW x \in End, SlotsOK(x), CausalOK(x), resume' = resume,
         inc'[x] = inc[x], pc'[Peer(x)] \in Int, pc'[Peer(x)] >= pc[Peer(x)]
  PROVE  SlotsOK(x)' /\ CausalOK(x)'
<1>1. Peer(x) \in End /\ pc[Peer(x)] \in Int /\ FinAt(resume, Peer(x)) \in Int
  BY PeerIs DEF Shape, FinAt
<1>2. CausalOK(x)'
  BY <1>1 DEF CausalOK
<1>3. ASSUME NEW i \in 0..(Flight - 1)
      PROVE  SlotOK(x, inc[x].slot[i], i)'
  <2>1. SlotOK(x, inc[x].slot[i], i)
    BY DEF SlotsOK
  <2> QED
    BY <1>1, <2>1 DEF SlotOK
<1> QED
  BY <1>2, <1>3 DEF SlotsOK

\* The records of an end are in order when no new one is sent to it.
LEMMA NetFrame ==
  ASSUME Shape, NEW x \in End, NetOK(x), resume' = resume,
         net'[x] = net[x], pc'[Peer(x)] \in Int, pc'[Peer(x)] >= pc[Peer(x)]
  PROVE  NetOK(x)'
<1>1. Peer(x) \in End /\ pc[Peer(x)] \in Int
  BY PeerIs DEF Shape
<1> QED
  BY <1>1, OwedLater DEF NetOK

\* An end is as it was when the step leaves it alone.
LEMMA SideFrame ==
  ASSUME NEW x \in End, resume' = resume, pc'[x] = pc[x], status'[x] = status[x],
         out'[x] = out[x], timer'[x] = timer[x], inc'[x] = inc[x],
         PosOK(x), ReadOK(x), WriteOK(x), FlightOK(x), ReplyOK(x), TimerOK(x)
  PROVE  /\ PosOK(x)' /\ ReadOK(x)' /\ WriteOK(x)' /\ FlightOK(x)' /\ ReplyOK(x)' /\ TimerOK(x)'
BY DEF PosOK, ReadOK, WriteOK, FlightOK, ReplyOK, TimerOK

\* What send_flight sends of a flight, and how far it gets.
LEMMA SentIs ==
  ASSUME NEW res, NEW e, NEW p, NEW o \in Outs, NEW stop, NEW mtu \in Int,
         o.written \in 0..Len(o.msgs), CanStop(o, stop, mtu),
         \A i \in 1..Len(o.msgs) : Owed(res, e, p, o.msgs[i])
  PROVE  /\ stop[1] \in 0..Len(o.msgs) /\ stop[2] \in Int
         /\ \A r \in Sent(o, stop, mtu) : r \in Records /\ Owed(res, e, p, r)
<1>0. o.msgs \in Seq(Msgs) /\ Len(o.msgs) \in Nat
  BY LenProperties DEF Outs
<1>1. ASSUME NEW q \in Places(o, o.written, o.offset, mtu)
      PROVE  q[1] \in 0..(Len(o.msgs) - 1) /\ q[2] \in Int
  <2>1. PICK i \in o.written..(Len(o.msgs) - 1) :
          q \in {<<i, x>> : x \in Cuts(o.msgs[i + 1], IF i = o.written THEN o.offset ELSE 0, mtu)}
    BY DEF Places
  <2>2. PICK x \in Cuts(o.msgs[i + 1], IF i = o.written THEN o.offset ELSE 0, mtu) : q = <<i, x>>
    BY <2>1
  <2>3. x \in Int
    BY <2>2, <1>0 DEF Cuts
  <2> QED
    BY <2>2, <2>3, <1>0
<1>2. stop[1] \in 0..Len(o.msgs) /\ stop[2] \in Int
  BY <1>0, <1>1 DEF CanStop, PastEnd
<1>3. ASSUME NEW r \in Sent(o, stop, mtu)
      PROVE  r \in Records /\ Owed(res, e, p, r)
  <2>1. PICK q \in Places(o, o.written, o.offset, mtu) : r = Record(o, q, mtu)
    BY DEF Sent
  <2>2. PICK k : k = q[1] + 1
    OBVIOUS
  <2>3. k \in 1..Len(o.msgs) /\ q[2] \in Int
    BY <2>1, <2>2, <1>1, <1>0
  <2>4. PICK m : m = o.msgs[k]
    OBVIOUS
  <2>5. m \in Msgs /\ Owed(res, e, p, m)
    BY <1>0, <2>3, <2>4, ElementOfSeq
  <2>6. r = [epoch |-> m.epoch, ccs |-> m.ccs, seq |-> m.seq, fin |-> m.fin, len |-> m.len,
             off |-> q[2], n |-> IF m.len - q[2] > mtu THEN mtu ELSE m.len - q[2]]
    BY <2>1, <2>2, <2>4 DEF Record
  <2>7. m.len \in Int /\ m.seq \in Int /\ m.epoch \in Int /\ m.ccs \in BOOLEAN /\ m.fin \in BOOLEAN
    BY <2>5 DEF Msgs
  <2>8. r \in Records
    BY <2>3, <2>6, <2>7 DEF Records
  <2>9. r.epoch = m.epoch /\ r.ccs = m.ccs /\ r.seq = m.seq /\ r.fin = m.fin /\ r.len = m.len
    BY <2>6
  <2> QED
    BY <2>5, <2>8, <2>9 DEF Owed, Genuine
<1> QED
  BY <1>2, <1>3

\* A flight is cleared field by field.
LEMMA ClearedIs ==
  ASSUME NEW o \in Outs
  PROVE  /\ Cleared(o) \in Outs
         /\ Cleared(o).w_epoch = o.w_epoch /\ Cleared(o).write_seq = o.write_seq
         /\ Cleared(o).msgs = <<>> /\ Cleared(o).written = 0
         /\ Cleared(o).complete = FALSE /\ Cleared(o).has_reply = FALSE
<1>1. PICK c : c = Cleared(o)
  OBVIOUS
<1>2. c \in [w_epoch : {o.w_epoch}, write_seq : {o.write_seq}, msgs : {<<>>}, written : {0},
            offset : {0}, complete : {FALSE}, has_reply : {FALSE}]
  BY <1>1 DEF Cleared, Outs
<1>3. c.complete = FALSE /\ c.has_reply = FALSE
  BY <1>2, Zenon
<1>4. /\ c.w_epoch = o.w_epoch /\ c.write_seq = o.write_seq /\ c.msgs = <<>> /\ c.written = 0
      /\ c.offset = 0
  BY <1>2
<1>5. o.w_epoch \in Int /\ o.write_seq \in Int /\ <<>> \in Seq(Msgs)
  BY DEF Outs
<1>6. /\ c.w_epoch \in Int /\ c.write_seq \in Int /\ c.msgs \in Seq(Msgs) /\ c.written \in Int
      /\ c.offset \in Int
  BY <1>4, <1>5
<1>9. c.complete \in BOOLEAN /\ c.has_reply \in BOOLEAN
  BY <1>3, Zenon
<1>7. c = [w_epoch |-> c.w_epoch, write_seq |-> c.write_seq, msgs |-> c.msgs, written |-> c.written,
           offset |-> c.offset, complete |-> c.complete, has_reply |-> c.has_reply]
  BY <1>2
<1>8. c \in Outs
  BY <1>6, <1>7, <1>9 DEF Outs
<1> QED
  BY <1>1, <1>3, <1>4, <1>8

\* A timer is stopped field by field.
LEMMA StopTimerIs ==
  ASSUME NEW t \in Timers
  PROVE  StopTimer(t) \in Timers /\ StopTimer(t).num = 0 /\ StopTimer(t).mtu = t.mtu
<1>1. PICK c : c = StopTimer(t)
  OBVIOUS
<1>2. c \in [on : {FALSE}, num : {0}, mtu : {t.mtu}] /\ t.mtu \in Int
  BY <1>1 DEF StopTimer, Timers
<1>3. c.on \in BOOLEAN
  BY <1>2, Zenon
<1>4. c \in Timers
  BY <1>2, <1>3 DEF Timers
<1> QED
  BY <1>1, <1>2, <1>4

-------------------------------------------------------------------------------
(* Sending.                                                                *)

\* Adding the message that the script asks for.
LEMMA AddOne ==
  ASSUME IInv, resume' = resume, NEW e \in End, NEW len \in Int, NEW fin \in BOOLEAN,
         NEW c \in BOOLEAN, add_outgoing(e, len, fin, c),
         status[e] = "run", Does(resume, e, pc[e]) \in {"add", "ccs"},
         c <=> Does(resume, e, pc[e]) = "ccs",
         fin <=> pc[e] = FinAt(resume, e) - 1,
         ~c => len = LenOf(resume, e, WriteAt(resume, e, pc[e]))
  PROVE  IInv'
<1> USE HandshakeAssumption
<1>p. PICK p : p = pc[e]
  OBVIOUS
<1>1. /\ Shape /\ PosOK(e) /\ ReadOK(e) /\ WriteOK(e) /\ FlightOK(e) /\ ReplyOK(e) /\ TimerOK(e)
      /\ SlotsOK(e) /\ NetOK(e) /\ CausalOK(e)
  BY DEF IInv
<1>2. p \in 1..EndAt(resume, e) /\ p # EndAt(resume, e) /\ resume \in BOOLEAN /\ p \in Int
  <2>1. Does(resume, e, EndAt(resume, e)) \notin {"add", "ccs"}
    BY <1>1 DEF Does, Adds, EndAt, FinAt, Flushes, CcsAt, End, Shape
  <2>2. EndAt(resume, e) \in Int
    BY DEF EndAt
  <2> QED
    BY <1>1, <1>p, <2>1, <2>2 DEF PosOK, Shape
<1>3. TableStep(resume, e, p)
  BY <1>2, Tables
<1>4. PICK o : o = IF out[e].complete THEN Cleared(out[e]) ELSE out[e]
  OBVIOUS
<1>5. out[e] \in Outs /\ out[e].msgs \in Seq(Msgs) /\ out[e].complete \in BOOLEAN
  BY <1>1 DEF Shape, Outs
<1>6. out[e].complete <=> IsOut(resume, e, p)
  BY <1>1, <1>3, <1>p DEF ReplyOK, TableStep
<1>7. /\ o \in Outs /\ o.write_seq = out[e].write_seq /\ o.w_epoch = out[e].w_epoch
      /\ o.msgs = IF out[e].complete THEN <<>> ELSE out[e].msgs
      /\ o.written = IF out[e].complete THEN 0 ELSE out[e].written
      /\ o.complete = FALSE
      /\ o.has_reply => ~out[e].complete /\ out[e].has_reply
  <2>1. CASE out[e].complete
    BY <1>4, <1>5, <2>1, ClearedIs
  <2>2. CASE ~out[e].complete
    BY <1>4, <1>5, <2>2
  <2> QED
    BY <2>1, <2>2
<1>8. Len(o.msgs) + 1 = FlightAt(resume, e, p + 1) /\ Len(o.msgs) \in Nat /\ Len(o.msgs) < Flight
  <2>1. o.msgs \in Seq(Msgs)
    BY <1>7 DEF Outs
  <2>2. Len(out[e].msgs) = FlightAt(resume, e, p)
    BY <1>1, <1>p DEF FlightOK
  <2>3. Len(o.msgs) \in Nat
    BY <2>1, LenProperties
  <2>4. Len(o.msgs) = IF IsOut(resume, e, p) THEN 0 ELSE FlightAt(resume, e, p)
    BY <1>6, <1>7, <2>2
  <2> QED
    BY <1>3, <1>p, <2>3, <2>4 DEF TableStep
<1>9. PICK m : m = [seq |-> o.write_seq, len |-> len, fin |-> fin, epoch |-> o.w_epoch, ccs |-> c]
  OBVIOUS
<1>10. m \in Msgs /\ Owed(resume, e, p + 1, m) /\ (m.fin <=> p = FinAt(resume, e) - 1)
  <2>1. o.write_seq = WriteAt(resume, e, p) /\ o.w_epoch = WriteEpoch(resume, e, p)
    BY <1>1, <1>7, <1>p DEF WriteOK
  <2>2. o.write_seq \in Int /\ o.w_epoch \in Int
    BY <1>7 DEF Outs
  <2>3. m \in Msgs
    BY <1>9, <2>2 DEF Msgs
  <2>4. m.seq = WriteAt(resume, e, p) /\ m.epoch = WriteEpoch(resume, e, p) /\ m.len = len
    BY <1>9, <2>1
  <2>5. (m.fin <=> p = FinAt(resume, e) - 1) /\ (m.ccs <=> Does(resume, e, p) = "ccs")
    BY <1>9, <1>p
  <2>6. FinAt(resume, e) \in Int /\ FinSeq(resume, e) \in Int
    BY DEF FinAt, FinSeq
  <2>7. Genuine(resume, e, m)
    BY <1>3, <1>p, <2>4, <2>5, <2>6 DEF Genuine, TableStep
  <2> QED
    BY <1>2, <2>3, <2>5, <2>6, <2>7 DEF Owed
<1>11. PICK n : n = [o EXCEPT !.msgs = Append(@, m), !.write_seq = IF c THEN @ ELSE @ + 1,
                              !.w_epoch = IF c THEN @ + 1 ELSE @]
  OBVIOUS
<1>12. /\ out' = [out EXCEPT ![e] = n] /\ pc' = [pc EXCEPT ![e] = @ + 1]
       /\ timer' = IF out[e].complete THEN [timer EXCEPT ![e] = StopTimer(@)] ELSE timer
       /\ UNCHANGED <<status, inc, blocked, net>>
  <2>1. ~(Len(o.msgs) >= Flight)
    BY <1>8
  <2> QED
    BY <1>4, <1>9, <1>11, <2>1 DEF add_outgoing, Advance
<1>13. /\ n \in Outs /\ n.msgs = Append(o.msgs, m) /\ n.written = o.written
       /\ n.write_seq = (IF c THEN o.write_seq ELSE o.write_seq + 1)
       /\ n.w_epoch = (IF c THEN o.w_epoch + 1 ELSE o.w_epoch)
       /\ n.complete = FALSE /\ n.has_reply = o.has_reply
  <2>1. Append(o.msgs, m) \in Seq(Msgs)
    BY <1>7, <1>10 DEF Outs
  <2>2. (IF c THEN o.write_seq ELSE o.write_seq + 1) \in Int
        /\ (IF c THEN o.w_epoch + 1 ELSE o.w_epoch) \in Int
    BY <1>7 DEF Outs
  <2>3. o = [w_epoch |-> o.w_epoch, write_seq |-> o.write_seq, msgs |-> o.msgs, written |-> o.written,
             offset |-> o.offset, complete |-> o.complete, has_reply |-> o.has_reply]
    BY <1>7 DEF Outs
  <2> QED
    BY <1>7, <1>11, <2>1, <2>2 DEF Outs
<1>14. n.msgs \in Seq(Msgs) /\ Len(n.msgs) = FlightAt(resume, e, p + 1)
       /\ \A i \in 1..Len(n.msgs) : n.msgs[i] = IF i = Len(n.msgs) THEN m ELSE o.msgs[i]
  <2>1. o.msgs \in Seq(Msgs) /\ m \in Msgs
    BY <1>7, <1>10 DEF Outs
  <2>2. /\ Append(o.msgs, m) \in Seq(Msgs)
        /\ Len(Append(o.msgs, m)) = Len(o.msgs) + 1
        /\ \A i \in 1..Len(o.msgs) : Append(o.msgs, m)[i] = o.msgs[i]
        /\ Append(o.msgs, m)[Len(o.msgs) + 1] = m
    BY <2>1, AppendProperties
  <2>3. Len(o.msgs) \in Nat
    BY <2>1
  <2> QED
    BY <1>8, <1>13, <2>2, <2>3
<1>15. pc'[e] = p + 1 /\ out'[e] = n /\ pc'[e] \in Int
  BY <1>1, <1>2, <1>12, <1>p DEF Shape
<1>16. timer'[e].num \in 0..MaxTimeouts /\ timer'[e].mtu \in {Mtu, FallbackMtu}
       /\ timer'[e] \in Timers
  <2>1. timer[e] \in Timers /\ timer[e].num \in 0..MaxTimeouts
        /\ timer[e].mtu \in {Mtu, FallbackMtu}
    BY <1>1 DEF Shape, TimerOK
  <2>2. CASE out[e].complete
    BY <1>1, <1>12, <2>1, <2>2, StopTimerIs DEF Shape
  <2>3. CASE ~out[e].complete
    BY <1>12, <2>1, <2>3
  <2> QED
    BY <2>2, <2>3
<1>17. Shape'
  BY <1>1, <1>2, <1>12, <1>13, <1>15, <1>16 DEF Shape, StopTimer
<1>18. PosOK(e)' /\ ReadOK(e)'
  <2>1. status'[e] = "run" /\ inc' = inc
    BY <1>12
  <2>2. PosOK(e)'
    BY <1>3, <1>15, <2>1 DEF PosOK, TableStep
  <2>3. ReadAt(resume, e, p + 1) = ReadAt(resume, e, p)
        /\ ReadEpoch(resume, e, p + 1) = ReadEpoch(resume, e, p)
    BY <1>2, <1>3, <1>p DEF TableStep, ReadAt, ReadEpoch
  <2>4. ReadOK(e)'
    BY <1>1, <1>15, <1>p, <2>1, <2>3 DEF ReadOK
  <2> QED
    BY <2>2, <2>4
<1>19. WriteOK(e)'
  <2>1. /\ WriteAt(resume, e, p + 1) = WriteAt(resume, e, p) + IF c THEN 0 ELSE 1
        /\ WriteEpoch(resume, e, p + 1) = WriteEpoch(resume, e, p) + IF c THEN 1 ELSE 0
    BY <1>3, <1>p DEF TableStep
  <2>2. n.write_seq = WriteAt(resume, e, p + 1) /\ n.w_epoch = WriteEpoch(resume, e, p + 1)
    <3>1. WriteAt(resume, e, p) \in Int /\ WriteEpoch(resume, e, p) \in Int
      BY DEF WriteAt, WriteEpoch
    <3>2. out[e].write_seq = WriteAt(resume, e, p) /\ out[e].w_epoch = WriteEpoch(resume, e, p)
      BY <1>1, <1>p DEF WriteOK
    <3> QED
      BY <1>7, <1>13, <2>1, <3>1, <3>2
  <2>3. Len(n.msgs) = Len(o.msgs) + 1
    BY <1>8, <1>14
  <2>4. n.written \in 0..Len(n.msgs)
    BY <1>1, <1>7, <1>8, <1>13, <2>3 DEF WriteOK
  <2> QED
    BY <1>15, <2>2, <2>4 DEF WriteOK
<1>20. FlightOK(e)'
  <2>1. ASSUME NEW i \in 1..Len(n.msgs)
        PROVE  Owed(resume, e, p + 1, n.msgs[i])
    <3>1. CASE i = Len(n.msgs)
      BY <1>10, <1>14, <3>1
    <3>2. CASE i # Len(n.msgs)
      <4>1. i \in 1..Len(o.msgs) /\ n.msgs[i] = o.msgs[i]
        BY <1>8, <1>14, <3>2
      <4>2. o.msgs = out[e].msgs
        BY <1>7, <4>1
      <4>3. Owed(resume, e, p, o.msgs[i])
        BY <1>1, <1>p, <4>1, <4>2 DEF FlightOK
      <4> QED
        BY <1>2, <4>1, <4>3, OwedLater
    <3> QED
      BY <3>1, <3>2
  <2>2. p + 1 >= FinAt(resume, e) => n.msgs[Len(n.msgs)].fin
    <3>1. Len(n.msgs) \in 1..Len(n.msgs)
      BY <1>8, <1>14
    <3>2. p < FinAt(resume, e) /\ FinAt(resume, e) \in Int
      BY <1>3, <1>p DEF TableStep, FinAt
    <3> QED
      BY <1>2, <1>10, <1>14, <3>1, <3>2
  <2> QED
    BY <1>14, <1>15, <2>1, <2>2 DEF FlightOK
<1>21. ReplyOK(e)'
  <2>1. status'[e] = "run" /\ ~IsOut(resume, e, p + 1)
    BY <1>3, <1>p, <1>12 DEF TableStep
  <2>2. ASSUME SendsLast(resume, e), p + 1 >= NoReplyFrom(resume, e)
        PROVE  ~n.has_reply
    <3>1. NoReplyFrom(resume, e) \in Int
      BY DEF NoReplyFrom
    <3>2. CASE p >= NoReplyFrom(resume, e)
      BY <1>1, <1>7, <1>13, <1>p, <2>2, <3>2 DEF ReplyOK
    <3>3. CASE p = NoReplyFrom(resume, e) - 1
      BY <1>3, <1>6, <1>7, <1>13, <2>2, <3>3 DEF TableStep
    <3> QED
      BY <1>2, <2>2, <3>1, <3>2, <3>3
  <2> QED
    BY <1>13, <1>15, <2>1, <2>2 DEF ReplyOK
<1>22. TimerOK(e)'
  BY <1>16 DEF TimerOK
<1>23. ASSUME NEW x \in End, x # e
       PROVE  PosOK(x)' /\ ReadOK(x)' /\ WriteOK(x)' /\ FlightOK(x)' /\ ReplyOK(x)' /\ TimerOK(x)'
  <2>1. /\ pc'[x] = pc[x] /\ status'[x] = status[x] /\ out'[x] = out[x] /\ timer'[x] = timer[x]
        /\ inc'[x] = inc[x]
    BY <1>1, <1>12, <1>23 DEF Shape
  <2>2. PosOK(x) /\ ReadOK(x) /\ WriteOK(x) /\ FlightOK(x) /\ ReplyOK(x) /\ TimerOK(x)
    BY DEF IInv
  <2> QED
    BY <2>1, <2>2, SideFrame
<1>24. ASSUME NEW x \in End
       PROVE  SlotsOK(x)' /\ CausalOK(x)' /\ NetOK(x)'
  <2>1. pc'[Peer(x)] \in Int /\ pc'[Peer(x)] >= pc[Peer(x)]
    BY <1>1, <1>12, PeerIs DEF Shape
  <2>2. SlotsOK(x) /\ CausalOK(x) /\ NetOK(x)
    BY DEF IInv
  <2> QED
    BY <1>1, <1>12, <2>1, <2>2, InFrame, NetFrame
<1> QED
  BY <1>17, <1>18, <1>19, <1>20, <1>21, <1>22, <1>23, <1>24 DEF IInv

\* AddMessage adds the message of the script.
LEMMA AddKeeps ==
  ASSUME IInv, resume' = resume, NEW e \in End, AddMessage(e)
  PROVE  IInv'
<1>1. Shape /\ PosOK(e)
  BY DEF IInv
<1>2. ScriptAt(e, pc[e])
  BY <1>1, ScriptIs DEF Shape, PosOK
<1>3. WriteAt(resume, e, pc[e]) \in Int /\ LenOf(resume, e, WriteAt(resume, e, pc[e])) \in Int
  BY DEF WriteAt, LenOf
<1>4. CASE At(e, "ccs") /\ add_outgoing(e, 0, FALSE, TRUE)
  <2>1. status[e] = "run" /\ Does(resume, e, pc[e]) = "ccs"
    BY <1>1, <1>4, AtIs
  <2>2. pc[e] # FinAt(resume, e) - 1
    BY <1>1, <2>1 DEF Does, Adds, FinAt, Shape, PosOK
  <2>3. PICK len, fin, c : len = 0 /\ fin = FALSE /\ c = TRUE
    OBVIOUS
  <2>4. add_outgoing(e, len, fin, c)
    BY <1>4, <2>3, Zenon
  <2>5. fin \in BOOLEAN /\ c \in BOOLEAN
    BY <2>3, Zenon
  <2>8. len \in Int
    BY <2>3
  <2>6. (c <=> Does(resume, e, pc[e]) = "ccs") /\ (fin <=> pc[e] = FinAt(resume, e) - 1)
    BY <2>1, <2>2, <2>3
  <2>7. ~c => len = LenOf(resume, e, WriteAt(resume, e, pc[e]))
    BY <2>3
  <2> QED
    BY <2>1, <2>4, <2>5, <2>6, <2>7, <2>8, AddOne
<1>5. CASE At(e, "add") /\ add_outgoing(e, Script(e)[pc[e]].len, Script(e)[pc[e]].fin, FALSE)
  <2>1. status[e] = "run" /\ Does(resume, e, pc[e]) = "add"
    BY <1>1, <1>5, AtIs
  <2>2. Adds(resume, e, pc[e])
    BY <2>1 DEF Does
  <2>3. PICK len, fin : len = Script(e)[pc[e]].len /\ fin = Script(e)[pc[e]].fin
    OBVIOUS
  <2>4. PICK want : want = LenOf(resume, e, WriteAt(resume, e, pc[e]))
    OBVIOUS
  <2>5. ASSUME pc[e] = FinAt(resume, e) - 1
        PROVE  len = want /\ fin = TRUE
    <3>1. Script(e)[pc[e]] \in [do : {"add"}, len : {want}, fin : {TRUE}]
      <4>1. Script(e)[pc[e]] = AddFinished(want)
        BY <1>2, <2>2, <2>4, <2>5 DEF ScriptAt
      <4>2. AddFinished(want) \in [do : {"add"}, len : {want}, fin : {TRUE}]
        BY DEF AddFinished
      <4> QED
        BY <4>1, <4>2, Zenon
    <3> QED
      BY <2>3, <3>1, Zenon
  <2>6. ASSUME pc[e] # FinAt(resume, e) - 1
        PROVE  len = want /\ fin = FALSE
    <3>1. Script(e)[pc[e]] \in [do : {"add"}, len : {want}, fin : {FALSE}]
      <4>1. Script(e)[pc[e]] = Add(want)
        BY <1>2, <2>2, <2>4, <2>6 DEF ScriptAt
      <4>2. Add(want) \in [do : {"add"}, len : {want}, fin : {FALSE}]
        BY DEF Add
      <4> QED
        BY <4>1, <4>2, Zenon
    <3> QED
      BY <2>3, <3>1, Zenon
  <2>7. len = want /\ fin \in BOOLEAN /\ (fin <=> pc[e] = FinAt(resume, e) - 1)
    BY <2>5, <2>6
  <2>8. PICK c : c = FALSE
    OBVIOUS
  <2>9. add_outgoing(e, len, fin, c)
    BY <1>5, <2>3, <2>8, Zenon
  <2>10. len \in Int /\ c \in BOOLEAN /\ (c <=> Does(resume, e, pc[e]) = "ccs")
    BY <1>3, <2>1, <2>4, <2>7, <2>8
  <2> QED
    BY <2>1, <2>4, <2>7, <2>9, <2>10, AddOne
<1> QED
  BY <1>4, <1>5 DEF AddMessage

\* A step that sends: the flight of e, from o, as far as stop.
LEMMA SendKeeps ==
  ASSUME IInv, resume' = resume, NEW e \in End, NEW o \in Outs, NEW stop, NEW mtu \in Int,
         CanStop(o, stop, mtu), o.msgs = out[e].msgs, o.written \in 0..Len(o.msgs),
         out' = [out EXCEPT ![e] = SentUpTo(o, stop)],
         net' = [net EXCEPT ![Peer(e)] = @ \cup Sent(o, stop, mtu)],
         pc' \in [End -> Int], pc'[e] >= pc[e], \A x \in End : x # e => pc'[x] = pc[x],
         inc' = inc, status' = status
  PROVE  /\ out' \in [End -> Outs] /\ net' \in [End -> SUBSET Records]
         /\ out'[e].msgs = out[e].msgs /\ out'[e].written \in 0..Len(out[e].msgs)
         /\ out'[e].w_epoch = o.w_epoch /\ out'[e].write_seq = o.write_seq
         /\ out'[e].complete = o.complete /\ out'[e].has_reply = o.has_reply
         /\ \A x \in End : SlotsOK(x)' /\ CausalOK(x)' /\ NetOK(x)'
<1>1. Shape /\ FlightOK(e)
  BY DEF IInv
<1>2. \A i \in 1..Len(o.msgs) : Owed(resume, e, pc[e], o.msgs[i])
  BY <1>1 DEF FlightOK
<1>3. /\ stop[1] \in 0..Len(o.msgs) /\ stop[2] \in Int
      /\ \A r \in Sent(o, stop, mtu) : r \in Records /\ Owed(resume, e, pc[e], r)
  BY <1>2, SentIs
<1>4. PICK n : n = SentUpTo(o, stop)
  OBVIOUS
<1>5. Len(o.msgs) \in Nat
  BY LenProperties DEF Outs
<1>6. /\ n \in Outs /\ n.msgs = o.msgs /\ n.written = stop[1] /\ n.w_epoch = o.w_epoch
      /\ n.write_seq = o.write_seq /\ n.complete = o.complete /\ n.has_reply = o.has_reply
  <2>1. stop[1] \in Int
    BY <1>3, <1>5
  <2> QED
    BY <1>3, <1>4, <2>1 DEF SentUpTo, Outs
<1>7. out' \in [End -> Outs] /\ out'[e] = n
  BY <1>1, <1>4, <1>6 DEF Shape
<1>8. PICK S : S = Sent(o, stop, mtu)
  OBVIOUS
<1>9. net' \in [End -> SUBSET Records] /\ net'[Peer(e)] = net[Peer(e)] \cup S /\ net'[e] = net[e]
  <2>1. S \subseteq Records /\ Peer(e) \in End /\ Peer(e) # e
    BY <1>3, <1>8, PeerIs
  <2> QED
    BY <1>1, <1>8, <2>1 DEF Shape
<1>10. ASSUME NEW x \in End
       PROVE  SlotsOK(x)' /\ CausalOK(x)' /\ NetOK(x)'
  <2>1. pc'[Peer(x)] \in Int /\ pc'[Peer(x)] >= pc[Peer(x)] /\ pc[e] \in Int /\ pc'[e] \in Int
    <3>1. ASSUME NEW y \in End
          PROVE  pc'[y] \in Int /\ pc'[y] >= pc[y] /\ pc[y] \in Int
      <4>1. pc[y] \in Int /\ pc'[y] \in Int
        BY <1>1 DEF Shape
      <4> QED
        BY <4>1
    <3> QED
      BY <3>1, PeerIs
  <2>2. SlotsOK(x) /\ CausalOK(x) /\ NetOK(x)
    BY DEF IInv
  <2>3. SlotsOK(x)' /\ CausalOK(x)'
    BY <1>1, <2>1, <2>2, InFrame
  <2>4. CASE x = e
    <3>1. net'[x] = net[x]
      BY <1>9, <2>4
    <3> QED
      BY <1>1, <2>1, <2>2, <2>3, <3>1, NetFrame
  <2>5. CASE x = Peer(e)
    <3>1. Peer(x) = e
      BY <2>5, PeerIs
    <3>2. ASSUME NEW r \in net'[x]
          PROVE  Owed(resume, e, pc'[e], r)
      <4>1. Owed(resume, e, pc[e], r)
        BY <1>3, <1>8, <1>9, <2>2, <2>5, <3>1 DEF NetOK
      <4> QED
        BY <2>1, <4>1, OwedLater
    <3> QED
      BY <2>3, <3>1, <3>2 DEF NetOK
  <2> QED
    BY <2>3, <2>4, <2>5, PeerIs
<1> QED
  BY <1>3, <1>6, <1>7, <1>9, <1>10

\* The flight is still the one of the position when only its progress, or the
\* position by a step that adds nothing, changes.
LEMMA FlightStays ==
  ASSUME NEW e \in End, FlightOK(e), resume' = resume, pc[e] \in Int,
         out'[e].msgs = out[e].msgs, status[e] # "run" => status'[e] # "run",
         \/ pc'[e] = pc[e]
         \/ /\ pc'[e] = pc[e] + 1 /\ pc[e] # FinAt(resume, e) - 1
            /\ FlightAt(resume, e, pc[e] + 1) = FlightAt(resume, e, pc[e])
  PROVE  FlightOK(e)'
<1>1. FinAt(resume, e) \in Int /\ pc'[e] \in Int /\ pc'[e] >= pc[e]
  BY DEF FinAt
<1>2. PICK L : L = out[e].msgs
  OBVIOUS
<1>3. \A i \in 1..Len(L) : Owed(resume, e, pc'[e], L[i])
  BY <1>1, <1>2, OwedLater DEF FlightOK
<1>4. pc'[e] >= FinAt(resume, e) /\ Len(L) > 0 => L[Len(L)].fin
  <2>1. pc[e] >= FinAt(resume, e) /\ Len(L) > 0 => L[Len(L)].fin
    BY <1>2 DEF FlightOK
  <2>2. pc'[e] >= FinAt(resume, e) => pc[e] >= FinAt(resume, e)
    BY <1>1
  <2> QED
    BY <2>1, <2>2
<1>5. \/ Len(L) = FlightAt(resume, e, pc'[e])
      \/ Len(L) = 0 /\ status'[e] # "run" /\ ~SendsLast(resume, e)
  BY <1>2 DEF FlightOK
<1> QED
  BY <1>2, <1>3, <1>4, <1>5 DEF FlightOK

\* Sending a flight, in whole or in part, with or without WANT_WRITE.
LEMMA FlushKeeps ==
  ASSUME IInv, resume' = resume, NEW e \in End, dtls1_flush_flight(e)
  PROVE  IInv'
<1> USE HandshakeAssumption
<1>p. PICK p : p = pc[e]
  OBVIOUS
<1>1. /\ Shape /\ PosOK(e) /\ ReadOK(e) /\ WriteOK(e) /\ FlightOK(e) /\ ReplyOK(e) /\ TimerOK(e)
      /\ SlotsOK(e) /\ NetOK(e) /\ CausalOK(e)
  BY DEF IInv
<1>2. status[e] = "run" /\ Does(resume, e, p) = "flush"
  BY <1>1, <1>p, AtIs DEF dtls1_flush_flight
<1>3. p \in 1..EndAt(resume, e) /\ p # EndAt(resume, e) /\ resume \in BOOLEAN /\ p \in Int
  <2>1. Does(resume, e, EndAt(resume, e)) # "flush" /\ EndAt(resume, e) \in Int
    BY <1>1 DEF Does, Adds, EndAt, FinAt, Flushes, CcsAt, End, Shape
  <2> QED
    BY <1>1, <1>2, <1>p, <2>1 DEF PosOK, Shape
<1>4. TableStep(resume, e, p)
  BY <1>3, Tables
<1>5. PICK o : o = [out[e] EXCEPT !.complete = TRUE]
  OBVIOUS
<1>6. /\ o \in Outs /\ o.msgs = out[e].msgs /\ o.written = out[e].written
      /\ o.w_epoch = out[e].w_epoch /\ o.write_seq = out[e].write_seq
      /\ o.has_reply = out[e].has_reply /\ o.complete
  <2>1. out[e] \in Outs
    BY <1>1 DEF Shape
  <2> QED
    BY <1>5, <2>1 DEF Outs
<1>7. PICK stop \in Stops, flushed \in BOOLEAN :
        /\ CanStop(o, stop, timer[e].mtu)
        /\ Block(~flushed)
        /\ out' = [out EXCEPT ![e] = SentUpTo(o, stop)]
        /\ net' = [net EXCEPT ![Peer(e)] = @ \cup Sent(o, stop, timer[e].mtu)]
        /\ pc' = IF flushed THEN [pc EXCEPT ![e] = @ + 1] ELSE pc
  BY <1>5 DEF dtls1_flush_flight
<1>8. timer' = [timer EXCEPT ![e].on = TRUE] /\ status' = status /\ inc' = inc
  BY DEF dtls1_flush_flight
<1>9. blocked' \in 0..MaxBlock
  BY <1>1, <1>7 DEF Block, Shape
<1>10. /\ pc' \in [End -> Int] /\ (pc'[e] = p \/ pc'[e] = p + 1) /\ pc'[e] >= pc[e]
       /\ \A x \in End : x # e => pc'[x] = pc[x]
  BY <1>1, <1>3, <1>7, <1>p DEF Shape
<1>11. timer[e] \in Timers /\ timer[e].mtu \in Int
  BY <1>1 DEF Shape, Timers
<1>12. /\ out' \in [End -> Outs] /\ net' \in [End -> SUBSET Records]
       /\ out'[e].msgs = out[e].msgs /\ out'[e].written \in 0..Len(out[e].msgs)
       /\ out'[e].w_epoch = o.w_epoch /\ out'[e].write_seq = o.write_seq
       /\ out'[e].complete = o.complete /\ out'[e].has_reply = o.has_reply
       /\ \A x \in End : SlotsOK(x)' /\ CausalOK(x)' /\ NetOK(x)'
  <2>1. o.written \in 0..Len(o.msgs)
    BY <1>1, <1>6 DEF WriteOK
  <2> QED
    BY <1>6, <1>7, <1>8, <1>10, <1>11, <2>1, SendKeeps
<1>13. /\ timer' \in [End -> Timers] /\ timer'[e].num = timer[e].num
       /\ timer'[e].mtu = timer[e].mtu /\ \A x \in End : x # e => timer'[x] = timer[x]
  <2>1. [timer[e] EXCEPT !.on = TRUE] \in Timers
    BY <1>11 DEF Timers
  <2>2. timer'[e] = [timer[e] EXCEPT !.on = TRUE]
    BY <1>1, <1>8 DEF Shape
  <2> QED
    BY <1>1, <1>8, <1>11, <2>1, <2>2 DEF Shape, Timers
<1>14. Shape'
  BY <1>1, <1>8, <1>9, <1>10, <1>12, <1>13 DEF Shape
<1>15. PosOK(e)' /\ ReadOK(e)' /\ TimerOK(e)'
  <2>1. ReadAt(resume, e, p + 1) = ReadAt(resume, e, p)
        /\ ReadEpoch(resume, e, p + 1) = ReadEpoch(resume, e, p)
    BY <1>2, <1>4 DEF TableStep, ReadAt, ReadEpoch
  <2>2. ReadOK(e)'
    BY <1>1, <1>8, <1>10, <1>p, <2>1 DEF ReadOK
  <2>3. PosOK(e)'
    BY <1>1, <1>2, <1>4, <1>8, <1>10, <1>p DEF PosOK, TableStep
  <2>4. TimerOK(e)'
    BY <1>1, <1>8, <1>13 DEF TimerOK
  <2> QED
    BY <2>2, <2>3, <2>4
<1>16. WriteOK(e)'
  <2>1. /\ WriteAt(resume, e, p + 1) = WriteAt(resume, e, p)
        /\ WriteEpoch(resume, e, p + 1) = WriteEpoch(resume, e, p)
    BY <1>2, <1>4 DEF TableStep, WriteAt, WriteEpoch
  <2> QED
    BY <1>1, <1>6, <1>10, <1>12, <1>p, <2>1 DEF WriteOK
<1>17. FlightOK(e)'
  <2>1. FlightAt(resume, e, p + 1) = FlightAt(resume, e, p) /\ p # FinAt(resume, e) - 1
    BY <1>2, <1>4 DEF TableStep
  <2> QED
    BY <1>1, <1>3, <1>8, <1>10, <1>12, <1>p, <2>1, FlightStays
<1>18. ReplyOK(e)'
  <2>1. out'[e].complete /\ (out'[e].has_reply <=> out[e].has_reply)
    BY <1>6, <1>12
  <2>2. Flushes(resume, e, p) /\ IsOut(resume, e, p + 1)
    BY <1>2, <1>4 DEF TableStep
  <2>3. ASSUME SendsLast(resume, e), pc'[e] >= NoReplyFrom(resume, e)
        PROVE  ~out[e].has_reply
    <3>1. NoReplyFrom(resume, e) \in Int
      BY DEF NoReplyFrom
    <3>2. p # NoReplyFrom(resume, e) - 1
      BY <1>2, <1>4, <2>3 DEF TableStep
    <3>3. p >= NoReplyFrom(resume, e)
      BY <1>3, <1>10, <2>3, <3>1, <3>2
    <3> QED
      BY <1>1, <1>p, <2>3, <3>3 DEF ReplyOK
  <2> QED
    BY <1>10, <2>1, <2>2, <2>3 DEF ReplyOK
<1>19. ASSUME NEW x \in End, x # e
       PROVE  PosOK(x)' /\ ReadOK(x)' /\ WriteOK(x)' /\ FlightOK(x)' /\ ReplyOK(x)' /\ TimerOK(x)'
  <2>1. /\ pc'[x] = pc[x] /\ status'[x] = status[x] /\ out'[x] = out[x] /\ timer'[x] = timer[x]
        /\ inc'[x] = inc[x]
    BY <1>1, <1>7, <1>8, <1>10, <1>13, <1>19 DEF Shape
  <2>2. PosOK(x) /\ ReadOK(x) /\ WriteOK(x) /\ FlightOK(x) /\ ReplyOK(x) /\ TimerOK(x)
    BY DEF IInv
  <2> QED
    BY <2>1, <2>2, SideFrame
<1> QED
  BY <1>12, <1>14, <1>15, <1>16, <1>17, <1>18, <1>19 DEF IInv

\* A retransmission sends the flight again from its start and changes nothing
\* else but the timer.
LEMMA RetransmitKeeps ==
  ASSUME IInv, NEW e \in End, NEW mtu \in Int, dtls1_retransmit_outgoing_messages(e, mtu),
         UNCHANGED <<resume, pc, status, inc>>, timer' \in [End -> Timers], TimerOK(e)',
         \A x \in End : x # e => timer'[x] = timer[x]
  PROVE  IInv'
<1> USE HandshakeAssumption
<1>1. /\ Shape /\ PosOK(e) /\ ReadOK(e) /\ WriteOK(e) /\ FlightOK(e) /\ ReplyOK(e)
  BY DEF IInv
<1>2. PICK o : o = [out[e] EXCEPT !.written = 0, !.offset = 0]
  OBVIOUS
<1>3. /\ o \in Outs /\ o.msgs = out[e].msgs /\ o.written = 0
      /\ o.w_epoch = out[e].w_epoch /\ o.write_seq = out[e].write_seq
      /\ o.has_reply = out[e].has_reply /\ o.complete = out[e].complete
  <2>1. out[e] \in Outs
    BY <1>1 DEF Shape
  <2>2. o \in Outs
    <3>1. PICK z : z = 0
      OBVIOUS
    <3>2. z \in Int /\ o = [out[e] EXCEPT !.written = z, !.offset = z]
      BY <1>2, <3>1
    <3> QED
      BY <2>1, <3>2 DEF Outs
  <2>3. /\ o.msgs = out[e].msgs /\ o.written = 0
        /\ o.w_epoch = out[e].w_epoch /\ o.write_seq = out[e].write_seq
    BY <1>2, <2>1 DEF Outs
  <2>4. o.has_reply = out[e].has_reply /\ o.complete = out[e].complete
    BY <1>2, <2>1, Zenon DEF Outs
  <2> QED
    BY <2>2, <2>3, <2>4
<1>4. PICK stop \in Stops :
        /\ CanStop(o, stop, mtu)
        /\ Block(stop # PastEnd(o))
        /\ out' = [out EXCEPT ![e] = SentUpTo(o, stop)]
        /\ net' = [net EXCEPT ![Peer(e)] = @ \cup Sent(o, stop, mtu)]
  BY <1>2 DEF dtls1_retransmit_outgoing_messages
<1>5. blocked' \in 0..MaxBlock
  BY <1>1, <1>4 DEF Block, Shape
<1>6. pc' \in [End -> Int] /\ pc'[e] >= pc[e] /\ \A x \in End : x # e => pc'[x] = pc[x]
  BY <1>1 DEF Shape
<1>7. /\ out' \in [End -> Outs] /\ net' \in [End -> SUBSET Records]
      /\ out'[e].msgs = out[e].msgs /\ out'[e].written \in 0..Len(out[e].msgs)
      /\ out'[e].w_epoch = o.w_epoch /\ out'[e].write_seq = o.write_seq
      /\ out'[e].complete = o.complete /\ out'[e].has_reply = o.has_reply
      /\ \A x \in End : SlotsOK(x)' /\ CausalOK(x)' /\ NetOK(x)'
  <2>1. o.written \in 0..Len(o.msgs)
    <3>1. o.msgs \in Seq(Msgs)
      BY <1>3 DEF Outs
    <3>2. Len(o.msgs) \in Nat
      BY <3>1, LenProperties
    <3> QED
      BY <1>3, <3>2
  <2> QED
    BY <1>3, <1>4, <1>6, <2>1, SendKeeps
<1>8. Shape'
  BY <1>1, <1>5, <1>7 DEF Shape
<1>9. PosOK(e)' /\ ReadOK(e)' /\ WriteOK(e)'
  BY <1>1, <1>3, <1>7 DEF PosOK, ReadOK, WriteOK
<1>10. FlightOK(e)'
  BY <1>1, <1>6, <1>7, FlightStays DEF Shape
<1>11. ReplyOK(e)'
  BY <1>1, <1>3, <1>7 DEF ReplyOK
<1>12. ASSUME NEW x \in End, x # e
       PROVE  PosOK(x)' /\ ReadOK(x)' /\ WriteOK(x)' /\ FlightOK(x)' /\ ReplyOK(x)' /\ TimerOK(x)'
  <2>1. out'[x] = out[x] /\ timer'[x] = timer[x]
    BY <1>1, <1>4, <1>12 DEF Shape
  <2>2. PosOK(x) /\ ReadOK(x) /\ WriteOK(x) /\ FlightOK(x) /\ ReplyOK(x) /\ TimerOK(x)
    BY DEF IInv
  <2> QED
    BY <2>1, <2>2, SideFrame
<1> QED
  BY <1>7, <1>8, <1>9, <1>10, <1>11, <1>12 DEF IInv

\* A timer that counts one timeout more.
LEMMA CountKeeps ==
  ASSUME Shape, NEW e \in End, TimerOK(e), status[e] \in {"run", "done"},
         NEW t, NEW m \in Mtus(e, timer[e].num + 1), timer' = [timer EXCEPT ![e] = t],
         t \in Timers, t.num = timer[e].num + 1, t.mtu = m
  PROVE  /\ timer' \in [End -> Timers] /\ timer'[e].num \in 1..(MaxTimeouts + 1)
         /\ timer'[e].num = timer[e].num + 1
         /\ timer'[e].mtu \in {Mtu, FallbackMtu} /\ m \in Int
         /\ \A x \in End : x # e => timer'[x] = timer[x]
<1> USE HandshakeAssumption
<1>1. m \in {Mtu, FallbackMtu}
  BY DEF Mtus, TimerOK
<1>2. timer'[e] = t
  BY DEF Shape
<1> QED
  BY <1>1, <1>2 DEF Shape, TimerOK

\* Giving up after DTLS1_MAX_TIMEOUTS.
LEMMA GiveUpKeeps ==
  ASSUME IInv, NEW e \in End, UNCHANGED <<resume, pc, inc, out, blocked, net>>,
         status[e] \in {"run", "done"}, status' = [status EXCEPT ![e] = "timeout"],
         timer' \in [End -> Timers], timer'[e].num \in 1..(MaxTimeouts + 1),
         timer'[e].mtu \in {Mtu, FallbackMtu},
         \A x \in End : x # e => timer'[x] = timer[x]
  PROVE  IInv'
<1> USE HandshakeAssumption
<1>1. /\ Shape /\ PosOK(e) /\ ReadOK(e) /\ WriteOK(e) /\ FlightOK(e) /\ ReplyOK(e)
  BY DEF IInv
<1>2. status' \in [End -> {"run", "done", "timeout", "fatal"}] /\ status'[e] = "timeout"
  BY <1>1 DEF Shape
<1>3. Shape'
  BY <1>1, <1>2 DEF Shape
<1>4. PosOK(e)' /\ ReadOK(e)' /\ WriteOK(e)'
  BY <1>1, <1>2 DEF PosOK, ReadOK, WriteOK
<1>5. FlightOK(e)'
  BY <1>1, <1>2, FlightStays DEF Shape
<1>6. ReplyOK(e)' /\ TimerOK(e)'
  BY <1>1, <1>2 DEF ReplyOK, TimerOK
<1>7. ASSUME NEW x \in End, x # e
      PROVE  PosOK(x)' /\ ReadOK(x)' /\ WriteOK(x)' /\ FlightOK(x)' /\ ReplyOK(x)' /\ TimerOK(x)'
  <2>1. status'[x] = status[x] /\ timer'[x] = timer[x]
    BY <1>1, <1>7 DEF Shape
  <2>2. PosOK(x) /\ ReadOK(x) /\ WriteOK(x) /\ FlightOK(x) /\ ReplyOK(x) /\ TimerOK(x)
    BY DEF IInv
  <2> QED
    BY <2>1, <2>2, SideFrame
<1>8. ASSUME NEW x \in End
      PROVE  SlotsOK(x)' /\ CausalOK(x)' /\ NetOK(x)'
  <2>1. pc'[Peer(x)] \in Int /\ pc'[Peer(x)] >= pc[Peer(x)]
    BY <1>1, PeerIs DEF Shape
  <2>2. SlotsOK(x) /\ CausalOK(x) /\ NetOK(x)
    BY DEF IInv
  <2> QED
    BY <1>1, <2>1, <2>2, InFrame, NetFrame
<1> QED
  BY <1>3, <1>4, <1>5, <1>6, <1>7, <1>8 DEF IInv

\* The timer expires.
LEMMA TimeoutKeeps ==
  ASSUME IInv, NEW e \in End, DTLSv1_handle_timeout(e)
  PROVE  IInv'
<1> USE HandshakeAssumption
<1>1. Shape /\ TimerOK(e)
  BY DEF IInv
<1>2. PICK num : num = timer[e].num + 1
  OBVIOUS
<1>3. PICK mtu \in Mtus(e, num) :
       /\ timer' = [timer EXCEPT ![e] = [on |-> TRUE, num |-> num, mtu |-> mtu]]
       /\ \/ /\ num > MaxTimeouts
             /\ status' = [status EXCEPT ![e] = "timeout"]
             /\ UNCHANGED <<out, net, blocked>>
          \/ /\ num <= MaxTimeouts
             /\ dtls1_retransmit_outgoing_messages(e, mtu)
             /\ UNCHANGED status
  BY <1>2 DEF DTLSv1_handle_timeout
<1>4. status[e] \in {"run", "done"} /\ UNCHANGED <<resume, pc, inc>>
  BY DEF DTLSv1_handle_timeout
<1>5. PICK t : t = [on |-> TRUE, num |-> num, mtu |-> mtu]
  OBVIOUS
<1>6. t \in [on : {TRUE}, num : {num}, mtu : {mtu}]
  BY <1>5
<1>7. mtu \in Int /\ num \in Int
  BY <1>1, <1>2, <1>3 DEF Mtus, TimerOK
<1>8. t \in Timers /\ t.num = num /\ t.mtu = mtu
  <2>1. t.on \in BOOLEAN
    BY <1>6, Zenon
  <2> QED
    BY <1>6, <1>7, <2>1 DEF Timers
<1>9. timer' = [timer EXCEPT ![e] = t]
  BY <1>3, <1>5
<1>10. /\ timer' \in [End -> Timers] /\ timer'[e].num \in 1..(MaxTimeouts + 1)
       /\ timer'[e].num = num
       /\ timer'[e].mtu \in {Mtu, FallbackMtu} /\ mtu \in Int
       /\ \A x \in End : x # e => timer'[x] = timer[x]
  <2>1. mtu \in Mtus(e, timer[e].num + 1) /\ t.num = timer[e].num + 1 /\ t.mtu = mtu
    BY <1>2, <1>3, <1>8
  <2>2. t \in Timers /\ status[e] \in {"run", "done"}
    BY <1>4, <1>8
  <2>3. /\ timer' \in [End -> Timers] /\ timer'[e].num \in 1..(MaxTimeouts + 1)
        /\ timer'[e].num = timer[e].num + 1
        /\ timer'[e].mtu \in {Mtu, FallbackMtu} /\ mtu \in Int
        /\ \A x \in End : x # e => timer'[x] = timer[x]
    BY <1>1, <1>9, <2>1, <2>2, CountKeeps
  <2> QED
    BY <1>2, <2>3
<1>11. CASE num > MaxTimeouts
  <2>1. status' = [status EXCEPT ![e] = "timeout"] /\ UNCHANGED <<out, net, blocked>>
    BY <1>3, <1>7, <1>11
  <2> QED
    BY <1>4, <1>10, <2>1, GiveUpKeeps
<1>12. CASE num <= MaxTimeouts
  <2>1. dtls1_retransmit_outgoing_messages(e, mtu) /\ UNCHANGED status
    BY <1>3, <1>7, <1>12
  <2>2. TimerOK(e)'
    BY <1>10, <1>12 DEF TimerOK
  <2> QED
    BY <1>4, <1>10, <2>1, <2>2, RetransmitKeeps
<1> QED
  BY <1>7, <1>11, <1>12

-------------------------------------------------------------------------------
(* Receiving.                                                              *)

\* A record of the read epoch that reaches an end which is done repeats the
\* peer's Finished.
LEMMA DoneKeeps ==
  ASSUME IInv, NEW e \in End, NEW r \in net[e], status[e] = "done",
         r.epoch = inc[e].r_epoch, dtls1_open_app_data(e, r), UNCHANGED <<resume, pc>>
  PROVE  IInv'
<1> USE HandshakeAssumption
<1>1. Shape /\ TimerOK(e) /\ PosOK(e) /\ ReadOK(e) /\ NetOK(e)
  BY DEF IInv
<1>2. /\ inc[e].r_epoch = 1 /\ inc[e].read_seq = FinSeq(resume, Peer(e)) + 1
      /\ FinSeq(resume, Peer(e)) \in Int
  <2>1. pc[e] \in 1..EndAt(resume, e) /\ pc[e] = EndAt(resume, e) /\ resume \in BOOLEAN
    BY <1>1 DEF PosOK, Shape
  <2>2. ReadAt(resume, e, pc[e]) = FinSeq(resume, Peer(e)) + 1 /\ ReadEpoch(resume, e, pc[e]) = 1
    BY <2>1, ReadTable
  <2> QED
    BY <1>1, <2>2 DEF ReadOK, FinSeq
<1>3. RepeatedFinished(e, r)
  <2>1. Genuine(resume, Peer(e), r)
    BY <1>1 DEF NetOK, Owed
  <2> QED
    BY <1>2, <2>1 DEF Genuine, RepeatedFinished
<1>4. PICK num : num = timer[e].num + 1
  OBVIOUS
<1>5. timer[e] \in Timers /\ num \in Int
  BY <1>1, <1>4 DEF Shape, TimerOK
<1>6. CASE /\ num <= MaxTimeouts /\ Ignore
           /\ \E mtu \in Mtus(e, num) :
                /\ timer' = [timer EXCEPT ![e].num = num, ![e].mtu = mtu]
                /\ dtls1_retransmit_outgoing_messages(e, mtu)
  <2>1. PICK mtu \in Mtus(e, num) :
          /\ timer' = [timer EXCEPT ![e].num = num, ![e].mtu = mtu]
          /\ dtls1_retransmit_outgoing_messages(e, mtu)
    BY <1>6
  <2>2. PICK t : t = [timer[e] EXCEPT !.num = num, !.mtu = mtu]
    OBVIOUS
  <2>3. mtu \in Int
    BY <1>1, <2>1 DEF Mtus, TimerOK
  <2>4. t \in Timers /\ t.num = num /\ t.mtu = mtu
    BY <1>5, <2>2, <2>3 DEF Timers
  <2>5. timer' = [timer EXCEPT ![e] = t]
    BY <1>1, <2>1, <2>2 DEF Shape
  <2>6. /\ timer' \in [End -> Timers] /\ timer'[e].num = num
        /\ timer'[e].num \in 1..(MaxTimeouts + 1)
        /\ timer'[e].mtu \in {Mtu, FallbackMtu} /\ mtu \in Int
        /\ \A x \in End : x # e => timer'[x] = timer[x]
    <3>1. mtu \in Mtus(e, timer[e].num + 1) /\ t.num = timer[e].num + 1 /\ t.mtu = mtu
      BY <1>4, <2>1, <2>4
    <3>2. /\ timer' \in [End -> Timers] /\ timer'[e].num \in 1..(MaxTimeouts + 1)
          /\ timer'[e].num = timer[e].num + 1
          /\ timer'[e].mtu \in {Mtu, FallbackMtu} /\ mtu \in Int
          /\ \A x \in End : x # e => timer'[x] = timer[x]
      BY <1>1, <2>4, <2>5, <3>1, CountKeeps
    <3> QED
      BY <1>4, <3>2
  <2>7. TimerOK(e)'
    BY <1>6, <2>6 DEF TimerOK
  <2> QED
    BY <1>6, <2>1, <2>6, <2>7, RetransmitKeeps DEF Ignore
<1>7. CASE /\ num > MaxTimeouts
           /\ timer' = [timer EXCEPT ![e].num = num]
           /\ status' = [status EXCEPT ![e] = "timeout"]
           /\ UNCHANGED <<inc, out, blocked, net>>
  <2>1. PICK t : t = [timer[e] EXCEPT !.num = num]
    OBVIOUS
  <2>2. t \in Timers /\ t.num = num /\ t.mtu = timer[e].mtu
    BY <1>5, <2>1 DEF Timers
  <2>3. timer' = [timer EXCEPT ![e] = t]
    BY <1>1, <1>7, <2>1 DEF Shape
  <2>4. timer[e].mtu \in Mtus(e, num)
    BY DEF Mtus
  <2>5. /\ timer' \in [End -> Timers] /\ timer'[e].num \in 1..(MaxTimeouts + 1)
        /\ timer'[e].mtu \in {Mtu, FallbackMtu}
        /\ \A x \in End : x # e => timer'[x] = timer[x]
    BY <1>1, <1>4, <2>2, <2>3, <2>4, CountKeeps
  <2> QED
    BY <1>7, <2>5, GiveUpKeeps
<1>8. CASE Ignore /\ UNCHANGED <<out, timer, blocked, net>>
  BY <1>8 DEF IInv, Shape, PosOK, ReadOK, WriteOK, FlightOK, ReplyOK, TimerOK, SlotsOK, SlotOK,
              NetOK, CausalOK, Ignore
<1> QED
  BY <1>3, <1>4, <1>6, <1>7, <1>8 DEF dtls1_open_app_data

\* Two message numbers of a window share a slot only when they are equal.
LEMMA OneSlot ==
  ASSUME NEW a \in 0..3, NEW b \in 0..3, a - b < Flight, b - a < Flight
  PROVE  /\ SlotOf(a) \in 0..(Flight - 1)
         /\ SlotOf(a) = SlotOf(b) => a = b
<1> USE HandshakeAssumption
<1>1. CASE Flight = 3
  BY <1>1 DEF SlotOf
<1>2. CASE Flight > 3
  <2>1. a % Flight = a /\ b % Flight = b
    BY <1>2
  <2> QED
    BY <1>2, <2>1 DEF SlotOf
<1> QED
  BY <1>1, <1>2

\* A step that only changes what e has stored.
LEMMA InKeeps ==
  ASSUME IInv, NEW e \in End, UNCHANGED <<resume, pc, status, out, timer, blocked, net>>,
         NEW n \in Ins, inc' = [inc EXCEPT ![e] = n], n.read_seq = inc[e].read_seq,
         n.r_epoch = inc[e].r_epoch, \A i \in 0..(Flight - 1) : SlotOK(e, n.slot[i], i)
  PROVE  IInv'
<1>1. Shape
  BY DEF IInv
<1>2. inc' \in [End -> Ins] /\ inc'[e] = n /\ \A x \in End : x # e => inc'[x] = inc[x]
  BY <1>1 DEF Shape
<1>3. Shape'
  BY <1>1, <1>2 DEF Shape
<1>4. PosOK(e)' /\ ReadOK(e)' /\ WriteOK(e)' /\ FlightOK(e)' /\ ReplyOK(e)' /\ TimerOK(e)'
  BY <1>2 DEF IInv, PosOK, ReadOK, WriteOK, FlightOK, ReplyOK, TimerOK
<1>5. CausalOK(e)' /\ NetOK(e)'
  BY <1>2 DEF IInv, CausalOK, NetOK
<1>6. SlotsOK(e)'
  <2>1. ASSUME NEW i \in 0..(Flight - 1)
        PROVE  SlotOK(e, inc[e].slot[i], i)'
    <3>1. SlotOK(e, n.slot[i], i)
      OBVIOUS
    <3> QED
      BY <1>2, <3>1 DEF SlotOK
  <2> QED
    BY <2>1 DEF SlotsOK
<1>7. ASSUME NEW x \in End, x # e
      PROVE  /\ PosOK(x)' /\ ReadOK(x)' /\ WriteOK(x)' /\ FlightOK(x)' /\ ReplyOK(x)' /\ TimerOK(x)'
             /\ SlotsOK(x)' /\ CausalOK(x)' /\ NetOK(x)'
  <2>1. inc'[x] = inc[x]
    BY <1>2, <1>7
  <2>2. /\ PosOK(x) /\ ReadOK(x) /\ WriteOK(x) /\ FlightOK(x) /\ ReplyOK(x) /\ TimerOK(x)
        /\ SlotsOK(x) /\ CausalOK(x) /\ NetOK(x)
    BY DEF IInv
  <2>3. pc'[Peer(x)] \in Int /\ pc'[Peer(x)] >= pc[Peer(x)]
    BY <1>1, PeerIs DEF Shape
  <2>4. PosOK(x)' /\ ReadOK(x)' /\ WriteOK(x)' /\ FlightOK(x)' /\ ReplyOK(x)' /\ TimerOK(x)'
    BY <2>1, <2>2, SideFrame
  <2> QED
    BY <1>1, <2>1, <2>2, <2>3, <2>4, InFrame, NetFrame
<1> QED
  BY <1>3, <1>4, <1>5, <1>6, <1>7 DEF IInv

\* The records that a reading end does not drop, and what they find in their
\* slot: the fatal paths of dtls1_open_handshake are not for them.
LEMMA RecordFits ==
  ASSUME IInv, NEW e \in End, NEW r \in net[e], Reading(e), r.epoch = inc[e].r_epoch
  PROVE  /\ r.ccs => inc[e].r_epoch = 0
         /\ ~r.ccs => /\ inc[e].r_epoch = 1 => r.seq = inc[e].read_seq
                      /\ r.seq \in 0..FinSeq(resume, Peer(e))
                      /\ r.len = LenOf(resume, Peer(e), r.seq)
                      /\ inc[e].r_epoch = 0 => r.seq < FinSeq(resume, Peer(e))
                      /\ inc[e].r_epoch = 1 => r.seq = FinSeq(resume, Peer(e))
                      /\ r.seq = FinSeq(resume, Peer(e)) =>
                           pc[Peer(e)] >= FinAt(resume, Peer(e))
         /\ inc[e].read_seq \in 0..FinSeq(resume, Peer(e)) /\ inc[e].r_epoch \in 0..1
         /\ FinSeq(resume, Peer(e)) \in 1..3
         /\ status[e] = "run"
<1>1. Shape /\ PosOK(e) /\ ReadOK(e) /\ NetOK(e)
  BY DEF IInv
<1>2. status[e] = "run" /\ Does(resume, e, pc[e]) \in {"recv", "read_ccs"}
  BY <1>1, AtIs DEF Reading
<1>3. /\ ReadAt(resume, e, pc[e]) \in 0..(FinSeq(resume, Peer(e)) + 1)
      /\ Does(resume, e, pc[e]) = "recv" => ReadAt(resume, e, pc[e]) <= FinSeq(resume, Peer(e))
      /\ Does(resume, e, pc[e]) = "recv" /\ ReadEpoch(resume, e, pc[e]) = 1 =>
           ReadAt(resume, e, pc[e]) = FinSeq(resume, Peer(e))
      /\ Does(resume, e, pc[e]) = "read_ccs" =>
           ReadAt(resume, e, pc[e]) = FinSeq(resume, Peer(e)) /\ ReadEpoch(resume, e, pc[e]) = 0
  BY <1>1, ReadTable DEF Shape, PosOK
<1>4. FinSeq(resume, Peer(e)) \in 1..3 /\ ReadEpoch(resume, e, pc[e]) \in 0..1
  BY DEF FinSeq, ReadEpoch
<1>5. Genuine(resume, Peer(e), r) /\ (r.fin => pc[Peer(e)] >= FinAt(resume, Peer(e)))
  BY <1>1 DEF NetOK, Owed
<1>6. inc[e].read_seq = ReadAt(resume, e, pc[e]) /\ inc[e].r_epoch = ReadEpoch(resume, e, pc[e])
  BY <1>1 DEF ReadOK
<1>7. inc[e].read_seq \in 0..FinSeq(resume, Peer(e)) /\ inc[e].r_epoch \in 0..1
  BY <1>2, <1>3, <1>4, <1>6
<1>8. inc[e].r_epoch = 1 => inc[e].read_seq = FinSeq(resume, Peer(e))
  BY <1>2, <1>3, <1>4, <1>6
<1> QED
  BY <1>2, <1>4, <1>5, <1>7, <1>8 DEF Genuine

\* What a slot becomes when a fragment is marked in it.
LEMMA MarkIs ==
  ASSUME NEW f \in Slots, NEW r \in Records
  PROVE  /\ Mark(f, r) \in Slots
         /\ f = None => Mark(f, r).seq = r.seq /\ Mark(f, r).len = r.len
         /\ f # None => Mark(f, r).seq = f.seq /\ Mark(f, r).len = f.len
<1>1. PICK B : B = r.off..(r.off + r.n - 1)
  OBVIOUS
<1>2. B \subseteq Int /\ r.seq \in Int /\ r.len \in Int
  BY <1>1 DEF Records
<1>3. CASE f = None
  BY <1>1, <1>2, <1>3 DEF Mark, Slots
<1>4. CASE f # None
  BY <1>1, <1>2, <1>4 DEF Mark, Slots
<1> QED
  BY <1>3, <1>4

\* A record that an end reads during the handshake.
LEMMA OpenKeeps ==
  ASSUME IInv, NEW e \in End, NEW r \in net[e], Reading(e), r.epoch = inc[e].r_epoch,
         dtls1_open_handshake(e, r), UNCHANGED <<resume, pc, out, timer, blocked, net>>
  PROVE  IInv'
<1> USE HandshakeAssumption
<1>1. Shape /\ SlotsOK(e)
  BY DEF IInv
<1>2. PICK fs, rs : fs = FinSeq(resume, Peer(e)) /\ rs = inc[e].read_seq
  OBVIOUS
<1>3. /\ r.ccs => inc[e].r_epoch = 0
      /\ ~r.ccs => /\ inc[e].r_epoch = 1 => r.seq = rs
                   /\ r.seq \in 0..fs /\ r.len = LenOf(resume, Peer(e), r.seq)
                   /\ inc[e].r_epoch = 0 => r.seq < fs
                   /\ inc[e].r_epoch = 1 => r.seq = fs
                   /\ r.seq = fs => pc[Peer(e)] >= FinAt(resume, Peer(e))
      /\ rs \in 0..fs /\ inc[e].r_epoch \in 0..1 /\ fs \in 1..3
  BY <1>2, RecordFits
<1>4. inc[e] \in Ins /\ r \in Records
  BY <1>1 DEF Shape
<1>5. CASE Ignore
  BY <1>5 DEF IInv, Shape, PosOK, ReadOK, WriteOK, FlightOK, ReplyOK, TimerOK, SlotsOK, SlotOK,
              NetOK, CausalOK, Ignore
<1>6. CASE FlagCcs(e)
  <2>1. PICK n : n = [inc[e] EXCEPT !.ccs = TRUE]
    OBVIOUS
  <2>2. n \in Ins /\ n.read_seq = inc[e].read_seq /\ n.r_epoch = inc[e].r_epoch
        /\ n.slot = inc[e].slot
    BY <1>4, <2>1 DEF Ins
  <2>3. inc' = [inc EXCEPT ![e] = n] /\ status' = status
    BY <1>1, <1>6, <2>1 DEF FlagCcs, Shape
  <2>4. \A i \in 0..(Flight - 1) : SlotOK(e, n.slot[i], i)
    BY <1>1, <2>2 DEF SlotsOK
  <2> QED
    BY <2>2, <2>3, <2>4, InKeeps
<1> DEFINE k == SlotOf(r.seq)
           f == inc[e].slot[k]
<1>7. ASSUME ~r.ccs, ~(r.seq < rs \/ r.seq - rs >= Flight)
      PROVE  k \in 0..(Flight - 1) /\ f \in Slots /\ (f # None => f.seq = r.seq /\ f.len = r.len)
  <2>1. r.seq \in 0..3 /\ rs \in 0..3 /\ rs \in Int /\ r.seq \in Int
    BY <1>3, <1>7
  <2>2. k \in 0..(Flight - 1)
    BY <1>7, <2>1, OneSlot
  <2>3. f \in Slots
    BY <1>4, <2>2 DEF Ins
  <2>4. ASSUME f # None
        PROVE  f.seq = r.seq
    <3>1. SlotOK(e, f, k)
      BY <1>1, <2>2 DEF SlotsOK
    <3>2. f.seq \in rs..(rs + Flight - 1) /\ SlotOf(f.seq) = k /\ f.seq \in 0..fs
      BY <1>2, <2>4, <3>1 DEF SlotOK
    <3>3. f.seq \in 0..3 /\ f.seq - r.seq < Flight /\ r.seq - f.seq < Flight
      BY <1>3, <1>7, <2>1, <3>2
    <3> QED
      BY <2>1, <3>2, <3>3, OneSlot
  <2>5. ASSUME f # None
        PROVE  f.len = r.len
    <3>1. SlotOK(e, f, k)
      BY <1>1, <2>2 DEF SlotsOK
    <3>2. f.len = LenOf(resume, Peer(e), f.seq)
      BY <2>5, <3>1 DEF SlotOK
    <3> QED
      BY <1>3, <1>7, <2>4, <2>5, <3>2
  <2> QED
    BY <2>2, <2>3, <2>4, <2>5
<1>8. CASE ~r.ccs /\ ~(r.seq < rs \/ r.seq - rs >= Flight) /\ Store(e, r)
  <2>1. k \in 0..(Flight - 1) /\ f \in Slots /\ (f # None => f.seq = r.seq /\ f.len = r.len)
    BY <1>7, <1>8
  <2>2. PICK g : g = Mark(f, r)
    OBVIOUS
  <2>3. g \in Slots /\ g.seq = r.seq /\ g.len = r.len
    BY <1>4, <2>1, <2>2, MarkIs
  <2>4. PICK S : S = [inc[e].slot EXCEPT ![k] = g]
    OBVIOUS
  <2>5. S \in [0..(Flight - 1) -> Slots] /\ S[k] = g
        /\ \A i \in 0..(Flight - 1) : i # k => S[i] = inc[e].slot[i]
    BY <1>4, <2>1, <2>3, <2>4 DEF Ins
  <2>6. PICK n : n = [inc[e] EXCEPT !.slot = S]
    OBVIOUS
  <2>7. n \in Ins /\ n.read_seq = inc[e].read_seq /\ n.r_epoch = inc[e].r_epoch /\ n.slot = S
    BY <1>4, <2>5, <2>6 DEF Ins
  <2>8. inc' = [inc EXCEPT ![e] = n] /\ status' = status
    BY <1>1, <1>4, <1>8, <2>2, <2>4, <2>6 DEF Store, Shape, Ins
  <2>9. ASSUME NEW i \in 0..(Flight - 1)
        PROVE  SlotOK(e, S[i], i)
    <3>1. CASE i # k
      BY <1>1, <2>5, <3>1 DEF SlotsOK
    <3>2. CASE i = k
      <4>1. g.seq \in rs..(rs + Flight - 1)
        BY <1>3, <1>8, <2>3
      <4>2. SlotOf(g.seq) = k
        BY <2>3
      <4> HIDE DEF k, f
      <4>3. SlotOK(e, g, k)
        BY <1>2, <1>3, <1>8, <2>3, <4>1, <4>2 DEF SlotOK
      <4> QED
        BY <2>5, <3>2, <4>3
    <3> QED
      BY <3>1, <3>2
  <2> HIDE DEF k, f
  <2> QED
    BY <2>7, <2>8, <2>9, InKeeps
<1>9. \/ Ignore \/ FlagCcs(e)
      \/ ~r.ccs /\ ~(r.seq < rs \/ r.seq - rs >= Flight) /\ Store(e, r)
  BY <1>2, <1>3, <1>7 DEF dtls1_open_handshake
<1> QED
  BY <1>5, <1>6, <1>8, <1>9

\* Any record an end reads, those that the record layer drops included.
LEMMA ReceiveKeeps ==
  ASSUME IInv, NEW e \in End, NEW r \in net[e], Receive(e, r)
  PROVE  IInv'
<1>1. UNCHANGED <<resume, pc>>
  BY DEF Receive
<1>2. CASE /\ Reading(e) /\ r.epoch = inc[e].r_epoch
           /\ dtls1_open_handshake(e, r)
           /\ UNCHANGED <<out, timer, blocked, net>>
  BY <1>1, <1>2, OpenKeeps
<1>3. CASE status[e] = "done" /\ r.epoch = inc[e].r_epoch /\ dtls1_open_app_data(e, r)
  BY <1>1, <1>3, DoneKeeps
<1>4. CASE Ignore /\ UNCHANGED <<out, timer, blocked, net>>
  BY <1>1, <1>4 DEF IInv, Shape, PosOK, ReadOK, WriteOK, FlightOK, ReplyOK, TimerOK, SlotsOK,
                    SlotOK, NetOK, CausalOK, Ignore
<1> QED
  BY <1>2, <1>3, <1>4 DEF Receive

\* A step of e to the next position that sends nothing: the parts of the
\* invariant that follow from the tables and those of the peer.
LEMMA AdvanceKeeps ==
  ASSUME IInv, resume' = resume, NEW e \in End, status[e] = "run", pc[e] # EndAt(resume, e),
         Does(resume, e, pc[e]) \in {"recv", "read_ccs"}, Advance(e),
         UNCHANGED <<status, timer, blocked, net>>,
         NEW n \in Ins, inc' = [inc EXCEPT ![e] = n],
         n.read_seq = ReadAt(resume, e, pc[e] + 1), n.r_epoch = ReadEpoch(resume, e, pc[e] + 1),
         NEW o \in Outs, out' = [out EXCEPT ![e] = o], o.msgs = out[e].msgs,
         o.written = out[e].written, o.w_epoch = out[e].w_epoch, o.write_seq = out[e].write_seq,
         o.complete = out[e].complete,
         o.has_reply => out[e].has_reply \/ Does(resume, e, pc[e]) = "recv",
         SlotsOK(e)', CausalOK(e)'
  PROVE  IInv'
<1>p. PICK p : p = pc[e]
  OBVIOUS
<1>1. /\ Shape /\ PosOK(e) /\ ReadOK(e) /\ WriteOK(e) /\ FlightOK(e) /\ ReplyOK(e) /\ TimerOK(e)
  BY DEF IInv
<1>2. p \in 1..EndAt(resume, e) /\ p # EndAt(resume, e) /\ resume \in BOOLEAN /\ p \in Int
  BY <1>1, <1>p DEF PosOK, Shape
<1>3. TableStep(resume, e, p)
  BY <1>2, Tables
<1>4. pc' = [pc EXCEPT ![e] = @ + 1]
  BY DEF Advance
<1>5. /\ pc' \in [End -> Int] /\ pc'[e] = p + 1 /\ inc' \in [End -> Ins] /\ inc'[e] = n
      /\ out' \in [End -> Outs] /\ out'[e] = o
      /\ \A x \in End : x # e => pc'[x] = pc[x] /\ inc'[x] = inc[x] /\ out'[x] = out[x]
  BY <1>1, <1>2, <1>4, <1>p DEF Shape
<1>6. Shape'
  BY <1>1, <1>5 DEF Shape
<1>7. PosOK(e)' /\ TimerOK(e)'
  BY <1>1, <1>3, <1>5 DEF PosOK, TimerOK, TableStep
<1>8. ReadOK(e)'
  BY <1>5, <1>p DEF ReadOK
<1>9. WriteOK(e)'
  <2>1. /\ WriteAt(resume, e, p + 1) = WriteAt(resume, e, p)
        /\ WriteEpoch(resume, e, p + 1) = WriteEpoch(resume, e, p)
    BY <1>3, <1>p DEF TableStep, WriteAt, WriteEpoch
  <2> QED
    BY <1>1, <1>5, <1>p, <2>1 DEF WriteOK
<1>10. FlightOK(e)'
  <2>1. FlightAt(resume, e, p + 1) = FlightAt(resume, e, p) /\ p # FinAt(resume, e) - 1
    BY <1>3, <1>p DEF TableStep
  <2> QED
    BY <1>1, <1>2, <1>5, <1>p, <2>1, FlightStays
<1>11. ReplyOK(e)'
  <2>1. /\ IsOut(resume, e, p + 1) <=> IsOut(resume, e, p)
        /\ ~Flushes(resume, e, p)
    BY <1>3, <1>p DEF TableStep
  <2>2. out[e].complete <=> IsOut(resume, e, p)
    BY <1>1, <1>p, <2>1 DEF ReplyOK
  <2>3. ASSUME SendsLast(resume, e), p + 1 >= NoReplyFrom(resume, e)
        PROVE  ~o.has_reply
    <3>1. NoReplyFrom(resume, e) \in Int
      BY DEF NoReplyFrom
    <3>2. p # NoReplyFrom(resume, e) - 1
          /\ (Does(resume, e, p) = "recv" => p < NoReplyFrom(resume, e) - 1)
      BY <1>3, <1>p, <2>3 DEF TableStep
    <3>3. p >= NoReplyFrom(resume, e) /\ Does(resume, e, p) # "recv"
      BY <1>2, <2>3, <3>1, <3>2
    <3>4. ~out[e].has_reply
      BY <1>1, <1>p, <2>3, <3>3 DEF ReplyOK
    <3> QED
      BY <1>p, <3>3, <3>4
  <2> QED
    BY <1>5, <2>1, <2>2, <2>3 DEF ReplyOK
<1>12. NetOK(e)'
  <2>1. pc'[Peer(e)] \in Int /\ pc'[Peer(e)] >= pc[Peer(e)]
    BY <1>1, <1>5, PeerIs DEF Shape
  <2> QED
    BY <1>1, <2>1, NetFrame DEF IInv
<1>13. ASSUME NEW x \in End, x # e
       PROVE  /\ PosOK(x)' /\ ReadOK(x)' /\ WriteOK(x)' /\ FlightOK(x)' /\ ReplyOK(x)' /\ TimerOK(x)'
              /\ SlotsOK(x)' /\ CausalOK(x)' /\ NetOK(x)'
  <2>1. pc'[x] = pc[x] /\ out'[x] = out[x] /\ inc'[x] = inc[x]
    BY <1>5, <1>13
  <2>2. /\ PosOK(x) /\ ReadOK(x) /\ WriteOK(x) /\ FlightOK(x) /\ ReplyOK(x) /\ TimerOK(x)
        /\ SlotsOK(x) /\ CausalOK(x) /\ NetOK(x)
    BY DEF IInv
  <2>3. PosOK(x)' /\ ReadOK(x)' /\ WriteOK(x)' /\ FlightOK(x)' /\ ReplyOK(x)' /\ TimerOK(x)'
    BY <2>1, <2>2, SideFrame
  <2>4. Peer(x) = e
    BY <1>13, PeerIs
  <2>5. pc'[Peer(x)] \in Int /\ pc'[Peer(x)] >= pc[Peer(x)]
    BY <1>2, <1>5, <1>p, <2>4
  <2> QED
    BY <1>1, <2>1, <2>2, <2>3, <2>5, InFrame, NetFrame
<1> QED
  BY <1>6, <1>7, <1>8, <1>9, <1>10, <1>11, <1>12, <1>13 DEF IInv

\* dtls1_next_message consumes the message of handshake_read_seq.
LEMMA NextMessageKeeps ==
  ASSUME IInv, resume' = resume, NEW e \in End, dtls1_next_message(e)
  PROVE  IInv'
<1> USE HandshakeAssumption
<1>1. Shape /\ PosOK(e) /\ ReadOK(e) /\ SlotsOK(e) /\ CausalOK(e)
  BY DEF IInv
<1>2. status[e] = "run" /\ Does(resume, e, pc[e]) = "recv"
  BY <1>1, AtIs DEF dtls1_next_message
<1>3. PICK p, rs, fs : p = pc[e] /\ rs = inc[e].read_seq /\ fs = FinSeq(resume, Peer(e))
  OBVIOUS
<1>4. p \in 1..EndAt(resume, e) /\ resume \in BOOLEAN /\ p # EndAt(resume, e) /\ p \in Int
  <2>1. Does(resume, e, EndAt(resume, e)) # "recv" /\ EndAt(resume, e) \in Int
    BY <1>1 DEF Does, Adds, EndAt, FinAt, Flushes, CcsAt, End, Shape
  <2> QED
    BY <1>1, <1>2, <1>3, <2>1 DEF PosOK, Shape
<1>5. TableStep(resume, e, p)
  BY <1>4, Tables
<1>6. rs \in 0..fs /\ fs \in 1..3 /\ rs \in 0..3 /\ rs \in Int /\ rs = ReadAt(resume, e, p)
  <2>1. ReadAt(resume, e, p) \in 0..(fs + 1) /\ ReadAt(resume, e, p) <= fs
    BY <1>2, <1>3, <1>4, ReadTable
  <2>2. fs \in 1..3
    BY <1>3 DEF FinSeq
  <2> QED
    BY <1>1, <1>3, <2>1, <2>2 DEF ReadOK
<1>7. PICK k : k = SlotOf(rs)
  OBVIOUS
<1>8. k \in 0..(Flight - 1)
  BY <1>6, <1>7, OneSlot
<1>9. PICK S : S = [inc[e].slot EXCEPT ![k] = None]
  OBVIOUS
<1>10. PICK n : n = [inc[e] EXCEPT !.slot = S, !.read_seq = rs + 1]
  OBVIOUS
<1>11. inc[e] \in Ins /\ inc[e].slot \in [0..(Flight - 1) -> Slots]
  BY <1>1 DEF Shape, Ins
<1>12. S \in [0..(Flight - 1) -> Slots] /\ S[k] = None
       /\ \A i \in 0..(Flight - 1) : i # k => S[i] = inc[e].slot[i]
  <2>1. None \in Slots
    BY DEF None, Slots
  <2> QED
    BY <1>8, <1>9, <1>11, <2>1
<1>13. n \in Ins /\ n.read_seq = rs + 1 /\ n.r_epoch = inc[e].r_epoch /\ n.slot = S
  <2>1. PICK q : q = rs + 1
    OBVIOUS
  <2>2. q \in Int /\ n = [inc[e] EXCEPT !.slot = S, !.read_seq = q]
    BY <1>6, <1>10, <2>1
  <2>3. n \in Ins /\ n.read_seq = q /\ n.r_epoch = inc[e].r_epoch /\ n.slot = S
    BY <1>11, <1>12, <2>2 DEF Ins
  <2> QED
    BY <2>1, <2>3
<1>14. inc' = [inc EXCEPT ![e] = n]
  BY <1>1, <1>3, <1>7, <1>9, <1>10, <1>11 DEF dtls1_next_message, Shape, Ins
<1>15. PICK o : o = [out[e] EXCEPT !.has_reply = @ \/ out[e].complete]
  OBVIOUS
<1>16. out[e] \in Outs
  BY <1>1 DEF Shape
<1>17. /\ o \in Outs /\ o.msgs = out[e].msgs /\ o.written = out[e].written
       /\ o.w_epoch = out[e].w_epoch /\ o.write_seq = out[e].write_seq
       /\ o.complete = out[e].complete
  BY <1>15, <1>16 DEF Outs
<1>18. out' = [out EXCEPT ![e] = o]
  BY <1>15 DEF dtls1_next_message
<1>19. pc'[Peer(e)] = pc[Peer(e)] /\ inc'[e] = n
  <2>1. pc' = [pc EXCEPT ![e] = @ + 1] /\ Peer(e) # e
    BY PeerIs DEF dtls1_next_message, Advance
  <2> QED
    BY <1>1, <1>14, <2>1, PeerIs DEF Shape
<1>20. n.read_seq = ReadAt(resume, e, p + 1) /\ n.r_epoch = ReadEpoch(resume, e, p + 1)
  <2>1. ReadEpoch(resume, e, p) \in Int /\ inc[e].r_epoch = ReadEpoch(resume, e, p)
    BY <1>1, <1>3 DEF ReadEpoch, ReadOK
  <2> QED
    BY <1>2, <1>3, <1>5, <1>6, <1>13, <2>1 DEF TableStep
<1>21. PICK f : f = inc[e].slot[k]
  OBVIOUS
<1>22. f # None /\ SlotOK(e, f, k)
  BY <1>1, <1>3, <1>7, <1>8, <1>21 DEF dtls1_next_message, CurrentComplete, Complete, SlotsOK
<1>23. f.seq = rs
  <2>1. f.seq \in rs..(rs + Flight - 1) /\ SlotOf(f.seq) = k /\ f.seq \in 0..fs
    BY <1>3, <1>22 DEF SlotOK
  <2> QED
    BY <1>6, <1>7, <2>1, OneSlot
<1>24. CausalOK(e)'
  <2>1. rs = fs => pc[Peer(e)] >= FinAt(resume, Peer(e))
    BY <1>3, <1>22, <1>23 DEF SlotOK
  <2>2. rs + 1 > fs => rs = fs
    BY <1>6
  <2> QED
    BY <1>3, <1>13, <1>19, <2>1, <2>2 DEF CausalOK
<1>25. SlotsOK(e)'
  <2>1. ASSUME NEW i \in 0..(Flight - 1), S[i] # None
        PROVE  /\ SlotOK(e, S[i], i) /\ S[i].seq \in (rs + 1)..(rs + 1 + Flight - 1)
    <3>1. PICK g : g = S[i]
      OBVIOUS
    <3>2. i # k /\ g = inc[e].slot[i] /\ g # None
      BY <1>12, <2>1, <3>1
    <3>3. SlotOK(e, g, i)
      BY <1>1, <3>2 DEF SlotsOK
    <3>4. g.seq \in rs..(rs + Flight - 1) /\ SlotOf(g.seq) = i
      BY <1>3, <3>2, <3>3 DEF SlotOK
    <3>5. g.seq # rs
      BY <1>7, <3>2, <3>4
    <3> QED
      BY <1>6, <3>1, <3>3, <3>4, <3>5
  <2>2. ASSUME NEW i \in 0..(Flight - 1)
        PROVE  SlotOK(e, inc[e].slot[i], i)'
    <3>1. CASE S[i] = None
      BY <1>13, <1>19, <3>1 DEF SlotOK
    <3>2. CASE S[i] # None
      BY <1>13, <1>19, <2>1, <3>2 DEF SlotOK
    <3> QED
      BY <3>1, <3>2
  <2> QED
    BY <2>2 DEF SlotsOK
<1> QED
  <2>1. Advance(e) /\ UNCHANGED <<status, timer, blocked, net>>
    BY DEF dtls1_next_message
  <2> QED
    BY <1>2, <1>3, <1>4, <1>13, <1>14, <1>17, <1>18, <1>20, <1>24, <1>25, <2>1, AdvanceKeeps

\* dtls1_set_read_state leaves no message behind in the old epoch.
LEMMA SetReadStateKeeps ==
  ASSUME IInv, resume' = resume, NEW e \in End, SetReadState(e)
  PROVE  IInv'
<1> USE HandshakeAssumption
<1>1. Shape /\ PosOK(e) /\ ReadOK(e) /\ SlotsOK(e) /\ CausalOK(e)
  BY DEF IInv
<1>2. status[e] = "run" /\ Does(resume, e, pc[e]) = "read_ccs"
  BY <1>1, AtIs DEF SetReadState
<1>3. PICK p : p = pc[e]
  OBVIOUS
<1>4. p \in 1..EndAt(resume, e) /\ resume \in BOOLEAN /\ p # EndAt(resume, e) /\ p \in Int
  <2>1. Does(resume, e, EndAt(resume, e)) # "read_ccs" /\ EndAt(resume, e) \in Int
    BY <1>1 DEF Does, Adds, EndAt, FinAt, Flushes, CcsAt, End, Shape
  <2> QED
    BY <1>1, <1>2, <1>3, <2>1 DEF PosOK, Shape
<1>5. TableStep(resume, e, p)
  BY <1>4, Tables
<1>6. inc[e].read_seq = FinSeq(resume, Peer(e)) /\ inc[e].r_epoch = 0
  <2>1. ReadAt(resume, e, p) = FinSeq(resume, Peer(e)) /\ ReadEpoch(resume, e, p) = 0
    BY <1>2, <1>3, <1>4, ReadTable
  <2> QED
    BY <1>1, <1>3, <2>1 DEF ReadOK
<1>7. ASSUME NEW i \in 0..(Flight - 1)
      PROVE  inc[e].slot[i] = None
  <2>1. PICK f : f = inc[e].slot[i]
    OBVIOUS
  <2>2. SlotOK(e, f, i)
    BY <1>1, <2>1 DEF SlotsOK
  <2>3. FinSeq(resume, Peer(e)) \in Int
    BY DEF FinSeq
  <2>4. f = None
    BY <1>6, <2>2, <2>3 DEF SlotOK
  <2> QED
    BY <2>1, <2>4
<1>8. /\ inc' = [inc EXCEPT ![e].ccs = FALSE, ![e].r_epoch = @ + 1]
      /\ Advance(e) /\ UNCHANGED <<status, out, timer, blocked, net>>
  BY <1>7 DEF SetReadState
<1>9. PICK n : n = [inc[e] EXCEPT !.ccs = FALSE, !.r_epoch = @ + 1]
  OBVIOUS
<1>10. inc[e] \in Ins
  BY <1>1 DEF Shape
<1>11. n \in Ins /\ n.read_seq = inc[e].read_seq /\ n.r_epoch = 1 /\ n.slot = inc[e].slot
  <2>1. PICK b, q : b = FALSE /\ q = inc[e].r_epoch + 1
    OBVIOUS
  <2>2. b \in BOOLEAN
    BY <2>1, Zenon
  <2>3. q \in Int /\ q = 1
    BY <1>6, <2>1
  <2>4. n = [inc[e] EXCEPT !.ccs = b, !.r_epoch = q]
    BY <1>9, <2>1
  <2>5. n \in Ins
    BY <1>10, <2>2, <2>3, <2>4 DEF Ins
  <2>6. n.read_seq = inc[e].read_seq /\ n.r_epoch = q /\ n.slot = inc[e].slot
    BY <1>10, <2>4 DEF Ins
  <2> QED
    BY <2>3, <2>5, <2>6
<1>12. inc' = [inc EXCEPT ![e] = n]
  BY <1>1, <1>8, <1>9 DEF Shape
<1>13. pc'[Peer(e)] = pc[Peer(e)] /\ inc'[e] = n
  <2>1. pc' = [pc EXCEPT ![e] = @ + 1] /\ Peer(e) # e
    BY <1>8, PeerIs DEF Advance
  <2> QED
    BY <1>1, <1>12, <2>1, PeerIs DEF Shape
<1>14. n.read_seq = ReadAt(resume, e, p + 1) /\ n.r_epoch = ReadEpoch(resume, e, p + 1)
  <2>1. ReadAt(resume, e, p) \in Int /\ inc[e].read_seq = ReadAt(resume, e, p)
        /\ ReadEpoch(resume, e, p) = 0
    BY <1>1, <1>3, <1>6 DEF ReadAt, ReadOK
  <2> QED
    BY <1>2, <1>3, <1>5, <1>11, <2>1 DEF TableStep
<1>15. CausalOK(e)'
  BY <1>1, <1>11, <1>13 DEF CausalOK
<1>16. SlotsOK(e)'
  BY <1>7, <1>11, <1>13 DEF SlotsOK, SlotOK
<1>17. PICK o : o = out[e]
  OBVIOUS
<1>18. o \in Outs /\ out' = [out EXCEPT ![e] = o]
  BY <1>1, <1>8, <1>17 DEF Shape
<1> QED
  BY <1>2, <1>3, <1>4, <1>8, <1>11, <1>12, <1>14, <1>15, <1>16, <1>17, <1>18, AdvanceKeeps

\* The handshake of e is complete; its flight stays if nothing has answered it.
LEMMA CompleteKeeps ==
  ASSUME IInv, resume' = resume, NEW e \in End, dtls1_on_handshake_complete(e)
  PROVE  IInv'
<1> USE HandshakeAssumption
<1>1. /\ Shape /\ PosOK(e) /\ ReadOK(e) /\ WriteOK(e) /\ FlightOK(e) /\ ReplyOK(e) /\ TimerOK(e)
  BY DEF IInv
<1>2. status[e] = "run" /\ Does(resume, e, pc[e]) = "finish"
  BY <1>1, AtIs DEF dtls1_on_handshake_complete
<1>3. pc[e] = EndAt(resume, e)
  BY <1>2 DEF Does
<1>4. /\ timer' = [timer EXCEPT ![e] = StopTimer(@)]
      /\ out' = [out EXCEPT ![e] = IF @.has_reply THEN Cleared(@) ELSE @]
      /\ status' = [status EXCEPT ![e] = "done"]
      /\ UNCHANGED <<pc, inc, blocked, net>>
  BY DEF dtls1_on_handshake_complete
<1>5. PICK o : o = IF out[e].has_reply THEN Cleared(out[e]) ELSE out[e]
  OBVIOUS
<1>6. out[e] \in Outs /\ timer[e] \in Timers
  BY <1>1 DEF Shape
<1>7. /\ o \in Outs /\ o.write_seq = out[e].write_seq /\ o.w_epoch = out[e].w_epoch
      /\ \/ o.msgs = out[e].msgs /\ o.written = out[e].written /\ (o.has_reply => out[e].has_reply)
         \/ out[e].has_reply /\ o.msgs = <<>> /\ o.written = 0 /\ ~o.has_reply
  <2>1. CASE out[e].has_reply
    BY <1>5, <1>6, <2>1, ClearedIs
  <2>2. CASE ~out[e].has_reply
    BY <1>5, <1>6, <2>2
  <2> QED
    BY <2>1, <2>2
<1>8. out' = [out EXCEPT ![e] = o] /\ out' \in [End -> Outs] /\ out'[e] = o
  BY <1>1, <1>4, <1>5, <1>7 DEF Shape
<1>9. timer' \in [End -> Timers] /\ timer'[e].num = 0 /\ timer'[e].mtu = timer[e].mtu
  BY <1>1, <1>4, <1>6, StopTimerIs DEF Shape
<1>10. status' \in [End -> {"run", "done", "timeout", "fatal"}] /\ status'[e] = "done"
  BY <1>1, <1>4 DEF Shape
<1>11. Shape'
  BY <1>1, <1>4, <1>8, <1>9, <1>10 DEF Shape
<1>12. PosOK(e)' /\ ReadOK(e)' /\ TimerOK(e)'
  BY <1>1, <1>3, <1>4, <1>9, <1>10 DEF PosOK, ReadOK, TimerOK
<1>13. ~SendsLast(resume, e) \/ ~out[e].has_reply
  <2>1. SendsLast(resume, e) => EndAt(resume, e) >= NoReplyFrom(resume, e)
    BY <1>1 DEF EndAt, NoReplyFrom, Shape, SendsLast
  <2> QED
    BY <1>1, <1>3, <2>1 DEF ReplyOK
<1>14. WriteOK(e)'
  <2>1. o.written \in 0..Len(o.msgs)
    <3>1. CASE o.msgs = <<>> /\ o.written = 0
      BY <3>1
    <3>2. CASE o.msgs = out[e].msgs /\ o.written = out[e].written
      BY <1>1, <3>2 DEF WriteOK
    <3> QED
      BY <1>7, <3>1, <3>2
  <2> QED
    BY <1>1, <1>4, <1>7, <1>8, <2>1 DEF WriteOK
<1>15. FlightOK(e)'
  <2>1. CASE o.msgs = out[e].msgs
    <3>1. pc[e] \in Int
      BY <1>1 DEF Shape
    <3> QED
      BY <1>1, <1>2, <1>4, <1>8, <2>1, <3>1, FlightStays
  <2>2. CASE out[e].has_reply /\ o.msgs = <<>>
    <3>1. Len(o.msgs) = 0 /\ \A i \in 1..Len(o.msgs) : FALSE
      BY <2>2
    <3>2. status'[e] # "run" /\ ~SendsLast(resume, e)
      BY <1>10, <1>13, <2>2
    <3> QED
      BY <1>8, <3>1, <3>2 DEF FlightOK
  <2> QED
    BY <1>7, <2>1, <2>2
<1>16. ReplyOK(e)'
  BY <1>1, <1>4, <1>7, <1>8, <1>10 DEF ReplyOK
<1>17. ASSUME NEW x \in End, x # e
       PROVE  PosOK(x)' /\ ReadOK(x)' /\ WriteOK(x)' /\ FlightOK(x)' /\ ReplyOK(x)' /\ TimerOK(x)'
  <2>1. /\ pc'[x] = pc[x] /\ status'[x] = status[x] /\ out'[x] = out[x] /\ timer'[x] = timer[x]
        /\ inc'[x] = inc[x]
    BY <1>1, <1>4, <1>8, <1>17 DEF Shape
  <2>2. PosOK(x) /\ ReadOK(x) /\ WriteOK(x) /\ FlightOK(x) /\ ReplyOK(x) /\ TimerOK(x)
    BY DEF IInv
  <2> QED
    BY <2>1, <2>2, SideFrame
<1>18. ASSUME NEW x \in End
       PROVE  SlotsOK(x)' /\ CausalOK(x)' /\ NetOK(x)'
  <2>1. pc'[Peer(x)] \in Int /\ pc'[Peer(x)] >= pc[Peer(x)]
    BY <1>1, <1>4, PeerIs DEF Shape
  <2>2. SlotsOK(x) /\ CausalOK(x) /\ NetOK(x)
    BY DEF IInv
  <2> QED
    BY <1>1, <1>4, <2>1, <2>2, InFrame, NetFrame
<1> QED
  BY <1>11, <1>12, <1>14, <1>15, <1>16, <1>17, <1>18 DEF IInv

-------------------------------------------------------------------------------
(* The theorems.                                                           *)

\* The invariant holds at the start.
LEMMA InitIInv ==
  ASSUME Init
  PROVE  IInv
<1> USE HandshakeAssumption
<1>1. None \in Slots /\ <<>> \in Seq(Msgs) /\ Len(<<>>) = 0
  BY DEF None, Slots
<1>2. Mtu \in Int /\ 0 \in 0..MaxBlock
  OBVIOUS
<1>3. PICK i0 : i0 = [r_epoch |-> 0, read_seq |-> 0, ccs |-> FALSE,
                      slot |-> [i \in 0..(Flight - 1) |-> None]]
  OBVIOUS
<1>4. PICK o0 : o0 = [w_epoch |-> 0, write_seq |-> 0, msgs |-> <<>>, written |-> 0,
                      offset |-> 0, complete |-> FALSE, has_reply |-> FALSE]
  OBVIOUS
<1>5. PICK t0 : t0 = [on |-> FALSE, num |-> 0, mtu |-> Mtu]
  OBVIOUS
<1>6. /\ i0 \in Ins /\ i0.r_epoch = 0 /\ i0.read_seq = 0
      /\ \A i \in 0..(Flight - 1) : i0.slot[i] = None
  <2>1. PICK s : s = [i \in 0..(Flight - 1) |-> None]
    OBVIOUS
  <2>2. s \in [0..(Flight - 1) -> Slots] /\ \A i \in 0..(Flight - 1) : s[i] = None
    BY <1>1, <2>1
  <2>3. i0 \in [r_epoch : {0}, read_seq : {0}, ccs : {FALSE}, slot : {s}]
    BY <1>3, <2>1
  <2>4. i0.ccs \in BOOLEAN
    BY <2>3, Zenon
  <2>5. i0.slot = s /\ i0.r_epoch = 0 /\ i0.read_seq = 0
    BY <2>3
  <2>6. i0 = [r_epoch |-> i0.r_epoch, read_seq |-> i0.read_seq, ccs |-> i0.ccs, slot |-> i0.slot]
    BY <2>3
  <2>7. i0.r_epoch \in Int /\ i0.read_seq \in Int /\ i0.slot \in [0..(Flight - 1) -> Slots]
    BY <2>2, <2>5
  <2>8. i0 \in Ins
    BY <2>4, <2>6, <2>7 DEF Ins
  <2> QED
    BY <2>2, <2>5, <2>8
<1>7. /\ o0 \in Outs /\ o0.w_epoch = 0 /\ o0.write_seq = 0 /\ o0.msgs = <<>> /\ o0.written = 0
      /\ o0.complete = FALSE /\ o0.has_reply = FALSE
  <2>1. o0 \in [w_epoch : {0}, write_seq : {0}, msgs : {<<>>}, written : {0},
                offset : {0}, complete : {FALSE}, has_reply : {FALSE}]
    BY <1>4
  <2>2. o0.complete = FALSE /\ o0.has_reply = FALSE
    BY <2>1, Zenon
  <2>3. /\ o0.w_epoch = 0 /\ o0.write_seq = 0 /\ o0.msgs = <<>> /\ o0.written = 0 /\ o0.offset = 0
    BY <2>1
  <2>4. o0.complete \in BOOLEAN /\ o0.has_reply \in BOOLEAN
    BY <2>2, Zenon
  <2>5. /\ o0.w_epoch \in Int /\ o0.write_seq \in Int /\ o0.msgs \in Seq(Msgs)
        /\ o0.written \in Int /\ o0.offset \in Int
    BY <1>1, <2>3
  <2>6. o0 = [w_epoch |-> o0.w_epoch, write_seq |-> o0.write_seq, msgs |-> o0.msgs,
              written |-> o0.written, offset |-> o0.offset, complete |-> o0.complete,
              has_reply |-> o0.has_reply]
    BY <2>1
  <2>7. o0 \in Outs
    BY <2>4, <2>5, <2>6 DEF Outs
  <2> QED
    BY <2>2, <2>3, <2>7
<1>8. t0 \in Timers /\ t0.num = 0 /\ t0.mtu = Mtu
  <2>1. t0 \in [on : {FALSE}, num : {0}, mtu : {Mtu}]
    BY <1>5
  <2>2. t0.on \in BOOLEAN
    BY <2>1, Zenon
  <2> QED
    BY <1>2, <2>1, <2>2 DEF Timers
<1>9. /\ resume \in BOOLEAN /\ pc = [e \in End |-> 1] /\ status = [e \in End |-> "run"]
      /\ inc = [e \in End |-> i0] /\ out = [e \in End |-> o0] /\ timer = [e \in End |-> t0]
      /\ blocked = 0 /\ net = [e \in End |-> {}]
  BY <1>3, <1>4, <1>5 DEF Init
<1>10. Shape
  BY <1>2, <1>6, <1>7, <1>8, <1>9 DEF Shape
<1>11. ASSUME NEW e \in End
       PROVE  /\ PosOK(e) /\ ReadOK(e) /\ WriteOK(e) /\ FlightOK(e) /\ ReplyOK(e) /\ TimerOK(e)
              /\ SlotsOK(e) /\ NetOK(e) /\ CausalOK(e)
  <2>1. /\ pc[e] = 1 /\ status[e] = "run" /\ inc[e] = i0 /\ out[e] = o0 /\ timer[e] = t0
        /\ net[e] = {} /\ resume \in BOOLEAN
    BY <1>9
  <2>2. PosOK(e)
    BY <2>1 DEF PosOK, EndAt
  <2>3. ReadOK(e) /\ CausalOK(e)
    BY <1>6, <2>1 DEF ReadOK, ReadAt, ReadEpoch, CcsAt, CausalOK, FinSeq
  <2>4. WriteOK(e)
    BY <1>1, <1>7, <2>1 DEF WriteOK, WriteAt, WriteEpoch, FinAt
  <2>5. FlightOK(e)
    BY <1>1, <1>7, <2>1 DEF FlightOK, FlightAt, FinAt
  <2>6. ReplyOK(e)
    BY <1>7, <2>1 DEF ReplyOK, IsOut, Flushes
  <2>7. TimerOK(e)
    BY <1>8, <2>1 DEF TimerOK
  <2>8. SlotsOK(e) /\ NetOK(e)
    BY <1>6, <2>1 DEF SlotsOK, SlotOK, NetOK
  <2> QED
    BY <2>2, <2>3, <2>4, <2>5, <2>6, <2>7, <2>8
<1> QED
  BY <1>10, <1>11 DEF IInv

\* Every step keeps it.
LEMMA StepIInv ==
  ASSUME IInv, [Next]_vars
  PROVE  IInv'
<1>1. CASE UNCHANGED vars
  BY <1>1 DEF vars, IInv, Shape, PosOK, ReadOK, WriteOK, FlightOK, ReplyOK, TimerOK, SlotsOK,
              SlotOK, NetOK, CausalOK
<1>2. ASSUME NEW e \in End, Run(e)
      PROVE  IInv'
  <2>1. resume' = resume
    BY <1>2 DEF Run
  <2>2. CASE AddMessage(e)
    BY <2>1, <2>2, AddKeeps
  <2>3. CASE dtls1_flush_flight(e)
    BY <2>1, <2>3, FlushKeeps
  <2>4. CASE dtls1_next_message(e)
    BY <2>1, <2>4, NextMessageKeeps
  <2>5. CASE SetReadState(e)
    BY <2>1, <2>5, SetReadStateKeeps
  <2>6. CASE dtls1_on_handshake_complete(e)
    BY <2>1, <2>6, CompleteKeeps
  <2> QED
    BY <1>2, <2>2, <2>3, <2>4, <2>5, <2>6 DEF Run
<1>3. ASSUME NEW e \in End, DTLSv1_handle_timeout(e)
      PROVE  IInv'
  BY <1>3, TimeoutKeeps
<1>4. ASSUME NEW e \in End, NEW r \in net[e], Receive(e, r)
      PROVE  IInv'
  BY <1>4, ReceiveKeeps
<1> QED
  BY <1>1, <1>2, <1>3, <1>4 DEF Next

\* The position of each end determines what it has read, written and holds for
\* retransmission, and what is under way to it is what its peer's position allows.
THEOREM Inductive == Spec => []IInv
<1>1. Init => IInv
  BY InitIInv
<1>2. IInv /\ [Next]_vars => IInv'
  BY StepIInv
<1> QED
  BY <1>1, <1>2, PTL DEF Spec

\* Two honest endpoints never fail each other, for every size of the slots,
\* every number of timeouts and every MTU: no fatal path of dtls1_open_handshake,
\* dtls1_open_app_data, dtls1_set_read_state or add_outgoing is taken.
THEOREM NeverFails == Spec => []NoSpuriousFailure
<1> USE HandshakeAssumption
<1>1. IInv => NoSpuriousFailure
  <2> SUFFICES ASSUME IInv
               PROVE  NoSpuriousFailure
    OBVIOUS
  <2>1. ASSUME NEW e \in End
        PROVE  /\ pc[e] \in 1..Len(Script(e))
               /\ status[e] \in {"run", "done", "timeout", "fatal"}
               /\ inc[e].r_epoch \in 0..1 /\ out[e].w_epoch \in 0..1
               /\ Len(out[e].msgs) <= Flight /\ out[e].written \in 0..Len(out[e].msgs)
               /\ timer[e].num \in 0..(MaxTimeouts + 1) /\ timer[e].mtu \in {Mtu, FallbackMtu}
               /\ blocked \in 0..MaxBlock
    <3>1. Shape /\ PosOK(e) /\ ReadOK(e) /\ WriteOK(e) /\ FlightOK(e) /\ TimerOK(e)
      BY DEF IInv
    <3>2. Len(Script(e)) = EndAt(resume, e)
      BY <3>1, ScriptIs DEF Shape, PosOK
    <3>3. inc[e].r_epoch \in 0..1 /\ out[e].w_epoch \in 0..1
      BY <3>1 DEF ReadOK, WriteOK, ReadEpoch, WriteEpoch
    <3>4. FlightAt(resume, e, pc[e]) \in 0..3
      BY <3>1 DEF FlightAt, Shape, PosOK, EndAt
    <3>5. Len(out[e].msgs) <= Flight
      BY <3>1, <3>4 DEF FlightOK
    <3>6. timer[e].num \in 0..(MaxTimeouts + 1) /\ timer[e].mtu \in {Mtu, FallbackMtu}
      BY <3>1 DEF TimerOK
    <3> QED
      BY <3>1, <3>2, <3>3, <3>5, <3>6 DEF Shape, PosOK, WriteOK
  <2>2. TypeOK
    BY <2>1 DEF TypeOK
  <2>3. SlotsMatch
    BY DEF SlotsMatch, IInv, SlotsOK, SlotOK
  <2> QED
    BY <2>2, <2>3 DEF NoSpuriousFailure, IInv, PosOK
<1> QED
  BY <1>1, Inductive, PTL

\* While one end still waits, the one that is done keeps its last flight, and
\* the one that waits has the Finished that asks for it.
THEOREM FlightKept == Spec => []LastFlightKept
<1> USE HandshakeAssumption
<1>1. IInv => LastFlightKept
  <2> SUFFICES ASSUME IInv, NEW e \in End, status[e] = "done",
                      At(Peer(e), "recv") \/ At(Peer(e), "read_ccs")
               PROVE  \A y \in End : \E i \in DOMAIN out[y].msgs : out[y].msgs[i].fin
    BY DEF LastFlightKept
  <2>1. PICK x : x = Peer(e)
    OBVIOUS
  <2>2. x \in End /\ Peer(x) = e /\ x # e
    BY <2>1, PeerIs
  <2>3. /\ Shape /\ PosOK(e) /\ PosOK(x) /\ ReadOK(e) /\ CausalOK(e) /\ FlightOK(e) /\ FlightOK(x)
        /\ ReadOK(x)
    BY <2>2 DEF IInv
  <2>4. pc[e] = EndAt(resume, e) /\ resume \in BOOLEAN /\ pc[e] \in 1..EndAt(resume, e)
    BY <2>3 DEF PosOK, Shape
  <2>5. pc[x] >= FinAt(resume, x)
    <3>1. ReadAt(resume, e, pc[e]) = FinSeq(resume, Peer(e)) + 1
      BY <2>4, ReadTable
    <3>2. FinSeq(resume, Peer(e)) \in Int
      BY DEF FinSeq
    <3> QED
      BY <2>1, <2>3, <3>1, <3>2 DEF ReadOK, CausalOK
  <2>6. status[x] = "run" /\ Does(resume, x, pc[x]) \in {"recv", "read_ccs"}
    BY <2>1, <2>2, <2>3, AtIs
  <2>7. SendsLast(resume, e) /\ FlightAt(resume, x, pc[x]) > 0 /\ FlightAt(resume, e, pc[e]) > 0
    <3>1. pc[x] \in 1..EndAt(resume, x)
      BY <2>3 DEF PosOK
    <3>2. Client # Server
      BY DEF Client, Server
    <3>3. (e = Client /\ x = Server) \/ (e = Server /\ x = Client)
      BY <2>1, <3>2 DEF Peer, End
    <3> QED
      BY <2>4, <2>5, <2>6, <3>1, <3>2, <3>3
      DEF SendsLast, FlightAt, Does, Adds, FinAt, Flushes, CcsAt, EndAt
  <2>8. out[e].msgs \in Seq(Msgs) /\ out[x].msgs \in Seq(Msgs)
    BY <2>2, <2>3 DEF Shape, Outs
  <2>9. Len(out[e].msgs) = FlightAt(resume, e, pc[e])
        /\ Len(out[x].msgs) = FlightAt(resume, x, pc[x])
    BY <2>3, <2>6, <2>7 DEF FlightOK
  <2>10. pc[e] >= FinAt(resume, e)
    BY <2>4 DEF EndAt, FinAt
  <2>11. ASSUME NEW y \in {e, x} PROVE \E i \in DOMAIN out[y].msgs : out[y].msgs[i].fin
    <3>1. /\ FlightOK(y) /\ pc[y] >= FinAt(resume, y) /\ out[y].msgs \in Seq(Msgs)
          /\ Len(out[y].msgs) = FlightAt(resume, y, pc[y]) /\ FlightAt(resume, y, pc[y]) > 0
      BY <2>3, <2>5, <2>7, <2>8, <2>9, <2>10
    <3>2. PICK L : L = out[y].msgs
      OBVIOUS
    <3>3. Len(L) \in Nat /\ Len(L) > 0 /\ DOMAIN L = 1..Len(L)
      BY <3>1, <3>2, LenProperties
    <3>4. L[Len(L)].fin /\ Len(L) \in DOMAIN L
      BY <3>1, <3>2, <3>3 DEF FlightOK
    <3> QED
      BY <3>2, <3>4
  <2>12. End = {e, x}
    BY <2>2 DEF End
  <2> QED
    BY <2>11, <2>12
<1> QED
  BY <1>1, Inductive, PTL

-----------------------------------------------------------------------------
(* Records: arithmetic of epochs.                                           *)

\* Record numbers of an epoch lie below those of the next.
LEMMA EpochsApart ==
  ASSUME NEW e \in Nat, NEW f \in Nat, e <= f
  PROVE  e * SeqMod \in Nat /\ e * SeqMod <= f * SeqMod /\ (e + 1) * SeqMod = e * SeqMod + SeqMod
  BY RecordAssumption

\* The number of a record is a record number.
LEMMA NumberInRange ==
  ASSUME NEW e \in 0..MaxEpoch, NEW s \in 0..(SeqMod - 1)
  PROVE  Number(e, s) \in AllNumbers
  <1>1. e \in Nat /\ MaxEpoch \in Nat /\ e <= MaxEpoch /\ SeqMod \in Nat
    BY RecordAssumption
  <1>2. e * SeqMod \in Nat /\ e * SeqMod <= MaxEpoch * SeqMod
    BY <1>1, EpochsApart
  <1>3. (MaxEpoch + 1) * SeqMod = MaxEpoch * SeqMod + SeqMod /\ MaxEpoch * SeqMod \in Nat
    BY <1>1, EpochsApart
  <1> QED
    BY <1>1, <1>2, <1>3 DEF Number, AllNumbers

\* The counters wrap inside their range.
LEMMA UpdateInRange ==
  ASSUME NEW s \in 0..(SeqMod - 1)
  PROVE  /\ ssl_record_sequence_update(s) \in 0..(SeqMod - 1)
         /\ ~Overflows(s) => ssl_record_sequence_update(s) = s + 1
  BY RecordAssumption DEF ssl_record_sequence_update, Overflows

-----------------------------------------------------------------------------
(* Records: type correctness.                                               *)

\* The limit on warnings is kept because the error that the last one raises
\* stops the connection.
Warned == read_shutdown = "none" => warning_alert_count <= kMaxWarningAlerts

\* Every handler of the record layer keeps the ranges of its state.
LEMMA RecordTypeInductive == RecordTypeOK /\ Warned /\ [RecordNext]_recordVars => RecordTypeOK' /\ Warned'
<1> SUFFICES ASSUME RecordTypeOK, Warned, [RecordNext]_recordVars PROVE RecordTypeOK' /\ Warned'
  OBVIOUS
<1> USE RecordAssumption
<1>1. ASSUME NEW previous \in BOOLEAN, dtls_seal_record(previous) PROVE RecordTypeOK' /\ Warned'
  <2> DEFINE seq == IF previous THEN last_write_sequence ELSE write_sequence
             e == IF previous THEN w_epoch - 1 ELSE w_epoch
  <2>1. seq \in 0..(SeqMod - 1) /\ e \in 0..MaxEpoch
    BY <1>1 DEF RecordTypeOK, dtls_seal_record
  <2>2. Number(e, seq) \in AllNumbers /\ ssl_record_sequence_update(seq) \in 0..(SeqMod - 1)
    BY <2>1, NumberInRange, UpdateInRange
  <2>3. /\ records' = records \/ records' = records \cup {Number(e, seq)}
        /\ write_sequence' \in {write_sequence, ssl_record_sequence_update(seq)}
        /\ last_write_sequence' \in {last_write_sequence, ssl_record_sequence_update(seq)}
        /\ overflowed' \in BOOLEAN
        /\ sealed' = sealed \/ sealed' = sealed + 1
        /\ UNCHANGED <<w_epoch, receiver>>
    BY <1>1 DEF dtls_seal_record, RecordTypeOK
  <2> QED
    BY <2>2, <2>3 DEF RecordTypeOK, Warned, receiver
<1>2. CASE dtls1_set_write_state
  BY <1>2 DEF dtls1_set_write_state, RecordTypeOK, Warned, receiver
<1>3. ASSUME NEW num \in records \cup Injected, NEW type \in Type, dtls_open_record(num, type)
      PROVE RecordTypeOK' /\ Warned'
  <2>1. num \in AllNumbers
    BY DEF RecordTypeOK, AllNumbers
  <2>2. ASSUME NEW d \in Nat PROVE Shift(d) \in [0..(Window - 1) -> BOOLEAN]
    <3>1. ASSUME NEW i \in 0..(Window - 1), i >= d PROVE map[i - d] \in BOOLEAN
      <4>1. i - d \in 0..(Window - 1)
        BY <3>1
      <4> QED
        BY <4>1, Zenon DEF RecordTypeOK
    <3>2. ASSUME NEW i \in 0..(Window - 1)
          PROVE (IF i >= d THEN map[i - d] ELSE FALSE) \in BOOLEAN
      BY <3>1, Zenon
    <3> QED
      BY <3>2, Zenon DEF Shift
  <2>3. UNCHANGED <<sender,
                    r_epoch>> /\ warning_alert_count \in Nat /\ max_seq_num \in Nat /\ num \in Nat
    BY <1>3, <2>1 DEF dtls_open_record, RecordTypeOK, AllNumbers
  <2>4. dtls1_bitmap_record(num) => max_seq_num' \in AllNumbers /\ map' \in [0..(Window - 1) -> BOOLEAN]
    BY <2>1, <2>2, <2>3 DEF dtls1_bitmap_record, RecordTypeOK
  <2>5. /\ max_seq_num' \in AllNumbers /\ map' \in [0..(Window - 1) -> BOOLEAN]
        /\ acc' \subseteq AllNumbers /\ opened' \in Nat
    BY <1>3, <2>1, <2>4 DEF dtls_open_record, RecordTypeOK
  <2>6. read_shutdown' \in {"none", "close_notify", "error"}
    BY <1>3 DEF dtls_open_record, ssl_process_alert, RecordTypeOK
  <2>7. warning_alert_count' \in 0..(kMaxWarningAlerts + 1)
    BY <1>3 DEF dtls_open_record, ssl_process_alert, RecordTypeOK, Warned
  <2>8. Warned'
    BY <1>3 DEF dtls_open_record, ssl_process_alert, RecordTypeOK, Warned
  <2> QED
    BY <2>3, <2>5, <2>6, <2>7, <2>8 DEF RecordTypeOK, sender
<1>4. CASE dtls1_set_read_state
  BY <1>4 DEF dtls1_set_read_state, RecordTypeOK, Warned, sender, AllNumbers
<1>5. CASE UNCHANGED recordVars
  BY <1>5 DEF recordVars, sender, receiver, RecordTypeOK, Warned, AllNumbers
<1> QED
  BY <1>1, <1>2, <1>3, <1>4, <1>5 DEF RecordNext

\* The initial state has its type.
LEMMA RecordInitTyped == RecordInit => RecordTypeOK /\ Warned
<1>1. 0 \in 0..MaxEpoch /\ 0 \in 0..(SeqMod - 1) /\ Number(0, 0) = 0
  BY RecordAssumption DEF Number
<1>2. 0 \in AllNumbers
  BY <1>1, NumberInRange
<1> SUFFICES ASSUME RecordInit PROVE RecordTypeOK /\ Warned
  OBVIOUS
<1>3. map \in [0..(Window - 1) -> BOOLEAN]
  BY Zenon DEF RecordInit
<1>4. /\ w_epoch = 0 /\ write_sequence = 0 /\ last_write_sequence = 0
      /\ overflowed = FALSE /\ records = {} /\ sealed = 0
      /\ r_epoch = 0 /\ max_seq_num = 0
      /\ read_shutdown = "none" /\ warning_alert_count = 0
      /\ acc = {} /\ opened = 0
  BY DEF RecordInit
<1>5. Warned
  BY <1>4, RecordAssumption DEF Warned
<1>6. /\ 0 \in Nat /\ 0 \in 0..MaxEpoch /\ 0 \in 0..(SeqMod - 1) /\ 0 \in 0..(kMaxWarningAlerts + 1)
      /\ FALSE \in BOOLEAN /\ {} \subseteq AllNumbers
  BY RecordAssumption
<1> QED
  BY <1>2, <1>3, <1>4, <1>5, <1>6, Zenon DEF RecordTypeOK

\* The state of the record layer stays in its ranges: sequence numbers below
\* the wrap, the highest number seen inside the epochs, the warnings limited.
THEOREM RecordTypeCorrect == RecordSpec => []RecordTypeOK
<1>1. RecordInit => RecordTypeOK /\ Warned
  BY RecordInitTyped
<1> QED
  BY <1>1, RecordTypeInductive, PTL DEF RecordSpec

-----------------------------------------------------------------------------
(* Records: the replay window.                                              *)

EpochOf(num) == num \div SeqMod

\* A bit of the map is set exactly for the numbers that were opened in this
\* epoch; none was opened above the highest number, nor in a later epoch.
WindowInv ==
  /\ \A num \in acc : EpochOf(num) <= r_epoch
  /\ \A num \in acc : EpochOf(num) = r_epoch => num <= max_seq_num
  /\ \A i \in 0..(Window - 1) :
       map[i] <=> max_seq_num - i \in acc /\ EpochOf(max_seq_num - i) = r_epoch
  /\ IsFiniteSet(acc)
  /\ NoReplay

\* A record that passes dtls1_bitmap_should_discard has not been opened.
LEMMA PassedIsNew ==
  ASSUME RecordTypeOK, WindowInv, NEW num \in AllNumbers,
         EpochOf(num) = r_epoch, ~dtls1_bitmap_should_discard(num)
  PROVE  num \notin acc
<1>1. num \in Nat /\ max_seq_num \in Nat /\ Window \in Nat
  BY RecordAssumption DEF RecordTypeOK, AllNumbers
<1>2. CASE num > max_seq_num
  BY <1>1, <1>2 DEF WindowInv
<1>3. CASE num <= max_seq_num
  <2>1. max_seq_num - num \in 0..(Window - 1) /\ ~map[max_seq_num - num]
    BY <1>1, <1>3 DEF dtls1_bitmap_should_discard
  <2>2. max_seq_num - (max_seq_num - num) = num
    BY <1>1
  <2> QED
    BY <2>1, <2>2 DEF WindowInv
<1> QED
  BY <1>1, <1>2, <1>3

\* dtls1_bitmap_record of a new number keeps the map exact.
LEMMA RecordExact ==
  ASSUME RecordTypeOK, WindowInv, NEW num \in AllNumbers, EpochOf(num) = r_epoch,
         dtls1_bitmap_record(num), acc' = acc \cup {num}, r_epoch' = r_epoch,
         NEW i \in 0..(Window - 1)
  PROVE  map'[i] <=> max_seq_num' - i \in acc' /\ EpochOf(max_seq_num' - i) = r_epoch'
<1>1. num \in Nat /\ max_seq_num \in Nat /\ Window \in Nat /\ i \in Nat
      /\ map \in [0..(Window - 1) -> BOOLEAN]
  BY RecordAssumption DEF RecordTypeOK, AllNumbers
<1>2. CASE num > max_seq_num
  <2> DEFINE d == num - max_seq_num
  <2>1. max_seq_num' = num /\ map' = [Shift(d) EXCEPT ![0] = TRUE]
    BY <1>1, <1>2, RecordAssumption DEF dtls1_bitmap_record
  <2>2. CASE i = 0
    <3>1. map'[i] = TRUE /\ max_seq_num' - i = num
      BY <1>1, <2>1, <2>2 DEF Shift
    <3> QED
      BY <3>1
  <2>3. CASE i # 0 /\ i < d
    <3>1. ~map'[i]
      <4>1. Shift(d) = [j \in 0..(Window - 1) |-> IF j >= d THEN map[j - d] ELSE FALSE]
        BY DEF Shift
      <4>2. map'[i] = Shift(d)[i]
        BY <2>1, <2>3, <4>1
      <4>3. ~(i >= d)
        BY <1>1, <2>3
      <4>4. Shift(d)[i] = FALSE
        BY <4>1, <4>3, Zenon
      <4> QED
        BY <4>2, <4>4
    <3>2. num - i \in Nat /\ num - i > max_seq_num /\ num - i # num
      BY <1>1, <1>2, <2>3
    <3>3. ~(num - i \in acc /\ EpochOf(num - i) = r_epoch)
      BY <1>1, <3>2 DEF WindowInv
    <3> QED
      BY <2>1, <3>1, <3>2, <3>3
  <2>4. CASE i # 0 /\ i >= d
    <3>1. i - d \in 0..(Window - 1) /\ max_seq_num - (i - d) = num - i /\ num - i # num
      BY <1>1, <1>2, <2>4
    <3>2. map'[i] = map[i - d]
      BY <1>1, <1>2, <2>1, <2>4 DEF Shift
    <3>3. map[i - d] <=> num - i \in acc /\ EpochOf(num - i) = r_epoch
      BY <3>1 DEF WindowInv
    <3> QED
      BY <2>1, <3>1, <3>2, <3>3
  <2> QED
    BY <1>1, <1>2, <2>2, <2>3, <2>4
<1>3. CASE num <= max_seq_num
  <2> DEFINE idx == max_seq_num - num
  <2>1. idx \in Nat /\ max_seq_num' = max_seq_num
        /\ map' = IF idx < Window THEN [map EXCEPT ![idx] = TRUE] ELSE map
    <3>1. idx \in Nat /\ ~(num > max_seq_num)
      BY <1>1, <1>3
    <3> QED
      BY <3>1, Zenon DEF dtls1_bitmap_record
  <2>2. map[i] <=> max_seq_num - i \in acc /\ EpochOf(max_seq_num - i) = r_epoch
    BY DEF WindowInv
  <2>3. CASE i = idx
    <3>1. map'[i] = TRUE /\ max_seq_num - i = num
      BY <1>1, <2>1, <2>3
    <3> QED
      BY <2>1, <3>1
  <2>4. CASE i # idx
    <3>1. map'[i] = map[i] /\ max_seq_num - i # num
      BY <1>1, <2>1, <2>4
    <3> QED
      BY <2>1, <2>2, <3>1
  <2> QED
    BY <2>3, <2>4
<1> QED
  BY <1>1, <1>2, <1>3

\* Every step keeps the window exact.
LEMMA WindowInductive == RecordTypeOK /\ WindowInv /\ [RecordNext]_recordVars => WindowInv'
<1> SUFFICES ASSUME RecordTypeOK, WindowInv, [RecordNext]_recordVars PROVE WindowInv'
  OBVIOUS
<1>1. ASSUME UNCHANGED receiver PROVE WindowInv'
  BY <1>1 DEF receiver, WindowInv, NoReplay
<1>2. ASSUME NEW num \in records \cup Injected, NEW type \in Type, dtls_open_record(num, type)
      PROVE WindowInv'
  <2>1. /\ num \in AllNumbers /\ EpochOf(num) = r_epoch /\ ~dtls1_bitmap_should_discard(num)
        /\ r_epoch' = r_epoch /\ r_epoch \in Nat /\ max_seq_num \in Nat /\ opened \in Nat
        /\ \A n \in acc : n \in Nat
    BY <1>2, RecordAssumption DEF dtls_open_record, RecordTypeOK, AllNumbers, EpochOf
  <2>2. CASE UNCHANGED <<max_seq_num, map, acc, opened>>
    BY <2>1, <2>2 DEF WindowInv, NoReplay
  <2>3. CASE dtls1_bitmap_record(num) /\ acc' = acc \cup {num} /\ opened' = opened + 1
    <3>1. num \notin acc
      BY <2>1, PassedIsNew
    <3>2. IsFiniteSet(acc') /\ Cardinality(acc') = Cardinality(acc) + 1
      BY <2>3, <3>1, FS_AddElement DEF WindowInv
    <3>3. NoReplay'
      BY <2>3, <3>2 DEF WindowInv, NoReplay
    <3>4. max_seq_num' >= max_seq_num /\ max_seq_num' >= num /\ max_seq_num' \in Nat
      BY <2>1, <2>3 DEF dtls1_bitmap_record, AllNumbers
    <3>5. \A n \in acc' : EpochOf(n) <= r_epoch' /\ (EpochOf(n) = r_epoch' => n <= max_seq_num')
      <4> SUFFICES ASSUME NEW n \in acc'
                   PROVE EpochOf(n) <= r_epoch /\ (EpochOf(n) = r_epoch => n <= max_seq_num')
        BY <2>1
      <4>1. CASE n = num
        BY <2>1, <3>4, <4>1
      <4>2. CASE n \in acc
        BY <2>1, <3>4, <4>2 DEF WindowInv
      <4> QED
        BY <2>3, <4>1, <4>2
    <3>6. \A i \in 0..(Window - 1) :
            map'[i] <=> max_seq_num' - i \in acc' /\ EpochOf(max_seq_num' - i) = r_epoch'
      BY <2>1, <2>3, RecordExact
    <3> QED
      BY <3>2, <3>3, <3>5, <3>6 DEF WindowInv, EpochOf
  <2> QED
    BY <1>2, <2>2, <2>3 DEF dtls_open_record
<1>3. CASE dtls1_set_read_state
  <2>1. /\ r_epoch' = r_epoch + 1 /\ max_seq_num' = 0 /\ acc' = acc /\ opened' = opened
        /\ map' = [i \in 0..(Window - 1) |-> FALSE] /\ r_epoch \in Nat
    BY <1>3 DEF dtls1_set_read_state, RecordTypeOK
  <2>2. \A n \in acc : EpochOf(n) <= r_epoch' /\ EpochOf(n) # r_epoch'
    <3> SUFFICES ASSUME NEW n \in acc PROVE EpochOf(n) <= r_epoch + 1 /\ EpochOf(n) # r_epoch + 1
      BY <2>1
    <3>1. EpochOf(n) <= r_epoch /\ EpochOf(n) \in Int
      BY RecordAssumption DEF WindowInv, EpochOf, RecordTypeOK, AllNumbers
    <3> QED
      BY <2>1, <3>1
  <2>3. \A i \in 0..(Window - 1) : ~map'[i]
    BY <2>1
  <2> QED
    BY <2>1, <2>2, <2>3 DEF WindowInv, NoReplay, EpochOf
<1>4. CASE dtls1_set_write_state \/ \E previous \in BOOLEAN : dtls_seal_record(previous)
  BY <1>1, <1>4 DEF dtls1_set_write_state, dtls_seal_record
<1>5. CASE UNCHANGED recordVars
  BY <1>1, <1>5 DEF recordVars
<1> QED
  BY <1>2, <1>3, <1>4, <1>5 DEF RecordNext

\* dtls_open_record opens no record twice, for a window of any size.
THEOREM NothingReplayed == RecordSpec => []NoReplay
<1>1. RecordInit => WindowInv
  BY FS_EmptySet DEF RecordInit, WindowInv, NoReplay, EpochOf
<1>2. RecordSpec => []WindowInv
  BY <1>1, RecordTypeCorrect, WindowInductive, PTL DEF RecordSpec
<1>3. WindowInv => NoReplay
  BY DEF WindowInv
<1> QED
  BY <1>2, <1>3, PTL

\* dtls1_bitmap_should_discard discards nothing inside the window but replays.
THEOREM WindowIsExact == RecordSpec => []OnlyReplaysDiscarded
<1>1. RecordInit => WindowInv
  BY FS_EmptySet DEF RecordInit, WindowInv, NoReplay, EpochOf
<1>2. RecordSpec => []WindowInv
  BY <1>1, RecordTypeCorrect, WindowInductive, PTL DEF RecordSpec
<1>3. RecordTypeOK /\ WindowInv => OnlyReplaysDiscarded
  <2> SUFFICES ASSUME RecordTypeOK, WindowInv, NEW num \in AllNumbers,
                      num \notin acc, num > max_seq_num - Window, num <= max_seq_num
               PROVE  max_seq_num - num < Window /\ ~map[max_seq_num - num]
    BY RecordAssumption DEF OnlyReplaysDiscarded, dtls1_bitmap_should_discard, RecordTypeOK,
       AllNumbers
  <2>1. /\ max_seq_num - num \in 0..(Window - 1)
        /\ max_seq_num - (max_seq_num - num) = num
    BY RecordAssumption DEF RecordTypeOK, AllNumbers
  <2> QED
    BY <2>1, RecordAssumption DEF WindowInv
<1> QED
  BY <1>2, <1>3, RecordTypeCorrect, PTL

-----------------------------------------------------------------------------
(* Records: the sender's numbers.                                           *)

\* Until a counter overflows, every number of this epoch and of the one before
\* that the sender will use next is above those it has used.
SealInv ==
  ~overflowed =>
    /\ IsFiniteSet(records)
    /\ sealed = Cardinality(records)
    /\ \A n \in records : n < Number(w_epoch, write_sequence)
    /\ \A n \in records : w_epoch >= 1 => \/ n < Number(w_epoch - 1, last_write_sequence)
                                      \/ n >= Number(w_epoch, 0)

\* The previous epoch ends where the current one begins.
LEMMA PreviousEpoch ==
  ASSUME NEW w \in Nat, w >= 1
  PROVE  /\ w * SeqMod \in Nat /\ (w - 1) * SeqMod \in Nat
         /\ w * SeqMod = (w - 1) * SeqMod + SeqMod
<1>1. w - 1 \in Nat /\ (w - 1) + 1 = w
  OBVIOUS
<1> QED
  BY <1>1, EpochsApart

\* A seal uses a number that has not been used, whichever epoch it is for.
LEMMA SealInductive == RecordTypeOK /\ SealInv /\ [RecordNext]_recordVars => SealInv'
<1> SUFFICES ASSUME RecordTypeOK, SealInv, [RecordNext]_recordVars, ~overflowed' PROVE SealInv'
  BY DEF SealInv
<1>0. /\ SeqMod \in Nat /\ SeqMod > 0 /\ w_epoch \in Nat /\ w_epoch * SeqMod \in Nat
      /\ write_sequence \in Nat /\ write_sequence < SeqMod
      /\ last_write_sequence \in Nat /\ last_write_sequence < SeqMod
      /\ records \subseteq Nat
  BY RecordAssumption, EpochsApart DEF RecordTypeOK, AllNumbers
<1>1. ASSUME UNCHANGED sender PROVE SealInv'
  BY <1>1 DEF sender, SealInv
<1>2. ASSUME NEW previous \in BOOLEAN, dtls_seal_record(previous) PROVE SealInv'
  <2> DEFINE seq == IF previous THEN last_write_sequence ELSE write_sequence
             e == IF previous THEN w_epoch - 1 ELSE w_epoch
             n0 == Number(e, seq)
  <2>1. ~overflowed /\ ~Overflows(seq)
    BY <1>2 DEF dtls_seal_record, RecordTypeOK
  <2>2. /\ records' = records \cup {n0} /\ sealed' = sealed + 1 /\ w_epoch' = w_epoch
        /\ previous => w_epoch >= 1
    BY <1>2, <2>1 DEF dtls_seal_record
  <2>3. /\ previous => last_write_sequence' = last_write_sequence + 1 /\ write_sequence' = write_sequence
        /\ ~previous => write_sequence' = write_sequence + 1 /\ last_write_sequence' = last_write_sequence
    <3>1. ssl_record_sequence_update(seq) = seq + 1
      BY <1>0, <2>1, UpdateInRange
    <3> QED
      BY <1>2, <3>1 DEF dtls_seal_record
  <2>4. /\ IsFiniteSet(records) /\ sealed = Cardinality(records)
        /\ \A n \in records : n < Number(w_epoch, write_sequence)
        /\ \A n \in records : w_epoch >= 1 => \/ n < Number(w_epoch - 1, last_write_sequence)
                                          \/ n >= Number(w_epoch, 0)
    BY <2>1 DEF SealInv
  <2>5. CASE previous
    <3>1. /\ w_epoch >= 1 /\ (w_epoch - 1) * SeqMod \in Nat
          /\ w_epoch * SeqMod = (w_epoch - 1) * SeqMod + SeqMod
      BY <1>0, <2>2, <2>5, PreviousEpoch
    <3>2. n0 = (w_epoch - 1) * SeqMod + last_write_sequence
      BY <2>5 DEF Number
    <3>3. \A n \in records : n < n0 \/ n >= w_epoch * SeqMod
      BY <1>0, <2>4, <3>1, <3>2 DEF Number
    <3>4. n0 \notin records
      BY <1>0, <3>1, <3>2, <3>3
    <3>5. \A n \in records' : n < Number(w_epoch', write_sequence')
      <4>1. n0 < w_epoch * SeqMod + write_sequence
        BY <1>0, <3>1, <3>2
      <4> QED
        BY <2>2, <2>3, <2>4, <2>5, <4>1 DEF Number
    <3>6. \A n \in records' : n < Number(w_epoch' - 1, last_write_sequence') \/ n >= Number(w_epoch', 0)
      <4>1. n0 < (w_epoch - 1) * SeqMod + (last_write_sequence + 1)
        BY <1>0, <3>1, <3>2
      <4>2. \A n \in records : n < (w_epoch - 1) * SeqMod + (last_write_sequence + 1) \/ n >= w_epoch * SeqMod + 0
        BY <1>0, <3>1, <3>2, <3>3
      <4> QED
        BY <2>2, <2>3, <2>5, <4>1, <4>2 DEF Number
    <3>7. IsFiniteSet(records') /\ Cardinality(records') = Cardinality(records) + 1
      BY <2>2, <2>4, <3>4, FS_AddElement
    <3> QED
      BY <2>2, <2>4, <3>5, <3>6, <3>7 DEF SealInv
  <2>6. CASE ~previous
    <3>1. n0 = w_epoch * SeqMod + write_sequence
      BY <2>6 DEF Number
    <3>2. n0 \in Nat /\ n0 >= w_epoch * SeqMod + 0 /\ n0 < w_epoch * SeqMod + (write_sequence + 1)
      BY <1>0, <3>1
    <3>3. \A n \in records : n < n0
      BY <2>4, <3>1 DEF Number
    <3>4. n0 \notin records
      BY <1>0, <3>2, <3>3
    <3>5. \A n \in records' : n < Number(w_epoch', write_sequence')
      <4>1. \A n \in records : n < w_epoch * SeqMod + (write_sequence + 1)
        BY <1>0, <3>2, <3>3
      <4> QED
        BY <2>2, <2>3, <2>6, <3>2, <4>1 DEF Number
    <3>6. \A n \in records' : w_epoch' >= 1 => \/ n < Number(w_epoch' - 1, last_write_sequence')
                                           \/ n >= Number(w_epoch', 0)
      BY <2>2, <2>3, <2>4, <2>6, <3>2 DEF Number
    <3>7. IsFiniteSet(records') /\ Cardinality(records') = Cardinality(records) + 1
      BY <2>2, <2>4, <3>4, FS_AddElement
    <3> QED
      BY <2>2, <2>4, <3>5, <3>6, <3>7 DEF SealInv
  <2> QED
    BY <2>5, <2>6
<1>3. CASE dtls1_set_write_state
  <2>1. /\ ~overflowed /\ w_epoch' = w_epoch + 1 /\ last_write_sequence' = write_sequence
        /\ write_sequence' = 0 /\ records' = records /\ sealed' = sealed
    BY <1>3 DEF dtls1_set_write_state
  <2>2. (w_epoch + 1) * SeqMod = w_epoch * SeqMod + SeqMod /\ (w_epoch + 1) - 1 = w_epoch
    BY <1>0, EpochsApart
  <2>3. \A n \in records : n < w_epoch * SeqMod + write_sequence
    BY <2>1 DEF SealInv, Number
  <2>4. \A n \in records : n < (w_epoch + 1) * SeqMod + 0
    BY <1>0, <2>2, <2>3
  <2>5. \A n \in records' : n < Number(w_epoch', write_sequence')
    BY <2>1, <2>4 DEF Number
  <2>6. \A n \in records' : n < Number(w_epoch' - 1, last_write_sequence')
    BY <2>1, <2>2, <2>3 DEF Number
  <2> QED
    BY <2>1, <2>5, <2>6 DEF SealInv
<1>4. CASE dtls1_set_read_state \/ \E num \in records \cup Injected, type \in Type : dtls_open_record(num, type)
  BY <1>1, <1>4 DEF dtls1_set_read_state, dtls_open_record
<1>5. CASE UNCHANGED recordVars
  BY <1>1, <1>5 DEF recordVars
<1> QED
  BY <1>2, <1>3, <1>4, <1>5 DEF RecordNext

\* dtls_seal_record uses no number twice under a context, as long as it has
\* not reported an overflow.
THEOREM NumbersAreFresh == RecordSpec => []NumbersNotReused
<1>1. RecordInit => SealInv
  BY FS_EmptySet DEF RecordInit, SealInv
<1>2. SealInv => NumbersNotReused
  BY DEF SealInv, NumbersNotReused
<1> QED
  BY <1>1, <1>2, RecordTypeCorrect, SealInductive, PTL DEF RecordSpec
===============================================================================
