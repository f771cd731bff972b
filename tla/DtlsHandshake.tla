---------------------------- MODULE DtlsHandshake ----------------------------
(***************************************************************************)
(* The DTLS 1.2 handshake transport between a client and a server           *)
(* (ssl/d1_both.cc, ssl/d1_lib.cc, ssl/d1_pkt.cc, ssl/dtls_method.cc, run by*)
(* ssl_run_handshake): flights of messages cut into fragments, reassembly   *)
(* in slots, ChangeCipherSpec and the change of epoch, timeouts, and the    *)
(* retransmission of the last flight after the handshake.                   *)
(*                                                                         *)
(* The network loses, delays, reorders and repeats records: net[e] holds    *)
(* every record ever sent to e.  The record layer would drop the repeated   *)
(* ones (DtlsRecord); nothing here relies on it.  A record travels in a     *)
(* packet of its own: packing several in a datagram only makes them share   *)
(* one fate.                                                                *)
(***************************************************************************)
EXTENDS Integers, Sequences

CONSTANTS
  Flight,            \* SSL_MAX_HANDSHAKE_FLIGHT (7 in the code)
  MaxTimeouts,       \* DTLS1_MAX_TIMEOUTS (12)
  MtuTimeouts,       \* DTLS1_MTU_TIMEOUTS (2)
  Mtu,               \* body bytes that fit in a record at first
  FallbackMtu,       \* and with the fallback MTU of the BIO
  MaxBlock           \* bound: BIO_write and BIO_flush calls that fail

ASSUME HandshakeAssumption ==
  /\ Flight \in Nat /\ Flight >= 3    \* no flight below is longer
  /\ MaxTimeouts \in Nat /\ MtuTimeouts \in Nat
  /\ Mtu \in Nat \ {0} /\ FallbackMtu \in 1..Mtu /\ MaxBlock \in Nat

VARIABLES
  resume,    \* whether the handshake resumes a session; both ends agree on it
  pc,        \* pc[e]: position of the endpoint in its handshake
  status,    \* "run", "done", "timeout" (SSL_R_READ_TIMEOUT_EXPIRED) or "fatal"
  inc,       \* inc[e]: read side: r_epoch, read_seq, has_change_cipher_spec, slot
  out,       \* out[e]: write side: w_epoch, write_seq, the flight and how far it is sent
  timer,     \* timer[e]: whether next_timeout is set, num_timeouts, and the mtu
  blocked,   \* history: how often BIO_write or BIO_flush failed
  net        \* net[e]: the records sent to e

vars == <<resume, pc, status, inc, out, timer, blocked, net>>

Client == "client"
Server == "server"
End == {Client, Server}

Peer(e) == IF e = Client THEN Server ELSE Client

-----------------------------------------------------------------------------
(* The handshakes: what handshake_client.cc and handshake_server.cc ask of  *)
(* the transport.  In a full handshake the server's hello stands for        *)
(* ServerHello..ServerKeyExchange, the empty message for ServerHelloDone,   *)
(* and a session ticket comes before its Finished.  A resumed one reverses  *)
(* the last two flights.                                                    *)

Add(len) == [do |-> "add", len |-> len, fin |-> FALSE]
AddFinished(len) == [do |-> "add", len |-> len, fin |-> TRUE]
Do(what) == [do |-> what]

ClientScript ==
  IF resume
  THEN <<Add(1), Do("flush"), Do("recv"), Do("read_ccs"), Do("recv"),
         Do("ccs"), AddFinished(1), Do("flush"), Do("finish")>>
  ELSE <<Add(1), Do("flush"), Do("recv"), Do("recv"),
         Add(1), Do("ccs"), AddFinished(1), Do("flush"),
         Do("recv"), Do("read_ccs"), Do("recv"), Do("finish")>>

ServerScript ==
  IF resume
  THEN <<Do("recv"), Add(2), Do("ccs"), AddFinished(2), Do("flush"),
         Do("read_ccs"), Do("recv"), Do("finish")>>
  ELSE <<Do("recv"), Add(2), Add(0), Do("flush"),
         Do("recv"), Do("read_ccs"), Do("recv"),
         Add(1), Do("ccs"), AddFinished(2), Do("flush"), Do("finish")>>

Script(e) == IF e = Client THEN ClientScript ELSE ServerScript

At(e, what) == status[e] = "run" /\ Script(e)[pc[e]].do = what

Advance(e) == pc' = [pc EXCEPT ![e] = @ + 1]

None == [seq |-> -1, len |-> 0, got |-> {}]

Init ==
  /\ resume \in BOOLEAN
  /\ pc = [e \in End |-> 1]
  /\ status = [e \in End |-> "run"]
  /\ inc = [e \in End |-> [r_epoch |-> 0, read_seq |-> 0, ccs |-> FALSE,
                           slot |-> [i \in 0..(Flight - 1) |-> None]]]
  /\ out = [e \in End |-> [w_epoch |-> 0, write_seq |-> 0, msgs |-> <<>>, written |-> 0,
                           offset |-> 0, complete |-> FALSE, has_reply |-> FALSE]]
  /\ timer = [e \in End |-> [on |-> FALSE, num |-> 0, mtu |-> Mtu]]
  /\ blocked = 0
  /\ net = [e \in End |-> {}]

-----------------------------------------------------------------------------
(* Sending.                                                                 *)

StopTimer(t) == [t EXCEPT !.on = FALSE, !.num = 0]

\* dtls_clear_outgoing_messages
Cleared(o) ==
  [o EXCEPT !.msgs = <<>>, !.written = 0, !.offset = 0, !.complete = FALSE, !.has_reply = FALSE]

\* add_outgoing.  The handshakes follow a ChangeCipherSpec by the change of
\* the write state at once (dtls1_set_write_state): is_ccs stands for both.
add_outgoing(e, len, fin, is_ccs) ==
  LET o == IF out[e].complete THEN Cleared(out[e]) ELSE out[e] IN
  /\ timer' = IF out[e].complete THEN [timer EXCEPT ![e] = StopTimer(@)] ELSE timer
  /\ IF Len(o.msgs) >= Flight
     THEN /\ status' = [status EXCEPT ![e] = "fatal"]
          /\ out' = [out EXCEPT ![e] = o]
          /\ UNCHANGED pc
     ELSE /\ out' = [out EXCEPT ![e] =
               [o EXCEPT !.msgs = Append(@, [seq |-> o.write_seq, len |-> len, fin |-> fin,
                                             epoch |-> o.w_epoch, ccs |-> is_ccs]),
                         !.write_seq = IF is_ccs THEN @ ELSE @ + 1,
                         !.w_epoch = IF is_ccs THEN @ + 1 ELSE @]]
          /\ Advance(e)
          /\ UNCHANGED status
  /\ UNCHANGED <<inc, blocked, net>>

AddMessage(e) ==
  \/ /\ At(e, "add")
     /\ add_outgoing(e, Script(e)[pc[e]].len, Script(e)[pc[e]].fin, FALSE)
  \/ At(e, "ccs") /\ add_outgoing(e, 0, FALSE, TRUE)

\* the offsets at which seal_next_message starts a fragment of msg; that records
\* which share a packet leave less room for the next is left out: reassembly takes
\* the union of the ranges, wherever they were cut
Cuts(msg, from, mtu) ==
  IF msg.len = 0 THEN {0} ELSE {x \in from..(msg.len - 1) : (x - from) % mtu = 0}

\* places <<i, x>> of the flight, in the order of sending, from <<w, off>> on
Places(o, w, off, mtu) ==
  UNION {{<<i, x>> : x \in Cuts(o.msgs[i + 1], IF i = w THEN off ELSE 0, mtu)} :
           i \in w..(Len(o.msgs) - 1)}

Before(p, q) == p[1] < q[1] \/ (p[1] = q[1] /\ p[2] < q[2])

Record(o, p, mtu) ==
  LET msg == o.msgs[p[1] + 1] IN
  [epoch |-> msg.epoch, ccs |-> msg.ccs, seq |-> msg.seq, fin |-> msg.fin, len |-> msg.len,
   off |-> p[2], n |-> IF msg.len - p[2] > mtu THEN mtu ELSE msg.len - p[2]]

\* the place past the last message: nothing is left to send
PastEnd(o) == <<Len(o.msgs), 0>>

\* send_flight of o, from o.written and o.offset, ends at a place stop whose
\* packet BIO_write refused, or at the end; the records before stop are out
CanStop(o, stop, mtu) == stop \in Places(o, o.written, o.offset, mtu) \cup {PastEnd(o)}

Sent(o, stop, mtu) ==
  {Record(o, p, mtu) : p \in {x \in Places(o, o.written, o.offset, mtu) : Before(x, stop)}}

SentUpTo(o, stop) == [o EXCEPT !.written = stop[1], !.offset = stop[2]]

Stops == (0..Flight) \X (0..2)

\* a call to BIO_write or BIO_flush fails, at most MaxBlock times
Block(fails) ==
  /\ fails => blocked < MaxBlock
  /\ blocked' = IF fails THEN blocked + 1 ELSE blocked

\* Faulty variant: no timer is started for the flight.
FlushNoTimer(e) ==
  LET o == [out[e] EXCEPT !.complete = TRUE] IN
  /\ At(e, "flush")
  /\ out' = [out EXCEPT ![e] = SentUpTo(o, PastEnd(o))]
  /\ net' = [net EXCEPT ![Peer(e)] = @ \cup Sent(o, PastEnd(o), timer[e].mtu)]
  /\ Advance(e)
  /\ UNCHANGED <<status, inc, timer, blocked>>

\* dtls1_flush_flight; on WANT_WRITE the caller comes back to it
dtls1_flush_flight(e) ==
  LET o == [out[e] EXCEPT !.complete = TRUE] IN
  /\ At(e, "flush")
  /\ timer' = [timer EXCEPT ![e].on = TRUE]
  /\ \E stop \in Stops, flushed \in BOOLEAN :
       /\ CanStop(o, stop, timer[e].mtu)
       /\ flushed => stop = PastEnd(o)
       /\ Block(~flushed)
       /\ out' = [out EXCEPT ![e] = SentUpTo(o, stop)]
       /\ net' = [net EXCEPT ![Peer(e)] = @ \cup Sent(o, stop, timer[e].mtu)]
       /\ pc' = IF flushed THEN [pc EXCEPT ![e] = @ + 1] ELSE pc
  /\ UNCHANGED <<status, inc>>

\* the MTU after dtls1_check_timeout_num has counted num timeouts
Mtus(e, num) == IF num > MtuTimeouts THEN {timer[e].mtu, FallbackMtu} ELSE {timer[e].mtu}

\* dtls1_retransmit_outgoing_messages: from the start of the flight, the
\* result ignored
dtls1_retransmit_outgoing_messages(e, mtu) ==
  LET o == [out[e] EXCEPT !.written = 0, !.offset = 0] IN
  \E stop \in Stops :
    /\ CanStop(o, stop, mtu)
    /\ Block(stop # PastEnd(o))
    /\ out' = [out EXCEPT ![e] = SentUpTo(o, stop)]
    /\ net' = [net EXCEPT ![Peer(e)] = @ \cup Sent(o, stop, mtu)]

\* DTLSv1_handle_timeout: the timer may have expired whenever it is set; the
\* doubling of its duration is left out with the clock.  ssl_run_handshake
\* does not return to its caller between the last step and the end.
DTLSv1_handle_timeout(e) ==
  LET num == timer[e].num + 1 IN
  /\ status[e] \in {"run", "done"} /\ timer[e].on /\ ~At(e, "finish")
  /\ \E mtu \in Mtus(e, num) :
       /\ timer' = [timer EXCEPT ![e] = [on |-> TRUE, num |-> num, mtu |-> mtu]]
       /\ \/ /\ num > MaxTimeouts
             /\ status' = [status EXCEPT ![e] = "timeout"]
             /\ UNCHANGED <<out, net, blocked>>
          \/ /\ num <= MaxTimeouts
             /\ dtls1_retransmit_outgoing_messages(e, mtu)
             /\ UNCHANGED status
  /\ UNCHANGED <<resume, pc, inc>>

-----------------------------------------------------------------------------
(* Receiving.                                                               *)

SlotOf(seq) == seq % Flight

\* dtls1_get_incoming_message and dtls1_hm_fragment_mark
Mark(f, r) ==
  LET bytes == r.off..(r.off + r.n - 1) IN
  IF f = None THEN [seq |-> r.seq, len |-> r.len, got |-> bytes]
  ELSE [f EXCEPT !.got = @ \cup bytes]

Complete(f) == f # None /\ f.got = 0..(f.len - 1)

\* dtls1_is_current_message_complete
CurrentComplete(e) == Complete(inc[e].slot[SlotOf(inc[e].read_seq)])

\* ssl_run_handshake and SSL_read: when the endpoint reads a record
Reading(e) ==
  \/ At(e, "recv") /\ ~CurrentComplete(e)
  \/ At(e, "read_ccs") /\ ~inc[e].ccs

Fatal(e) == status' = [status EXCEPT ![e] = "fatal"] /\ UNCHANGED inc

Ignore == UNCHANGED <<status, inc>>

Store(e, r) ==
  /\ inc' = [inc EXCEPT ![e].slot[SlotOf(r.seq)] = Mark(@, r)]
  /\ UNCHANGED status

FlagCcs(e) == inc' = [inc EXCEPT ![e].ccs = TRUE] /\ UNCHANGED status

\* Faulty variant: messages before handshake_read_seq are stored, and strays
\* are not looked at.
OpenStoresPast(e, r) ==
  \/ r.ccs /\ FlagCcs(e)
  \/ ~r.ccs /\ r.seq - inc[e].read_seq < Flight /\ Store(e, r)
  \/ ~r.ccs /\ r.seq - inc[e].read_seq >= Flight /\ Ignore

\* dtls1_open_handshake of a record that the record layer opened
dtls1_open_handshake(e, r) ==
  LET f == inc[e].slot[SlotOf(r.seq)]
      stray == inc[e].r_epoch = 1 /\ r.seq # inc[e].read_seq
      outside == r.seq < inc[e].read_seq \/ r.seq - inc[e].read_seq >= Flight
      mismatch == f # None /\ (f.seq # r.seq \/ f.len # r.len)
  IN
  \/ r.ccs /\ inc[e].r_epoch = 0 /\ FlagCcs(e)
  \/ r.ccs /\ inc[e].r_epoch > 0 /\ Fatal(e)
  \/ ~r.ccs /\ stray /\ Fatal(e)
  \/ ~r.ccs /\ ~stray /\ outside /\ Ignore
  \/ ~r.ccs /\ ~stray /\ ~outside /\ mismatch /\ Fatal(e)
  \/ ~r.ccs /\ ~stray /\ ~outside /\ ~mismatch /\ Complete(f) /\ Ignore
  \/ ~r.ccs /\ ~stray /\ ~outside /\ ~mismatch /\ ~Complete(f) /\ Store(e, r)

\* dtls1_open_app_data: the peer's Finished again, so ours may be lost
RepeatedFinished(e, r) == ~r.ccs /\ r.fin /\ r.seq = inc[e].read_seq - 1

dtls1_open_app_data(e, r) ==
  LET num == timer[e].num + 1 IN
  \/ /\ RepeatedFinished(e, r) /\ r.off = 0 /\ num <= MaxTimeouts
     /\ \E mtu \in Mtus(e, num) :
          /\ timer' = [timer EXCEPT ![e].num = num, ![e].mtu = mtu]
          /\ dtls1_retransmit_outgoing_messages(e, mtu)
     /\ Ignore
  \/ /\ RepeatedFinished(e, r) /\ r.off = 0 /\ num > MaxTimeouts
     /\ timer' = [timer EXCEPT ![e].num = num]
     /\ status' = [status EXCEPT ![e] = "timeout"]
     /\ UNCHANGED <<inc, out, blocked, net>>
  \/ ~RepeatedFinished(e, r) /\ Fatal(e) /\ UNCHANGED <<out, timer, blocked, net>>
  \/ RepeatedFinished(e, r) /\ r.off # 0 /\ Ignore /\ UNCHANGED <<out, timer, blocked, net>>

\* The endpoint reads a record; one of another epoch is dropped by
\* dtls_open_record.
Receive(e, r) ==
  /\ \/ /\ Reading(e) /\ r.epoch = inc[e].r_epoch
        /\ dtls1_open_handshake(e, r)
        /\ UNCHANGED <<out, timer, blocked, net>>
     \/ /\ status[e] = "done" /\ r.epoch = inc[e].r_epoch
        /\ dtls1_open_app_data(e, r)
     \/ /\ Reading(e) \/ status[e] = "done"
        /\ r.epoch # inc[e].r_epoch
        /\ Ignore /\ UNCHANGED <<out, timer, blocked, net>>
  /\ UNCHANGED <<resume, pc>>

\* dtls1_get_message and, once the handshake has handled it, dtls1_next_message
dtls1_next_message(e) ==
  /\ At(e, "recv") /\ CurrentComplete(e)
  /\ inc' = [inc EXCEPT ![e].slot[SlotOf(inc[e].read_seq)] = None, ![e].read_seq = @ + 1]
  /\ out' = [out EXCEPT ![e].has_reply = @ \/ out[e].complete]
  /\ Advance(e)
  /\ UNCHANGED <<status, timer, blocked, net>>

\* dtls1_open_change_cipher_spec with the flag set, and dtls1_set_read_state,
\* which refuses to leave messages behind in the old epoch
SetReadState(e) ==
  /\ At(e, "read_ccs") /\ inc[e].ccs
  /\ \/ /\ \A i \in 0..(Flight - 1) : inc[e].slot[i] = None
        /\ inc' = [inc EXCEPT ![e].ccs = FALSE, ![e].r_epoch = @ + 1]
        /\ Advance(e) /\ UNCHANGED status
     \/ /\ \E i \in 0..(Flight - 1) : inc[e].slot[i] # None
        /\ inc' = [inc EXCEPT ![e].ccs = FALSE]
        /\ status' = [status EXCEPT ![e] = "fatal"] /\ UNCHANGED pc
  /\ UNCHANGED <<out, timer, blocked, net>>

\* Faulty variant: the last flight is dropped by either end.
CompleteAlwaysClears(e) ==
  /\ At(e, "finish")
  /\ timer' = [timer EXCEPT ![e] = StopTimer(@)]
  /\ out' = [out EXCEPT ![e] = Cleared(@)]
  /\ status' = [status EXCEPT ![e] = "done"]
  /\ UNCHANGED <<pc, inc, blocked, net>>

dtls1_on_handshake_complete(e) ==
  /\ At(e, "finish")
  /\ timer' = [timer EXCEPT ![e] = StopTimer(@)]
  /\ out' = [out EXCEPT ![e] = IF @.has_reply THEN Cleared(@) ELSE @]
  /\ status' = [status EXCEPT ![e] = "done"]
  /\ UNCHANGED <<pc, inc, blocked, net>>

\* what the caller of SSL_do_handshake makes the endpoint do, without a record
Run(e) ==
  /\ \/ AddMessage(e)
     \/ dtls1_flush_flight(e)
     \/ dtls1_next_message(e)
     \/ SetReadState(e)
     \/ dtls1_on_handshake_complete(e)
  /\ UNCHANGED resume

Next ==
  \E e \in End :
    \/ Run(e)
    \/ DTLSv1_handle_timeout(e)
    \/ \E r \in net[e] : Receive(e, r)

Spec == Init /\ [][Next]_vars

\* The caller keeps driving both ends: it calls SSL_do_handshake again and
\* DTLSv1_handle_timeout when the timer expires.  Nothing is assumed of the
\* network.
FairSpec ==
  Spec /\ \A e \in End : WF_vars(Run(e)) /\ WF_vars(DTLSv1_handle_timeout(e))

-----------------------------------------------------------------------------
(* Properties.                                                              *)

\* Both sides of an endpoint stay in their ranges: the flight fits its array,
\* the place reached is in the flight (d1_both.cc).
TypeOK ==
  \A e \in End :
    /\ pc[e] \in 1..Len(Script(e))
    /\ status[e] \in {"run", "done", "timeout", "fatal"}
    /\ inc[e].r_epoch \in 0..1 /\ out[e].w_epoch \in 0..1
    /\ Len(out[e].msgs) <= Flight /\ out[e].written \in 0..Len(out[e].msgs)
    /\ timer[e].num \in 0..(MaxTimeouts + 1) /\ timer[e].mtu \in {Mtu, FallbackMtu}
    /\ blocked \in 0..MaxBlock

\* Slots are reused modulo SSL_MAX_HANDSHAKE_FLIGHT: a slot holds a message
\* of the window that starts at handshake_read_seq, in its place (the assert
\* of dtls1_get_incoming_message, frag->seq == msg_hdr->seq).
SlotsMatch ==
  \A e \in End : \A i \in 0..(Flight - 1) :
    LET f == inc[e].slot[i] IN
    f # None => /\ f.seq \in inc[e].read_seq..(inc[e].read_seq + Flight - 1)
                /\ SlotOf(f.seq) = i

\* No loss, delay or reordering makes two honest endpoints fail each other:
\* the fatal paths of dtls1_open_handshake, dtls1_open_app_data and
\* dtls1_set_read_state are never taken, retransmissions of either epoch and
\* of other fragment sizes included, and the asserts of d1_both.cc hold.
NoSpuriousFailure ==
  /\ TypeOK
  /\ SlotsMatch
  /\ \A e \in End : status[e] # "fatal"

\* dtls1_on_handshake_complete: "we must leave the flight around for
\* post-handshake retransmission".  As long as one end waits and the other is
\* done, the one that is done has the flight with its Finished and the one that
\* waits still has the flight with the Finished that asks for it.
LastFlightKept ==
  \A e \in End :
    status[e] = "done" /\ (At(Peer(e), "recv") \/ At(Peer(e), "read_ccs"))
      => \A x \in End : \E i \in DOMAIN out[x].msgs : out[x].msgs[i].fin

\* The client's handshake ends, established or given up, whatever the network
\* loses and when a write blocks; so does the server's once it has read the
\* first message (dtls1_flush_flight sets the timer, DTLSv1_handle_timeout
\* counts).  Nobody is left waiting without a timer.
BothEnd ==
  /\ <>(status[Client] # "run")
  /\ pc[Server] > 1 ~> status[Server] # "run"
=============================================================================
