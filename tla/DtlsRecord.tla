----------------------------- MODULE DtlsRecord -----------------------------
(***************************************************************************)
(* The DTLS record layer in one direction (ssl/dtls_record.cc, with the     *)
(* epoch changes of ssl/dtls_method.cc and the alerts of ssl/tls_record.cc):*)
(* a sender that numbers and seals records, the receiver with its replay    *)
(* window, and between them a datagram network that loses, duplicates,      *)
(* delays and reorders, and that also carries records the peer never sent.  *)
(*                                                                          *)
(* Names that DtlsHandshake has too carry a prefix, so that a module can    *)
(* extend both.                                                             *)
(***************************************************************************)
EXTENDS Integers, FiniteSets

CONSTANTS
  SeqMod,      \* sequence numbers of an epoch (2^48 in the code)
  Window,      \* bits of DTLS1_BITMAP (256 in the code)
  MaxEpoch,    \* bound: cipher changes of a connection
  Injected,    \* bound: numbers of records that did not come from the peer
  kMaxWarningAlerts

ASSUME RecordAssumption ==
  /\ SeqMod \in Nat /\ Window \in Nat /\ 0 < Window /\ Window <= SeqMod
  /\ MaxEpoch \in Nat
  /\ Injected \subseteq 0..((MaxEpoch + 1) * SeqMod - 1)
  /\ kMaxWarningAlerts \in Nat

VARIABLES
  w_epoch, write_sequence, last_write_sequence,   \* the sender
  overflowed,   \* a seal failed with ERR_R_OVERFLOW
  records,      \* every record sealed so far: it may still arrive, again
  sealed,       \* history: number of records sealed before the first overflow
  r_epoch, max_seq_num, map,                      \* the receiver
  read_shutdown, warning_alert_count,
  acc,          \* history: numbers of the records opened
  opened        \* history: how many times a record was opened

sender == <<w_epoch, write_sequence, last_write_sequence, overflowed, records, sealed>>
receiver == <<r_epoch, max_seq_num, map, read_shutdown, warning_alert_count, acc, opened>>
recordVars == <<sender, receiver>>

\* A record on the wire is its 64-bit number, 16 bits of epoch and 48 of
\* sequence, read by to_u64_be, and the AEAD context that sealed it, which is
\* the one of its epoch.
Number(epoch, seq) == epoch * SeqMod + seq

AllNumbers == 0..((MaxEpoch + 1) * SeqMod - 1)

RecordInit ==
  /\ w_epoch = 0 /\ write_sequence = 0 /\ last_write_sequence = 0
  /\ overflowed = FALSE /\ records = {} /\ sealed = 0
  /\ r_epoch = 0 /\ max_seq_num = 0 /\ map = [i \in 0..(Window - 1) |-> FALSE]
  /\ read_shutdown = "none" /\ warning_alert_count = 0
  /\ acc = {} /\ opened = 0

-----------------------------------------------------------------------------
(* The sender.                                                              *)

\* ssl_record_sequence_update: the counter wraps to 0 and reports it
ssl_record_sequence_update(seq) == (seq + 1) % SeqMod

Overflows(seq) == seq + 1 = SeqMod

\* Faulty variant: the previous epoch is sealed with the counter of
\* the current one.
SealPreviousWithCurrent(previous) ==
  LET seq == write_sequence IN
  /\ previous => w_epoch >= 1
  /\ overflowed' = (overflowed \/ Overflows(seq))
  /\ records' = IF Overflows(seq) THEN records
                ELSE records \cup {Number(IF previous THEN w_epoch - 1 ELSE w_epoch, seq)}
  /\ sealed' = IF overflowed' THEN sealed ELSE sealed + 1
  /\ IF previous
     THEN /\ last_write_sequence' = ssl_record_sequence_update(seq)
          /\ UNCHANGED write_sequence
     ELSE /\ write_sequence' = ssl_record_sequence_update(seq)
          /\ UNCHANGED last_write_sequence
  /\ UNCHANGED <<w_epoch, receiver>>

\* dtls_seal_record: previous is dtls1_use_previous_epoch, for messages of a
\* flight that straddles ChangeCipherSpec
dtls_seal_record(previous) ==
  LET seq == IF previous THEN last_write_sequence ELSE write_sequence IN
  /\ previous => w_epoch >= 1
  /\ overflowed' = (overflowed \/ Overflows(seq))
  /\ records' = IF Overflows(seq) THEN records
                ELSE records \cup {Number(IF previous THEN w_epoch - 1 ELSE w_epoch, seq)}
  /\ sealed' = IF overflowed' THEN sealed ELSE sealed + 1
  /\ IF previous
     THEN /\ last_write_sequence' = ssl_record_sequence_update(seq)
          /\ UNCHANGED write_sequence
     ELSE /\ write_sequence' = ssl_record_sequence_update(seq)
          /\ UNCHANGED last_write_sequence
  /\ UNCHANGED <<w_epoch, receiver>>

dtls1_set_write_state ==
  /\ w_epoch < MaxEpoch
  /\ w_epoch' = w_epoch + 1
  /\ last_write_sequence' = write_sequence
  /\ write_sequence' = 0
  /\ UNCHANGED <<overflowed, records, sealed, receiver>>

-----------------------------------------------------------------------------
(* The receiver.                                                            *)

\* Faulty variant: a record older than the window is not stale.
DiscardNoOldest(num) ==
  num <= max_seq_num /\ max_seq_num - num <= Window - 1 /\ map[max_seq_num - num]

dtls1_bitmap_should_discard(num) ==
  /\ num <= max_seq_num
  /\ max_seq_num - num >= Window \/ map[max_seq_num - num]

\* bitmap->map <<= shift
Shift(shift) ==
  [i \in 0..(Window - 1) |-> IF i >= shift THEN map[i - shift] ELSE FALSE]

dtls1_bitmap_record(num) ==
  LET top == IF num > max_seq_num THEN num ELSE max_seq_num
      slid == IF num > max_seq_num THEN Shift(num - max_seq_num) ELSE map
      idx == top - num
  IN /\ max_seq_num' = top
     /\ map' = IF idx < Window THEN [slid EXCEPT ![idx] = TRUE] ELSE slid

\* SSLAEADContext::Open as an ideal AEAD: epoch 0 has the null cipher, which
\* opens anything; from epoch 1 on only what the peer sealed opens.
Open(num) == r_epoch = 0 \/ num \in records

\* the content type, inside the protection, decides what is done with it
ssl_process_alert(type) ==
  \/ /\ type = "close_notify"
     /\ read_shutdown' = "close_notify"
     /\ UNCHANGED warning_alert_count
  \/ /\ type = "warning"
     /\ warning_alert_count' = warning_alert_count + 1
     /\ read_shutdown' = IF warning_alert_count + 1 > kMaxWarningAlerts
                         THEN "error" ELSE read_shutdown
  \/ /\ type = "fatal"
     /\ read_shutdown' = "error"
     /\ UNCHANGED warning_alert_count

\* Faulty variant: the window moves before the record has authenticated.
OpenRecordsForged(num, type) ==
  /\ read_shutdown = "none"
  /\ num \div SeqMod = r_epoch /\ ~dtls1_bitmap_should_discard(num)
  /\ dtls1_bitmap_record(num)
  /\ acc' = IF Open(num) THEN acc \cup {num} ELSE acc
  /\ opened' = IF Open(num) THEN opened + 1 ELSE opened
  /\ UNCHANGED <<sender, r_epoch, read_shutdown, warning_alert_count>>

\* dtls_open_record of a record that passes every test, with ssl_open_app_data
\* and its siblings, which keep the error for later calls.  All the other
\* outcomes discard the record and change nothing.
dtls_open_record(num, type) ==
  /\ read_shutdown = "none"
  /\ num \div SeqMod = r_epoch /\ ~dtls1_bitmap_should_discard(num)
  /\ Open(num)
  /\ IF type = "too_long"
     THEN /\ read_shutdown' = "error"
          /\ UNCHANGED <<max_seq_num, map, warning_alert_count, acc, opened>>
     ELSE /\ dtls1_bitmap_record(num)
          /\ acc' = acc \cup {num}
          /\ opened' = opened + 1
          /\ \/ ssl_process_alert(type)
             \/ /\ type = "data"
                /\ warning_alert_count' = 0
                /\ UNCHANGED read_shutdown
  /\ UNCHANGED <<sender, r_epoch>>

\* a new epoch starts with an empty window; its handshake-level guard is in
\* the handshake transport
dtls1_set_read_state ==
  /\ r_epoch < MaxEpoch /\ read_shutdown = "none"
  /\ r_epoch' = r_epoch + 1
  /\ max_seq_num' = 0
  /\ map' = [i \in 0..(Window - 1) |-> FALSE]
  /\ UNCHANGED <<sender, read_shutdown, warning_alert_count, acc, opened>>

Type == {"data", "close_notify", "warning", "fatal", "too_long"}

RecordNext ==
  \/ \E previous \in BOOLEAN : dtls_seal_record(previous)
  \/ dtls1_set_write_state
  \/ \E num \in records \cup Injected, type \in Type : dtls_open_record(num, type)
  \/ dtls1_set_read_state

RecordSpec == RecordInit /\ [][RecordNext]_recordVars

-----------------------------------------------------------------------------
(* Properties.                                                              *)

\* The record layer's counters stay in their ranges: sequence numbers below
\* the wrap, the highest number seen inside the epochs there are, at most
\* one warning past the limit (dtls_record.cc, ssl_process_alert).
RecordTypeOK ==
  /\ w_epoch \in 0..MaxEpoch /\ r_epoch \in 0..MaxEpoch
  /\ write_sequence \in 0..(SeqMod - 1) /\ last_write_sequence \in 0..(SeqMod - 1)
  /\ overflowed \in BOOLEAN
  /\ records \subseteq AllNumbers /\ sealed \in Nat
  /\ max_seq_num \in AllNumbers
  /\ map \in [0..(Window - 1) -> BOOLEAN]
  /\ read_shutdown \in {"none", "close_notify", "error"}
  /\ warning_alert_count \in 0..(kMaxWarningAlerts + 1)
  /\ acc \subseteq AllNumbers /\ opened \in Nat

\* No record is opened twice, whatever the network repeats, delays or makes
\* up, across window slides and changes of epoch: as many records were handed
\* up as there are numbers among them (dtls1_bitmap_should_discard, "returns
\* one if seq_num has been seen in bitmap or is stale").
NoReplay == opened = Cardinality(acc)

\* The window is exact: a record of this epoch that has not been opened and
\* is not older than the window is never taken for a replay, so that the
\* window costs no record but the stale ones (dtls1_bitmap_record).
OnlyReplaysDiscarded ==
  \A num \in AllNumbers :
    num \div SeqMod = r_epoch /\ num \notin acc /\ num > max_seq_num - Window
      => ~dtls1_bitmap_should_discard(num)

\* No two records are sealed under the same context with the same sequence
\* number, with retransmissions of the previous epoch between those of the
\* current one, as long as no seal has reported the overflow of its counter
\* (dtls_seal_record, dtls1_set_write_state).
NumbersNotReused == ~overflowed => sealed = Cardinality(records)
=============================================================================
