----------------------------- MODULE BufferStore -----------------------------
(***************************************************************************)
(* What a CRYPTO_BUFFER promises to its users (include/openssl/pool.h):    *)
(* a request for some contents either fails or returns one reference to a  *)
(* buffer that holds exactly these contents, and the buffer keeps them for *)
(* as long as anybody owns a reference to it.  Pools, sharing, locks and   *)
(* reference counts are all hidden.                                        *)
(***************************************************************************)
EXTENDS Naturals

CONSTANTS
  Threads,   \* callers
  Bufs,      \* handles (addresses of CRYPTO_BUFFER objects)
  Data,      \* the byte strings a buffer may hold
  NoData     \* "nothing": no request pending, no contents visible

VARIABLES
  pending,   \* [Threads -> Data \cup {NoData}]: contents a caller is waiting for
  visible,   \* [Bufs -> Data \cup {NoData}]: what owners of the handle read
  owned      \* [Bufs -> Nat]: references the application owns

vars == <<pending, visible, owned>>

TypeOK ==
  /\ pending \in [Threads -> Data \cup {NoData}]
  /\ visible \in [Bufs -> Data \cup {NoData}]
  /\ owned \in [Bufs -> Nat]

Init ==
  /\ pending = [t \in Threads |-> NoData]
  /\ visible = [b \in Bufs |-> NoData]
  /\ owned = [b \in Bufs |-> 0]

\* A caller asks for a buffer with contents d.
Request(t, d) ==
  /\ pending[t] = NoData
  /\ pending' = [pending EXCEPT ![t] = d]
  /\ UNCHANGED <<visible, owned>>

\* The request returns NULL.
Fail(t) ==
  /\ pending[t] # NoData
  /\ pending' = [pending EXCEPT ![t] = NoData]
  /\ UNCHANGED <<visible, owned>>

\* The request returns handle b: shared with its other owners only if they
\* see the same contents.
Return(t, b) ==
  /\ pending[t] # NoData
  /\ visible[b] \in {NoData, pending[t]}
  /\ pending' = [pending EXCEPT ![t] = NoData]
  /\ visible' = [visible EXCEPT ![b] = pending[t]]
  /\ owned' = [owned EXCEPT ![b] = @ + 1]

\* An owner duplicates its reference.
UpRef(b) ==
  /\ owned[b] > 0
  /\ owned' = [owned EXCEPT ![b] = @ + 1]
  /\ UNCHANGED <<pending, visible>>

\* An owner gives a reference up; the last one takes the contents with it.
Release(b) ==
  /\ owned[b] > 0
  /\ owned' = [owned EXCEPT ![b] = @ - 1]
  /\ visible' = [visible EXCEPT ![b] = IF owned[b] = 1 THEN NoData ELSE @]
  /\ UNCHANGED pending

Next ==
  \/ \E t \in Threads : \/ \E d \in Data : Request(t, d)
                        \/ Fail(t)
                        \/ \E b \in Bufs : Return(t, b)
  \/ \E b \in Bufs : UpRef(b) \/ Release(b)

Spec == Init /\ [][Next]_vars
==============================================================================
