------------------------------- MODULE ErrLog -------------------------------
(***************************************************************************)
(* What the error queue of a thread promises, without its ring buffer and  *)
(* its memory: the last Capacity errors in order, each with optional text  *)
(* and a mark.                                                             *)
(***************************************************************************)
EXTENDS Naturals, Sequences

CONSTANTS Err,      \* packed library and reason
          Text,     \* what callers attach to errors
          NoText,
          Capacity, \* ERR_NUM_ERRORS - 1
          MaxDepth  \* bound: nested suppression scopes

VARIABLES log,   \* the errors, the least recent first
          saved, \* the errors of an ERR_SAVE_STATE
          depth, \* open suppression scopes
          ret    \* what the last call returned

logVars == <<log, saved, depth, ret>>

Entry == [packed : Err, text : Text \cup {NoText}, mark : BOOLEAN]
Unmarked(e) == [e EXCEPT !.mark = FALSE]
LastN(s, n) == IF Len(s) <= n THEN s ELSE SubSeq(s, Len(s) - n + 1, Len(s))

LogInit == log = <<>> /\ saved = <<>> /\ depth = 0 /\ ret = 0

\* A new error drops the least recent one when there are Capacity already.
Put(e) ==
  /\ depth = 0
  /\ log' = LastN(Append(log, [packed |-> e, text |-> NoText, mark |-> FALSE]),
                  Capacity)
  /\ UNCHANGED <<saved, depth, ret>>

SetText(x) ==
  /\ depth = 0 /\ log # <<>>
  /\ log' = [log EXCEPT ![Len(log)].text = x]
  /\ UNCHANGED <<saved, depth, ret>>

Get == 
  /\ log # <<>>
  /\ ret' = Head(log).packed
  /\ log' = Tail(log)
  /\ UNCHANGED <<saved, depth>>

Peek(i) ==
  /\ i \in DOMAIN log
  /\ ret' = log[i].packed
  /\ UNCHANGED <<log, saved, depth>>

\* Zero from a call that found the queue empty.
GetNothing ==
  /\ log = <<>> /\ ret' = 0
  /\ UNCHANGED <<log, saved, depth>>

Clear == log' = <<>> /\ UNCHANGED <<saved, depth, ret>>

Mark ==
  /\ log # <<>>
  /\ log' = [log EXCEPT ![Len(log)].mark = TRUE]
  /\ ret' = 1
  /\ UNCHANGED <<saved, depth>>

\* Everything after the last mark goes, and the mark; without one, all goes.
PopToMark ==
  /\ \/ \E i \in DOMAIN log :
          /\ log[i].mark /\ \A j \in i + 1 .. Len(log) : ~ log[j].mark
          /\ log' = [SubSeq(log, 1, i) EXCEPT ![i] = Unmarked(@)]
          /\ ret' = 1
     \/ /\ \A i \in DOMAIN log : ~ log[i].mark
        /\ log' = <<>> /\ ret' = 0
  /\ UNCHANGED <<saved, depth>>

\* Marks are not saved; a text is lost when it cannot be copied.
Save ==
  /\ \/ /\ Len(saved') = Len(log)
        /\ \A i \in DOMAIN log :
              saved'[i] \in {[packed |-> log[i].packed, text |-> x, mark |-> FALSE] :
                               x \in {log[i].text, NoText}}
     \/ saved' = <<>>
  /\ UNCHANGED <<log, depth, ret>>

FreeSaved == saved' = <<>> /\ UNCHANGED <<log, depth, ret>>

Restore ==
  /\ Len(log') = Len(saved)
  /\ \A i \in DOMAIN saved :
        log'[i] \in {[saved[i] EXCEPT !.text = x] : x \in {saved[i].text, NoText}}
  /\ UNCHANGED <<saved, depth, ret>>

Begin == depth < MaxDepth /\ depth' = depth + 1 /\ ret' = 1 /\ UNCHANGED <<log, saved>>
End == depth > 0 /\ depth' = depth - 1 /\ UNCHANGED <<log, saved, ret>>

\* The thread ends, or its thread-local storage is cleared.
Exit == log' = <<>> /\ depth' = 0 /\ UNCHANGED <<saved, ret>>

LogNext ==
  \/ \E e \in Err : Put(e)
  \/ \E x \in Text : SetText(x)
  \/ \E i \in DOMAIN log : Peek(i)
  \/ Get \/ GetNothing \/ Clear \/ Mark \/ PopToMark
  \/ Save \/ FreeSaved \/ Restore \/ Begin \/ End \/ Exit

LogSpec == LogInit /\ [][LogNext]_logVars
=============================================================================
