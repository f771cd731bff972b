------------------------------ MODULE ErrQueue ------------------------------
(***************************************************************************)
(* The error queue of one thread (crypto/err/err.c): a ring buffer of      *)
(* ERR_NUM_ERRORS slots in thread-local storage, the heap strings attached *)
(* to errors, a saved state and the depth of suppression.  The queue is    *)
(* thread-local, so calls do not interleave.  A call whose state cannot be *)
(* allocated changes nothing and is left out.                              *)
(***************************************************************************)
EXTENDS Integers, Sequences, FiniteSets

CONSTANTS Err,      \* packed library and reason, never 0
          Text,     \* what callers attach to errors
          NoText,
          N,        \* ERR_NUM_ERRORS
          Str,      \* heap addresses of strings
          Null,
          MaxDepth  \* bound: nested suppression scopes

ASSUME ErrAssumption ==
  /\ N \in Nat \ {0, 1} /\ MaxDepth \in Nat
  /\ Err \subseteq Nat \ {0} /\ NoText \notin Text /\ Null \notin Str

VARIABLES errors,   \* state->errors
          top, bottom,
          to_free,  \* state->to_free
          suppress, \* state->suppress
          saved,    \* the errors of an ERR_SAVE_STATE the caller holds
          heap,     \* what each string holds; NoText when it is free
          lent,     \* the data pointer the last call handed to the caller
          ret       \* what the last call returned

vars == <<errors, top, bottom, to_free, suppress, saved, heap, lent, ret>>

Blank == [packed |-> 0, data |-> Null, mark |-> FALSE]
Next1(i) == (i + 1) % N
Empty == top = bottom

\* free(NULL) is allowed.
Free(h, s) == IF s = Null THEN h ELSE [h EXCEPT ![s] = NoText]
FreeAll(h, S) == [s \in Str |-> IF s \in S THEN NoText ELSE h[s]]
DataOf(f) == {f[i].data : i \in DOMAIN f}

Init ==
  /\ errors = [i \in 0 .. N - 1 |-> Blank]
  /\ top = 0 /\ bottom = 0 /\ to_free = Null /\ suppress = 0
  /\ saved = <<>> /\ heap = [s \in Str |-> NoText]
  /\ lent = Null /\ ret = 0

----------------------------------------------------------------------------
\* Faulty variant: a full ring does not forget its oldest error.
BottomKept(t) == bottom

\* Where |bottom| is after an error went into slot t: when the ring is full
\* the least recent error is forgotten.
BottomAfter(t) == IF t = bottom THEN Next1(bottom) ELSE bottom

\* ERR_put_error outside a suppression scope.
ERR_put_error(e) ==
  LET t == Next1(top)
  IN  /\ suppress = 0
      /\ top' = t /\ bottom' = BottomAfter(t)
      /\ errors' = [errors EXCEPT ![t] = [Blank EXCEPT !.packed = e]]
      /\ heap' = Free(heap, errors[t].data)
      /\ lent' = Null
      /\ UNCHANGED <<to_free, suppress, saved, ret>>

\* Faulty variant: data is attached while errors are suppressed.
SetDataAlways(x) ==
  \E s \in Str :
     /\ heap[s] = NoText /\ ~ Empty
     /\ errors' = [errors EXCEPT ![top].data = s]
     /\ heap' = [Free(heap, errors[top].data) EXCEPT ![s] = x]
     /\ lent' = IF suppress = 0 THEN Null ELSE lent
     /\ UNCHANGED <<top, bottom, to_free, suppress, saved, ret>>

\* ERR_add_error_data and its kin: the copy goes to the most recent error, or
\* is freed at once when there is none or while suppressed.
err_set_error_data(x) ==
  \E s \in Str :
     /\ heap[s] = NoText
     /\ ~ Empty /\ suppress = 0
     /\ errors' = [errors EXCEPT ![top].data = s]
     /\ heap' = [Free(heap, errors[top].data) EXCEPT ![s] = x]
     /\ lent' = Null
     /\ UNCHANGED <<top, bottom, to_free, suppress, saved, ret>>

\* Faulty variant: the data is freed although it is lent.
FreesData(w, d) == Free(heap, d)

\* The heap after an error with data d left the queue: a caller that asked for
\* the data keeps it through to_free until the next such call.
HeapAfterGet(w, d) ==
  IF w /\ d # Null THEN Free(heap, to_free) ELSE Free(heap, d)

\* ERR_get_error (w FALSE) and ERR_get_error_line_data (w TRUE).
Get(w) ==
  LET i == Next1(bottom)
      d == errors[i].data
  IN  /\ ~ Empty
      /\ ret' = errors[i].packed
      /\ heap' = HeapAfterGet(w, d)
      /\ to_free' = IF w /\ d # Null THEN d ELSE to_free
      /\ lent' = IF w THEN d ELSE Null
      /\ errors' = [errors EXCEPT ![i] = Blank]
      /\ bottom' = i
      /\ UNCHANGED <<top, suppress, saved>>

\* ERR_peek_error and ERR_peek_last_error, with the data or without.
Peek(w) ==
  /\ ~ Empty
  /\ \E i \in {Next1(bottom), top} :
        /\ ret' = errors[i].packed
        /\ lent' = IF w THEN errors[i].data ELSE lent
  /\ UNCHANGED <<errors, top, bottom, to_free, suppress, saved, heap>>

\* Either of them, on an empty queue.
GetNothing ==
  /\ Empty
  /\ ret' = 0
  /\ UNCHANGED <<errors, top, bottom, to_free, suppress, saved, heap, lent>>

ClearQueue ==
  /\ heap' = FreeAll(heap, DataOf(errors) \cup {to_free})
  /\ errors' = [i \in 0 .. N - 1 |-> Blank]
  /\ to_free' = Null /\ top' = 0 /\ bottom' = 0
  /\ lent' = Null

ERR_clear_error == ClearQueue /\ UNCHANGED <<suppress, saved, ret>>

ERR_set_mark ==
  /\ ~ Empty
  /\ errors' = [errors EXCEPT ![top].mark = TRUE]
  /\ ret' = 1
  /\ UNCHANGED <<top, bottom, to_free, suppress, saved, heap, lent>>

\* The slots of the queue from the least recent error to the most recent.
Length == (top + N - bottom) % N
Slot(i) == (bottom + i) % N

MarkTaken(i) == [errors[Slot(i)] EXCEPT !.mark = FALSE]

\* ERR_pop_to_mark walks down from |top|; i is where it stops.
ERR_pop_to_mark ==
  \E i \in 0 .. Length :
     LET gone == {Slot(j) : j \in i + 1 .. Length}
     IN  /\ i # 0 => errors[Slot(i)].mark
         /\ \A j \in i + 1 .. Length : ~ errors[Slot(j)].mark
         /\ errors' = [k \in 0 .. N - 1 |->
                         IF k \in gone THEN Blank
                         ELSE IF i # 0 /\ k = Slot(i) THEN MarkTaken(i)
                         ELSE errors[k]]
         /\ heap' = FreeAll(heap, {errors[k].data : k \in gone})
         /\ top' = Slot(i)
         /\ ret' = IF i = 0 THEN 0 ELSE 1
         /\ lent' = Null
         /\ UNCHANGED <<bottom, to_free, suppress, saved>>

----------------------------------------------------------------------------
\* Saved states.

\* err_copy: the data is duplicated and the mark is not copied.
err_copy(e, d) == [packed |-> e.packed, data |-> d, mark |-> FALSE]

\* Where the duplicates of data src may be after heap h: the copy of a string
\* may fail.
Copies(src, h) ==
  {c \in [DOMAIN src -> {s \in Str : h[s] = NoText} \cup {Null}] :
     /\ \A i \in DOMAIN src : src[i] = Null => c[i] = Null
     /\ \A i, j \in DOMAIN src : c[i] = c[j] /\ c[i] # Null => i = j}

\* The heap with the strings src duplicated to c; text as it was in |heap|.
Duplicated(h, src, c) ==
  [s \in Str |-> IF \E i \in DOMAIN src : c[i] = s
                 THEN heap[src[CHOOSE i \in DOMAIN src : c[i] = s]] ELSE h[s]]

\* ERR_save_state on a queue with errors; NULL, also when memory runs out, is
\* the empty state.
ERR_save_state ==
  LET src == [i \in 1 .. Length |-> errors[Slot(i)].data]
  IN  /\ saved = <<>> /\ ~ Empty
      /\ \E c \in Copies(src, heap) :
            /\ saved' = [i \in 1 .. Length |-> err_copy(errors[Slot(i)], c[i])]
            /\ heap' = Duplicated(heap, src, c)
      /\ UNCHANGED <<errors, top, bottom, to_free, suppress, lent, ret>>

ERR_SAVE_STATE_free ==
  /\ saved # <<>>
  /\ heap' = FreeAll(heap, DataOf(saved))
  /\ saved' = <<>>
  /\ UNCHANGED <<errors, top, bottom, to_free, suppress, lent, ret>>

\* ERR_restore_state: slots 0 .. n-1 are overwritten in place and the slots
\* after them are left as they are, outside the queue.
ERR_restore_state ==
  \/ saved = <<>> /\ ClearQueue /\ UNCHANGED <<suppress, saved, ret>>
  \/ /\ saved # <<>>
     /\ LET src == [i \in DOMAIN saved |-> saved[i].data]
            h == FreeAll(heap, {errors[i - 1].data : i \in DOMAIN saved})
        IN  \E c \in Copies(src, h) :
               /\ errors' = [k \in 0 .. N - 1 |->
                               IF k + 1 \in DOMAIN saved
                               THEN err_copy(saved[k + 1], c[k + 1]) ELSE errors[k]]
               /\ heap' = Duplicated(h, src, c)
     /\ top' = Len(saved) - 1 /\ bottom' = N - 1
     /\ lent' = Null
     /\ UNCHANGED <<to_free, suppress, saved, ret>>

ERR_suppress_errors_begin ==
  /\ suppress < MaxDepth
  /\ suppress' = suppress + 1 /\ ret' = 1
  /\ UNCHANGED <<errors, top, bottom, to_free, saved, heap, lent>>

ERR_suppress_errors_end ==
  /\ suppress > 0
  /\ suppress' = suppress - 1
  /\ UNCHANGED <<errors, top, bottom, to_free, saved, heap, lent, ret>>

\* err_state_free, when the thread ends or clears its thread-local storage; a
\* later call starts from a zeroed state.
err_state_free == ClearQueue /\ suppress' = 0 /\ UNCHANGED <<saved, ret>>

Next ==
  \/ \E e \in Err : ERR_put_error(e)
  \/ \E x \in Text : err_set_error_data(x)
  \/ \E w \in BOOLEAN : Get(w) \/ Peek(w)
  \/ GetNothing \/ ERR_clear_error \/ ERR_set_mark \/ ERR_pop_to_mark
  \/ ERR_save_state \/ ERR_SAVE_STATE_free \/ ERR_restore_state
  \/ ERR_suppress_errors_begin \/ ERR_suppress_errors_end \/ err_state_free

Spec == Init /\ [][Next]_vars

----------------------------------------------------------------------------
\* Properties.

Slots == [packed : Err \cup {0}, data : Str \cup {Null}, mark : BOOLEAN]

\* The indices stay in the ring and every slot holds an error or nothing.
TypeOK ==
  /\ errors \in [0 .. N - 1 -> Slots]
  /\ top \in 0 .. N - 1 /\ bottom \in 0 .. N - 1
  /\ to_free \in Str \cup {Null} /\ lent \in Str \cup {Null}
  /\ suppress \in 0 .. MaxDepth
  /\ saved \in Seq(Slots) /\ Len(saved) < N
  /\ heap \in [Str -> Text \cup {NoText}]
  /\ ret \in Err \cup {0, 1}

\* the owners of a string: slots (those outside the queue too), to_free, saved
Holders(s) ==
  {<<"slot", i>> : i \in {k \in DOMAIN errors : errors[k].data = s}}
    \cup {<<"saved", i>> : i \in {k \in DOMAIN saved : saved[k].data = s}}
    \cup (IF to_free = s THEN {<<"to_free", 0>>} ELSE {})

\* Every string has exactly one owner, and no owner points to a freed one:
\* nothing is leaked, freed twice or used after it was freed, through
\* eviction, restore and thread exit (err_clear, err_get_error_values).
OneOwner ==
  /\ TypeOK
  /\ \A s \in Str : Cardinality(Holders(s)) = IF heap[s] = NoText THEN 0 ELSE 1

\* A data pointer handed to the caller stays valid until the next call that
\* affects the queue; a whole suppression scope does not affect it.
LentValid == lent # Null => heap[lent] # NoText

\* The queue and the saved state as ErrLog sees them.
LogOf == [i \in 1 .. Length |->
            [packed |-> errors[Slot(i)].packed, mark |-> errors[Slot(i)].mark,
             text |-> IF errors[Slot(i)].data = Null THEN NoText
                      ELSE heap[errors[Slot(i)].data]]]
SavedOf == [i \in DOMAIN saved |->
              [packed |-> saved[i].packed, mark |-> saved[i].mark,
               text |-> IF saved[i].data = Null THEN NoText ELSE heap[saved[i].data]]]

Log == INSTANCE ErrLog WITH log <- LogOf, saved <- SavedOf, depth <- suppress,
                            Capacity <- N - 1

\* Every call on the ring is the call of that name on the log of the last
\* N - 1 errors: which error is evicted or returned, which marks and texts
\* survive, and what is returned, through every wrap of the indices and every
\* restore, which restarts the ring at slot 0.  So the ring, its memory and
\* its saved state implement ErrLog; in particular a saved state that is
\* restored again and again never brings a mark back.
LogSteps ==
  /\ Log!LogSpec
  /\ [][/\ \A e \in Err : ERR_put_error(e) => Log!Put(e)
        /\ \A x \in Text : err_set_error_data(x) => Log!SetText(x)
        /\ \A w \in BOOLEAN : /\ Get(w) => Log!Get
                              /\ Peek(w) => \E i \in {1, Length} : Log!Peek(i)
        /\ GetNothing => Log!GetNothing
        /\ ERR_set_mark => Log!Mark
        /\ ERR_pop_to_mark => Log!PopToMark
        /\ ERR_save_state => Log!Save
        /\ ERR_SAVE_STATE_free => Log!FreeSaved
        /\ ERR_restore_state => Log!Restore
        /\ ERR_suppress_errors_begin => Log!Begin
        /\ ERR_suppress_errors_end => Log!End
        /\ ERR_clear_error => Log!Clear
        /\ err_state_free => Log!Exit]_vars
=============================================================================
