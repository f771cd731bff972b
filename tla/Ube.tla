--------------------------------- MODULE Ube ---------------------------------
(***************************************************************************)
(* Detection of uniqueness-breaking events (UBE): crypto/ube/ube.c,        *)
(* fork_ube_detect.c and vm_ube_detect.c.                                  *)
(*                                                                         *)
(* One address space, whose threads ask for the UBE generation number      *)
(* while the kernel wipes the fork-detection page (a fork, or a VM clone   *)
(* under a running process) and the hypervisor bumps the SysGenID counter. *)
(* The sections under fork_detect_ube_lock and under the read side of      *)
(* ube_lock are single steps; the write side of ube_lock spans several.    *)
(*                                                                         *)
(* Names that TreeDrbg has too carry a prefix, so that a module can extend *)
(* both.                                                                   *)
(***************************************************************************)
EXTENDS Naturals

CONSTANTS
  Threads,
  MaxEvents,   \* bound: number of UBEs
  NoThread

ASSUME UbeAssumption == MaxEvents \in Nat /\ NoThread \notin Threads

VARIABLES
  \* Detection methods.
  forkPage,    \* fork_detect_addr: "unmapped" (not initialised), "none", "set", "wiped"
  fgn,         \* fork generation number
  vmState,     \* vm_ube_state: "unknown" (not initialised), "unsupported", "failed", "success"
  sysgenid,    \* the counter behind sgn_addr
  \* ube.c.
  ubeOnce,     \* ube_state_initialize_once: "no", "running", "done"
  unavailable, \* ube_detection_unavailable
  gn,          \* ube_global_state.generation_number
  cachedFork, cachedVm,
  writer,      \* ube_lock held for writing, or NoThread
  \* Threads.
  ubePc,
  fork, vm,    \* local: current_detection_gn, 0 if the method failed
  ok,          \* local: both methods answered
  result,      \* what the last call returned
  \* History.
  events,      \* number of UBEs so far
  highest,     \* highest number returned so far
  floor,       \* a call that starts now must return at least this
  low          \* ... and what the current or last call of a thread had to return

detectors == <<forkPage, fgn, vmState, sysgenid>>
state == <<gn, cachedFork, cachedVm>>
locals == <<fork, vm, ok>>
history == <<events, highest, floor, low>>
ubeVars == <<detectors, ubeOnce, unavailable, state, writer, ubePc, locals, result, history>>

UbeNone == [ret |-> 0, gn |-> 0]   \* a call that returned 0 (or no call yet)

PCs == {"idle", "once", "init_fork", "init_vm", "check", "fork_1", "vm_1", "compare",
        "lock", "fork_2", "vm_2", "update"}

\* Every variable has its type; in particular CRYPTO_get_ube_generation_number returns 0
\* or 1, all that its callers tell apart.
UbeTypeOK ==
  /\ forkPage \in {"unmapped", "none", "set", "wiped"}
  /\ fgn \in Nat
  /\ vmState \in {"unknown", "unsupported", "failed", "success"}
  /\ sysgenid \in Nat
  /\ ubeOnce \in {"no", "running", "done"}
  /\ unavailable \in BOOLEAN
  /\ gn \in Nat /\ cachedFork \in Nat /\ cachedVm \in Nat
  /\ writer \in Threads \cup {NoThread}
  /\ ubePc \in [Threads -> PCs]
  /\ fork \in [Threads -> Nat] /\ vm \in [Threads -> Nat] /\ ok \in [Threads -> BOOLEAN]
  /\ result \in [Threads -> [ret : {0, 1}, gn : Nat]]
  /\ events \in 0..MaxEvents
  /\ highest \in Nat /\ floor \in Nat /\ low \in [Threads -> Nat]

UbeInit ==
  /\ forkPage = "unmapped" /\ fgn = 0
  /\ vmState = "unknown" /\ sysgenid = 0
  /\ ubeOnce = "no" /\ unavailable = FALSE
  /\ gn = 0 /\ cachedFork = 0 /\ cachedVm = 0
  /\ writer = NoThread
  /\ ubePc = [t \in Threads |-> "idle"]
  /\ fork = [t \in Threads |-> 0]
  /\ vm = [t \in Threads |-> 0]
  /\ ok = [t \in Threads |-> TRUE]
  /\ result = [t \in Threads |-> UbeNone]
  /\ events = 0 /\ highest = 0 /\ floor = 0
  /\ low = [t \in Threads |-> 0]

UbeGoto(t, label) == ubePc' = [ubePc EXCEPT ![t] = label]

-------------------------------------------------------------------------------
(* Uniqueness-breaking events.                                             *)

\* What has been returned so far is no longer unique: a call that starts from
\* now on has to return more.  Nothing returned yet leaves the floor at zero.
Break ==
  /\ events < MaxEvents
  /\ events' = events + 1
  /\ floor' = IF \E t \in Threads : result[t].ret = 1 THEN highest + 1 ELSE floor
  /\ UNCHANGED <<ubeOnce, unavailable, state, writer, ubePc, locals, result, highest, low>>

\* The kernel hands out a zeroed page: fork, or a cloned VM.
WipePage ==
  /\ forkPage \in {"set", "wiped"}
  /\ forkPage' = "wiped"
  /\ Break
  /\ UNCHANGED <<fgn, vmState, sysgenid>>

\* The hypervisor resumed or cloned the VM.
ResumeVm ==
  /\ vmState = "success"
  /\ sysgenid' = sysgenid + 1
  /\ Break
  /\ UNCHANGED <<forkPage, fgn, vmState>>

-------------------------------------------------------------------------------
(* The detection methods.                                                  *)

\* init_fork_detect, run once: no page if mmap, madvise or minherit fail.
init_fork_detect ==
  \/ /\ forkPage = "unmapped"
     /\ \/ forkPage' = "none" /\ fgn' = fgn
        \/ forkPage' = "set" /\ fgn' = 1
  \/ /\ forkPage # "unmapped"
     /\ UNCHANGED <<forkPage, fgn>>

\* CRYPTO_get_fork_ube_generation after its initialisation: the first thread to
\* see the wiped page marks it and takes the next number.
CRYPTO_get_fork_ube_generation(t) ==
  /\ forkPage' = IF forkPage = "wiped" THEN "set" ELSE forkPage
  /\ fgn' = IF forkPage = "wiped" THEN fgn + 1 ELSE fgn
  /\ fork' = [fork EXCEPT ![t] = fgn']
  /\ ok' = [ok EXCEPT ![t] = forkPage # "none"]

\* do_sysgenid_init, run once.
do_sysgenid_init ==
  IF vmState = "unknown" THEN vmState' \in {"unsupported", "failed", "success"}
                         ELSE vmState' = vmState

\* CRYPTO_get_vm_ube_generation after its initialisation.
CRYPTO_get_vm_ube_generation(t) ==
  /\ vm' = [vm EXCEPT ![t] = IF vmState' = "success" THEN sysgenid ELSE 0]
  /\ ok' = [ok EXCEPT ![t] = @ /\ vmState' # "failed"]

-------------------------------------------------------------------------------
(* CRYPTO_get_ube_generation_number.                                       *)

\* The call returns.
Return(t, r) ==
  /\ UbeGoto(t, "idle")
  /\ result' = [result EXCEPT ![t] = r]
  /\ fork' = [fork EXCEPT ![t] = 0]
  /\ vm' = [vm EXCEPT ![t] = 0]
  /\ ok' = [ok EXCEPT ![t] = TRUE]
  /\ highest' = IF r.ret = 1 /\ r.gn > highest THEN r.gn ELSE highest
  /\ UNCHANGED <<events, floor, low>>

\* A call has to return at least what earlier calls returned, and more than what
\* they returned before the last UBE.
Call(t) ==
  /\ ubePc[t] = "idle"
  /\ UbeGoto(t, "once")
  /\ low' = [low EXCEPT ![t] = IF floor > highest THEN floor ELSE highest]
  /\ UNCHANGED <<detectors, ubeOnce, unavailable, state, writer, locals, result, events,
                 highest, floor>>

\* CRYPTO_once: the first thread runs the initialisation, the others wait.
Once(t) ==
  /\ ubePc[t] = "once"
  /\ \/ ubeOnce = "no" /\ ubeOnce' = "running" /\ UbeGoto(t, "init_fork")
     \/ ubeOnce = "done" /\ ubeOnce' = ubeOnce /\ UbeGoto(t, "check")
  /\ UNCHANGED <<detectors, unavailable, state, writer, locals, result, history>>

\* ube_state_initialize: first the fork number ...
InitFork(t) ==
  /\ ubePc[t] = "init_fork"
  /\ init_fork_detect
  /\ gn' = 0
  /\ cachedFork' = fgn'
  /\ ok' = [ok EXCEPT ![t] = forkPage' # "none"]
  /\ UbeGoto(t, "init_vm")
  /\ UNCHANGED <<vmState, sysgenid, ubeOnce, unavailable, cachedVm, writer, fork, vm, result, history>>

\* Faulty variant: a missing fork detection is not a failure.
InitVmIgnoresFork(t) ==
  /\ ubePc[t] = "init_vm"
  /\ do_sysgenid_init
  /\ cachedVm' = IF vmState' = "success" THEN sysgenid ELSE 0
  /\ unavailable' = (unavailable \/ vmState' = "failed")
  /\ ubeOnce' = "done"
  /\ UbeGoto(t, "check")
  /\ UNCHANGED <<forkPage, fgn, sysgenid, gn, cachedFork, writer, locals, result, history>>

\* ... then the VM number.
InitVm(t) ==
  /\ ubePc[t] = "init_vm"
  /\ do_sysgenid_init
  /\ cachedVm' = IF vmState' = "success" THEN sysgenid ELSE 0
  /\ unavailable' = (unavailable \/ ~ok[t] \/ vmState' = "failed")
  /\ ubeOnce' = "done"
  /\ UbeGoto(t, "check")
  /\ UNCHANGED <<forkPage, fgn, sysgenid, gn, cachedFork, writer, locals, result, history>>

Check(t) ==
  /\ ubePc[t] = "check"
  /\ \/ /\ unavailable
        /\ Return(t, UbeNone)
     \/ /\ ~unavailable
        /\ UbeGoto(t, "fork_1")
        /\ UNCHANGED <<locals, result, history>>
  /\ UNCHANGED <<detectors, ubeOnce, unavailable, state, writer>>

\* ube_get_detection_generation_numbers, before and after taking the lock.
ReadFork(t) ==
  /\ \/ ubePc[t] = "fork_1" /\ UbeGoto(t, "vm_1")
     \/ ubePc[t] = "fork_2" /\ UbeGoto(t, "vm_2")
  /\ CRYPTO_get_fork_ube_generation(t)
  /\ UNCHANGED <<vmState, sysgenid, ubeOnce, unavailable, state, writer, vm, result, history>>

ReadVm(t) ==
  /\ \/ ubePc[t] = "vm_1" /\ UbeGoto(t, "compare")
     \/ ubePc[t] = "vm_2" /\ UbeGoto(t, "update")
  /\ vmState' = vmState
  /\ CRYPTO_get_vm_ube_generation(t)
  /\ UNCHANGED <<forkPage, fgn, sysgenid, ubeOnce, unavailable, state, writer, fork, result, history>>

\* Faulty variant: the VM number is not compared.
DetectForkOnly(t) == cachedFork # fork[t]

ube_is_detected(t) == cachedFork # fork[t] \/ cachedVm # vm[t]

\* The comparison under the read lock.
Compare(t) ==
  /\ ubePc[t] = "compare"
  /\ ok[t]
  /\ writer = NoThread
  /\ \/ /\ ~ube_is_detected(t)
        /\ Return(t, [ret |-> 1, gn |-> gn])
     \/ /\ ube_is_detected(t)
        /\ UbeGoto(t, "lock")
        /\ UNCHANGED <<locals, result, history>>
  /\ UNCHANGED <<detectors, ubeOnce, unavailable, state, writer>>

UbeLock(t) ==
  /\ ubePc[t] = "lock"
  /\ writer = NoThread
  /\ writer' = t
  /\ UbeGoto(t, "fork_2")
  /\ UNCHANGED <<detectors, ubeOnce, unavailable, state, locals, result, history>>

\* Faulty variant: only the fork number is cached.
CacheForkOnly(t) ==
  /\ gn' = gn + 1
  /\ cachedFork' = fork[t]
  /\ UNCHANGED cachedVm

ube_update_state(t) ==
  /\ gn' = gn + 1
  /\ cachedFork' = fork[t]
  /\ cachedVm' = vm[t]

\* Faulty variant: a thread that finds the event handled starts over.
UpdateRetries(t) ==
  /\ ubePc[t] = "update"
  /\ ok[t]
  /\ \/ /\ ube_is_detected(t) /\ ube_update_state(t)
        /\ Return(t, [ret |-> 1, gn |-> gn'])
     \/ /\ ~ube_is_detected(t) /\ UbeGoto(t, "lock")
        /\ UNCHANGED <<state, locals, result, history>>
  /\ writer' = NoThread
  /\ UNCHANGED <<detectors, ubeOnce, unavailable>>

\* The comparison is repeated under the write lock; the first thread to get here
\* updates the state, the others take its number.
Update(t) ==
  /\ ubePc[t] = "update"
  /\ ok[t]
  /\ IF ube_is_detected(t) THEN ube_update_state(t) ELSE UNCHANGED state
  /\ Return(t, [ret |-> 1, gn |-> gn'])
  /\ writer' = NoThread
  /\ UNCHANGED <<detectors, ubeOnce, unavailable>>

\* ube_failed: a method that is expected to work does not.  Initialisation settles
\* for good which methods work, so no call gets here; NeverFailsLate says so.
FailedLate(t) == ubePc[t] \in {"compare", "update"} /\ ~ok[t]

UbeStep(t) ==
  \/ Call(t)
  \/ Once(t)
  \/ InitFork(t)
  \/ InitVm(t)
  \/ Check(t)
  \/ ReadFork(t)
  \/ ReadVm(t)
  \/ Compare(t)
  \/ UbeLock(t)
  \/ Update(t)

UbeNext ==
  \/ \E t \in Threads : UbeStep(t)
  \/ WipePage
  \/ ResumeVm

\* A thread that entered the library runs; whether it calls again is its choice.
Fairness == \A t \in Threads : WF_ubeVars(UbeStep(t) /\ ubePc[t] # "idle")

UbeSpec == UbeInit /\ [][UbeNext]_ubeVars /\ Fairness

-------------------------------------------------------------------------------
(* Correctness.                                                            *)

\* The promise of crypto/ube/internal.h: a call that starts after a UBE returns
\* more than every call that returned before it; and a call never returns less
\* than a call that returned before it started, whichever threads they are on.
Fresh == \A t \in Threads : result[t].ret = 1 /\ ubePc[t] = "idle" => result[t].gn >= low[t]

\* The generation number counts no UBE twice, although several threads may detect
\* the same one: every increment makes each DRBG of the process reseed.
NoRedundantIncrement == gn <= events

\* A detection method that answered at initialisation answers ever after, so a
\* process never loses protection it was told it had.
NeverFailsLate == \A t \in Threads : ~FailedLate(t)

\* Every call returns: neither the initialisation nor the locks block for ever.
CallReturns == \A t \in Threads : ubePc[t] # "idle" ~> ubePc[t] = "idle"
===============================================================================
