------------------------------ MODULE CtAttackPool ------------------------------
(*****************************************************************************)
(* The GPU worker pool of the ciphertext-only attack: cuda_ct_attack starts  *)
(* two threads per device (ct_attack_thread); they number themselves, set up *)
(* their buffers, meet at a barrier and then drain a shared job counter.     *)
(* Every job runs a kernel that reports candidate keys into a device buffer, *)
(* which the thread copies back, validates and merges into the shared list.  *)
(*                                                                           *)
(* A candidate key (the rk8 and rk9 the kernel writes) is an element of Keys.*)
(* The two pure computations of a job are constants: Found[j] is the set of  *)
(* keys the kernel reports when run on job j alone, Valid[j] the set of keys *)
(* that pass validate_rk8 with tau2 under the x9 states of job j.            *)
(* Messages are left out, with the short critical sections that only print.  *)
(*****************************************************************************)
EXTENDS Integers, Sequences, FiniteSets

CONSTANTS
  Threads,         \* the threads cuda_ct_attack creates
  NoThread,        \* the holder of a mutex that is free
  NumDevices,      \* arg.num_devices
  Span,            \* 1ULL << (32 - num_fixed): how many jobs there are
  Stride,          \* 1ULL << num_fixed
  FixedBits,       \* arg.fixed_bits
  Keys,            \* candidate keys
  Found,           \* the keys the kernel reports for a job
  Valid,           \* the keys that validate under a job
  MAX_CANDIDATES,  \* capacity of candidates_d and candidates_h
  StartupErrors,   \* may a CUDA or memory error happen before the barrier?
  JobErrors        \* may one happen while a job is processed?

\* get_next_job: the running number above the fixed low bits (num_fixed = 32 is
\* Span = 1: the one job is fixed_bits itself).
JobOf(n) == n * Stride + FixedBits
Jobs == {JobOf(n) : n \in 0 .. Span - 1}

ASSUME PoolAssumption ==
  /\ NumDevices \in Nat \ {0}
  /\ NoThread \notin Threads
  /\ IsFiniteSet(Threads) /\ Cardinality(Threads) = 2 * NumDevices
  /\ Span \in Nat \ {0}
  /\ Stride \in Nat \ {0}
  /\ FixedBits \in 0 .. Stride - 1
  /\ Found \in [Jobs -> SUBSET Keys]
  /\ Valid \in [Jobs -> SUBSET Keys]
  /\ MAX_CANDIDATES \in Nat \ {0}
  /\ StartupErrors \in BOOLEAN
  /\ JobErrors \in BOOLEAN

VARIABLES
  pc,                \* where each thread is in ct_attack_thread
  main,              \* cuda_ct_attack: "joining" or "returned"
  mutex,             \* the thread that holds arg->mutex, or NoThread
  arrived,           \* threads that arrived at arg->barrier
  run,               \* arg->run
  threadnum,         \* arg->threadnum
  number,            \* each thread's local threadnum
  next_job,          \* arg->next_job
  job,               \* the job each thread works on
  todo,              \* candidates the running kernel has yet to report
  candidates_d,      \* each thread's device buffer
  num_candidates_d,  \* its counter on the device
  warn_d,            \* its overflow flag on the device
  num_candidates_h,  \* host copy of the counter
  warn,              \* host copy of the flag
  found,             \* keys the thread validated and has yet to merge
  base,              \* the list the thread's realloc returned, before memcpy
  validated,         \* arg->validated, as a set of <<job, key>>
  searched           \* history: the jobs processed to the end

vars == <<pc, main, mutex, arrived, run, threadnum, number, next_job, job,
          todo, candidates_d, num_candidates_d, warn_d, num_candidates_h,
          warn, found, base, validated, searched>>

startVars == <<arrived, threadnum, number>>
deviceVars == <<todo, candidates_d, num_candidates_d, warn_d>>
hostVars == <<num_candidates_h, warn, found, base>>
jobVars == <<next_job, job>>
resultVars == <<validated, searched>>
data == <<startVars, jobVars, deviceVars, hostVars, resultVars>>

Goto(t, label) == pc' = [pc EXCEPT ![t] = label]

Init ==
  /\ pc = [t \in Threads |-> "start"]
  /\ main = "joining"
  /\ mutex = NoThread
  /\ arrived = {}
  /\ run = TRUE
  /\ threadnum = 0
  /\ number = [t \in Threads |-> 0]
  /\ next_job = 0
  /\ job = [t \in Threads |-> JobOf(0)]
  /\ todo = [t \in Threads |-> {}]
  /\ candidates_d = [t \in Threads |-> <<>>]
  /\ num_candidates_d = [t \in Threads |-> 0]
  /\ warn_d = [t \in Threads |-> FALSE]
  /\ num_candidates_h = [t \in Threads |-> 0]
  /\ warn = [t \in Threads |-> FALSE]
  /\ found = [t \in Threads |-> {}]
  /\ base = [t \in Threads |-> {}]
  /\ validated = {}
  /\ searched = {}

-----------------------------------------------------------------------------
(* Start of a thread: its number, its buffers, the barrier.                  *)

\* Fault: threadnum is read and increased without the mutex.
LockNumber_NoLock(t) ==
  /\ pc[t] = "start"
  /\ number' = [number EXCEPT ![t] = threadnum]
  /\ Goto(t, "number")
  /\ UNCHANGED <<main, mutex, run, arrived, threadnum, jobVars, deviceVars,
                 hostVars, resultVars>>

LockNumber(t) ==
  /\ pc[t] = "start"
  /\ mutex = NoThread
  /\ mutex' = t
  /\ number' = [number EXCEPT ![t] = threadnum]
  /\ Goto(t, "number")
  /\ UNCHANGED <<main, run, arrived, threadnum, jobVars, deviceVars, hostVars,
                 resultVars>>

UnlockNumber(t) ==
  /\ pc[t] = "number"
  /\ threadnum' = threadnum + 1
  /\ mutex' = NoThread
  /\ Goto(t, "setup")
  /\ UNCHANGED <<main, run, arrived, number, jobVars, deviceVars, hostVars,
                 resultVars>>

\* Tables, buffers and stream; the counter and the flag are zeroed here only.
Setup(t) ==
  /\ pc[t] = "setup"
  /\ num_candidates_d' = [num_candidates_d EXCEPT ![t] = num_candidates_h[t]]
  /\ warn_d' = [warn_d EXCEPT ![t] = warn[t]]
  /\ Goto(t, "arrive")
  /\ UNCHANGED <<main, mutex, run, startVars, jobVars, todo, candidates_d,
                 hostVars, resultVars>>

\* RETURN_ON_ERROR and RETURN_ON_CUDA_ERROR before the barrier: goto error.
SetupFails(t) ==
  /\ StartupErrors
  /\ pc[t] = "setup"
  /\ Goto(t, "error")
  /\ UNCHANGED <<main, mutex, run, data>>

Arrive(t) ==
  /\ pc[t] = "arrive"
  /\ arrived' = arrived \cup {t}
  /\ Goto(t, "barrier")
  /\ UNCHANGED <<main, mutex, run, threadnum, number, jobVars, deviceVars,
                 hostVars, resultVars>>

PassBarrier(t) ==
  /\ pc[t] = "barrier"
  /\ arrived = Threads
  /\ Goto(t, "loop")
  /\ UNCHANGED <<main, mutex, run, data>>

-----------------------------------------------------------------------------
(* The job loop.  run is a plain bool, read here without the mutex and       *)
(* written without it: a one-byte load or store, re-executed every iteration *)
(* because the mutex calls between two reads are opaque to the compiler, so  *)
(* a read returns the old or the new value: each is a step of its own.       *)

Continue(t) ==
  /\ pc[t] = "loop"
  /\ run
  /\ Goto(t, "fetch")
  /\ UNCHANGED <<main, mutex, run, data>>

Quit(t) ==
  /\ pc[t] = "loop"
  /\ ~run
  /\ Goto(t, "done")
  /\ UNCHANGED <<main, mutex, run, data>>

\* Fault: get_next_job does not take the mutex.
LockJobs_NoLock(t) ==
  /\ pc[t] = "fetch"
  /\ Goto(t, "next")
  /\ UNCHANGED <<main, mutex, run, data>>

LockJobs(t) ==
  /\ pc[t] = "fetch"
  /\ mutex = NoThread
  /\ mutex' = t
  /\ Goto(t, "next")
  /\ UNCHANGED <<main, run, data>>

NoMoreJobs(t) ==
  /\ pc[t] = "next"
  /\ next_job >= Span
  /\ mutex' = NoThread
  /\ Goto(t, "done")
  /\ UNCHANGED <<main, run, data>>

\* Fault: off by one, > for >= in get_next_job.
AssignJob_OffByOne(t) ==
  /\ pc[t] = "next"
  /\ next_job <= Span
  /\ job' = [job EXCEPT ![t] = JobOf(next_job)]
  /\ Goto(t, "advance")
  /\ UNCHANGED <<main, mutex, run, startVars, next_job, deviceVars, hostVars,
                 resultVars>>

AssignJob(t) ==
  /\ pc[t] = "next"
  /\ next_job < Span
  /\ job' = [job EXCEPT ![t] = JobOf(next_job)]
  /\ Goto(t, "advance")
  /\ UNCHANGED <<main, mutex, run, startVars, next_job, deviceVars, hostVars,
                 resultVars>>

\* Leaving get_next_job; x9 is computed from the job and the kernel launched.
AdvanceJob(t) ==
  /\ pc[t] = "advance"
  /\ next_job' = next_job + 1
  /\ mutex' = NoThread
  /\ todo' = [todo EXCEPT ![t] = Found[job[t]]]
  /\ Goto(t, "kernel")
  /\ UNCHANGED <<main, run, startVars, job, candidates_d, num_candidates_d,
                 warn_d, hostVars, resultVars>>

\* One kernel thread reports a candidate: idx = atomicAdd(num_candidates, 1).
Report(t) ==
  /\ pc[t] = "kernel"
  /\ \E k \in todo[t] :
       /\ todo' = [todo EXCEPT ![t] = @ \ {k}]
       /\ num_candidates_d' = [num_candidates_d EXCEPT ![t] = @ + 1]
       /\ \/ /\ num_candidates_d[t] < MAX_CANDIDATES
             /\ candidates_d' = [candidates_d EXCEPT ![t] = Append(@, k)]
             /\ UNCHANGED warn_d
          \/ /\ num_candidates_d[t] >= MAX_CANDIDATES
             /\ warn_d' = [warn_d EXCEPT ![t] = TRUE]
             /\ UNCHANGED candidates_d
  /\ UNCHANGED <<pc, main, mutex, run, startVars, jobVars, hostVars,
                 resultVars>>

\* The copies to the host and cudaStreamSynchronize.
CopyBack(t) ==
  /\ pc[t] = "kernel"
  /\ todo[t] = {}
  /\ num_candidates_h' = [num_candidates_h EXCEPT ![t] = num_candidates_d[t]]
  /\ warn' = [warn EXCEPT ![t] = warn_d[t]]
  /\ Goto(t, "check")
  /\ UNCHANGED <<main, mutex, run, startVars, jobVars, deviceVars, found, base,
                 resultVars>>

\* Fault: the counter, which keeps counting past the buffer, is not capped.
Capped_Not(n) == n

\* The copied slots validate_candidates is given: the counter, capped.
Capped(n) == IF n > MAX_CANDIDATES THEN MAX_CANDIDATES ELSE n
Copied(t) == {candidates_d[t][i] : i \in 1 .. Capped(num_candidates_h[t])}

\* validate_candidates, which rebuilds v8 from the x9 of the current job, for
\* num_candidates_h > 0 (for 0 the set is empty); keys that reach tau2 are kept.
Validate(t) ==
  /\ pc[t] = "check"
  /\ LET passed == {<<job[t], k>> : k \in Copied(t) \cap Valid[job[t]]}
     IN  \/ /\ passed = {}
            /\ Goto(t, "loop")
            /\ searched' = searched \cup {job[t]}
            /\ UNCHANGED found
         \/ /\ passed # {}
            /\ found' = [found EXCEPT ![t] = passed]
            /\ Goto(t, "merge")
            /\ UNCHANGED searched
  /\ UNCHANGED <<main, mutex, run, startVars, jobVars, deviceVars,
                 num_candidates_h, warn, base, validated>>

\* Fault: the shared list is extended without the mutex.
LockMerge_NoLock(t) ==
  /\ pc[t] = "merge"
  /\ base' = [base EXCEPT ![t] = validated]
  /\ Goto(t, "append")
  /\ UNCHANGED <<main, mutex, run, startVars, jobVars, deviceVars,
                 num_candidates_h, warn, found, resultVars>>

LockMerge(t) ==
  /\ pc[t] = "merge"
  /\ mutex = NoThread
  /\ mutex' = t
  /\ base' = [base EXCEPT ![t] = validated]
  /\ Goto(t, "append")
  /\ UNCHANGED <<main, run, startVars, jobVars, deviceVars, num_candidates_h,
                 warn, found, resultVars>>

\* memcpy behind the entries the realloc'd list had, then unlock.
Merge(t) ==
  /\ pc[t] = "append"
  /\ validated' = base[t] \cup found[t]
  /\ mutex' = NoThread
  /\ found' = [found EXCEPT ![t] = {}]
  /\ base' = [base EXCEPT ![t] = {}]
  /\ searched' = searched \cup {job[t]}
  /\ Goto(t, "loop")
  /\ UNCHANGED <<main, run, startVars, jobVars, deviceVars, num_candidates_h,
                 warn>>

\* A CUDA error in the copies, or malloc failing in validate_candidates.
JobFails(t) ==
  /\ JobErrors
  /\ pc[t] \in {"kernel", "check"}
  /\ Goto(t, "error")
  /\ UNCHANGED <<main, mutex, run, data>>

\* Fault: the early exit forgets to release the mutex.
MergeFails_KeepsLock(t) ==
  /\ JobErrors
  /\ pc[t] = "append"
  /\ Goto(t, "error")
  /\ UNCHANGED <<main, mutex, run, data>>

\* realloc of the shared list fails: the mutex is released before goto error.
MergeFails(t) ==
  /\ JobErrors
  /\ pc[t] = "append"
  /\ mutex' = NoThread
  /\ Goto(t, "error")
  /\ UNCHANGED <<main, run, data>>

\* The error label: signal the others and leave.
Fail(t) ==
  /\ pc[t] = "error"
  /\ run' = FALSE
  /\ Goto(t, "done")
  /\ UNCHANGED <<main, mutex, data>>

-----------------------------------------------------------------------------
\* Fault: main does not wait for every thread.
Return_NoJoin ==
  /\ main = "joining"
  /\ \E t \in Threads : pc[t] = "done"
  /\ main' = "returned"
  /\ UNCHANGED <<pc, mutex, run, data>>

\* cuda_ct_attack: every join returned, so the result is HALFLOOP_SUCCESS.
Return ==
  /\ main = "joining"
  /\ \A t \in Threads : pc[t] = "done"
  /\ main' = "returned"
  /\ UNCHANGED <<pc, mutex, run, data>>

Terminated == main = "returned" /\ UNCHANGED vars

Thread(t) ==
  \/ LockNumber(t) \/ UnlockNumber(t) \/ Setup(t) \/ SetupFails(t)
  \/ Arrive(t) \/ PassBarrier(t)
  \/ Continue(t) \/ Quit(t) \/ LockJobs(t) \/ NoMoreJobs(t) \/ AssignJob(t)
  \/ AdvanceJob(t) \/ Report(t) \/ CopyBack(t) \/ Validate(t)
  \/ LockMerge(t) \/ Merge(t) \/ JobFails(t) \/ MergeFails(t) \/ Fail(t)

Next == (\E t \in Threads : Thread(t)) \/ Return \/ Terminated

Spec == Init /\ [][Next]_vars

\* The operating system schedules every runnable thread, and main.  The mutex
\* needs no strong fairness: each thread releases it and the jobs run out.
Fairness == WF_vars(Return) /\ \A t \in Threads : WF_vars(Thread(t))
FairSpec == Spec /\ Fairness
-----------------------------------------------------------------------------
(* Properties.                                                               *)

Labels == {"start", "number", "setup", "arrive", "barrier", "loop", "fetch",
           "next", "advance", "kernel", "check", "merge", "append", "error",
           "done"}

\* Every variable has its type; in particular the job counter never passes the
\* number of jobs and every job a thread holds is a real one.
TypeOK ==
  /\ pc \in [Threads -> Labels]
  /\ main \in {"joining", "returned"}
  /\ mutex \in Threads \cup {NoThread}
  /\ arrived \in SUBSET Threads
  /\ run \in BOOLEAN
  /\ threadnum \in Nat
  /\ number \in [Threads -> Nat]
  /\ next_job \in 0 .. Span
  /\ job \in [Threads -> Jobs]
  /\ todo \in [Threads -> SUBSET Keys]
  /\ candidates_d \in [Threads -> Seq(Keys)]
  /\ num_candidates_d \in [Threads -> Nat]
  /\ warn_d \in [Threads -> BOOLEAN]
  /\ num_candidates_h \in [Threads -> Nat]
  /\ warn \in [Threads -> BOOLEAN]
  /\ found \in [Threads -> SUBSET (Jobs \X Keys)]
  /\ base \in [Threads -> SUBSET (Jobs \X Keys)]
  /\ validated \in SUBSET (Jobs \X Keys)
  /\ searched \in SUBSET Jobs

\* A thread has a number once it has released the mutex for the first time.
Numbered(t) == pc[t] \notin {"start", "number"}

\* Each device gets exactly its two threads (devicenum = threadnum >> 1): the
\* numbers are distinct and below 2 * num_devices, so the early return of a
\* thread without a device, which would leave the barrier one short, is dead.
DeviceAssignment ==
  \A t \in Threads : Numbered(t) =>
    /\ number[t] < 2 * NumDevices
    /\ \A u \in Threads \ {t} : Numbered(u) => number[u] # number[t]

Busy(t) == pc[t] \in {"advance", "kernel", "check", "merge", "append"}
NoErrors == run /\ \A t \in Threads : pc[t] # "error"

\* Work is partitioned: two threads never work on one job, no job is taken up
\* again after it was searched, and without errors every job counted off
\* next_job is searched or in the hands of a thread that will finish it.
WorkPartition ==
  /\ \A t, u \in Threads : t # u /\ Busy(t) /\ Busy(u) => job[t] # job[u]
  /\ \A t \in Threads : Busy(t) => job[t] \notin searched
  /\ NoErrors =>
       \A n \in 0 .. next_job - 1 :
         JobOf(n) \in searched \cup {job[t] : t \in {u \in Threads : Busy(u)}}

\* validate_candidates reads only slots of candidates_h that a kernel wrote,
\* though num_candidates_d counts on past the buffer and over all jobs.
ReadsWrittenSlots ==
  \A t \in Threads : pc[t] = "check" =>
    Capped(num_candidates_h[t]) <= Len(candidates_d[t])

\* What cuda_ct_attack is for: when it returns and no thread failed, every key
\* that some job's kernel reports and that validates under that job is in the
\* list, unless a thread printed that candidates may have been missed.
CompleteUnlessWarned ==
  main = "returned" /\ run /\ (\A t \in Threads : ~warn[t]) =>
    \A j \in Jobs : {j} \X (Found[j] \cap Valid[j]) \subseteq validated

\* The pool implements the abstract search: a job is claimed when next_job moves
\* past it and completed when its keys are in the shared list; an overflowing
\* buffer or a failing thread makes the search lossy.
Pending == {JobOf(n) : n \in next_job .. Span - 1}
Held == {job[t] : t \in {u \in Threads :
             pc[u] \in {"kernel", "check", "merge", "append"}}}
Lossy == ~NoErrors \/ \E t \in Threads : warn_d[t]

Search == INSTANCE KeySearch WITH
  pending <- Pending,
  held <- Held,
  reported <- validated,
  lossy <- Lossy,
  answered <- main = "returned"

\* Each job is searched at most once, a completed search contributes exactly
\* its valid keys, and the call returns only with all jobs accounted for.
ImplementsSearch == Search!Spec

\* Once every thread has reached the barrier, cuda_ct_attack returns, whatever
\* errors follow: the jobs run out or run = FALSE stops the threads.
Termination == (arrived = Threads) ~> (main = "returned")

\* halfloop-cuda.cu:104 says of run: "Signals workers to quit when set to
\* false".  A thread that fails before the barrier never arrives there, and
\* the threads that wait for it never see the signal.
WorkersQuitWhenSignalled == ~run ~> \A t \in Threads : pc[t] = "done"

\* halfloop-common.h:151 says of HALFLOOP_SUCCESS: "The function performed its
\* task successfully".  cuda_ct_attack returns it after a thread failed and
\* its job, and the jobs never handed out, were not searched.
SuccessMeansSearched == main = "returned" => searched = Jobs
=============================================================================
