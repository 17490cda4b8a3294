------------------------------- MODULE BitslicePool -------------------------------
(*****************************************************************************)
(* The second phase of the attack.  main tries the candidates of the first   *)
(* phase in turn; for each, halfloop_cuda_bitslice_all starts two threads    *)
(* per device (bitslice_attack_thread), which draw jobs, the two unknown     *)
(* bytes of rk7, until one finds a key that decrypts most of the ciphertexts.*)
(*                                                                           *)
(* Found[c][j] are the keys that bitslice_kernel stores for candidate c and  *)
(* job j (KeyPartition says which); Valid are those that decrypt the first   *)
(* ciphertext to a valid plaintext, Good those for which more than half of   *)
(* the tuples do.  threadnum and next_job are only touched under arg->mutex, *)
(* so a critical section is one step; run is also read outside.              *)
(*****************************************************************************)
EXTENDS Integers, FiniteSets

CONSTANTS
  Threads,        \* the threads started for one candidate
  NumCandidates,  \* candidates of the first phase, in the order of qsort
  NumJobs,        \* 0x10000
  Keys,           \* 128-bit keys
  NoKey,          \* the zero that *found holds before a key is stored
  Found,          \* the keys for which the two plaintexts of a job are equal
  Valid,          \* the keys under which ct0 is a valid plaintext
  Good,           \* the keys that pass the test against all tuples
  StartupErrors,  \* may a CUDA error happen before the barrier?
  JobErrors       \* may halfloop_cuda_bitslice fail?

Candidates == 1 .. NumCandidates
Jobs == 0 .. NumJobs - 1

ASSUME BitsliceAssumption ==
  /\ IsFiniteSet(Threads) /\ Threads # {}
  /\ NumCandidates \in Nat \ {0}
  /\ NumJobs \in Nat \ {0}
  /\ NoKey \notin Keys
  /\ Found \in [Candidates -> [Jobs -> SUBSET Keys]]
  /\ Valid \subseteq Keys
  /\ Good \subseteq Keys
  /\ StartupErrors \in BOOLEAN
  /\ JobErrors \in BOOLEAN

VARIABLES
  main,       \* "start", "joining", or the result: "found", "none", "error"
  candidate,  \* the candidate main is at
  pc,         \* where each thread is in bitslice_attack_thread
  arrived,    \* threads that arrived at arg->barrier
  run,        \* arg->run
  success,    \* arg->success
  found,      \* *arg->found
  threadnum,  \* arg->threadnum
  next_job,   \* arg->next_job
  job,        \* the job each thread works on
  late,       \* history: jobs a thread drew after run was cleared
  failed      \* history: candidates in whose search a thread has failed

vars == <<main, candidate, pc, arrived, run, success, found, threadnum,
          next_job, job, late, failed>>
shared == <<run, success, found>>

Goto(t, label) == pc' = [pc EXCEPT ![t] = label]

Init ==
  /\ main = "start"
  /\ candidate = 1
  /\ failed = {}
  /\ pc = [t \in Threads |-> "start"]
  /\ arrived = {}
  /\ run = TRUE
  /\ success = FALSE
  /\ found = NoKey
  /\ threadnum = 0
  /\ next_job = 0
  /\ job = [t \in Threads |-> 0]
  /\ late = [t \in Threads |-> 0]

\* main's loop body: the BitsliceThreadArg of the call, and its threads.
Start ==
  /\ main = "start"
  /\ candidate <= NumCandidates
  /\ main' = "joining"
  /\ pc' = [t \in Threads |-> "start"]
  /\ arrived' = {}
  /\ run' = TRUE
  /\ success' = FALSE
  /\ found' = NoKey
  /\ threadnum' = 0
  /\ next_job' = 0
  /\ job' = [t \in Threads |-> 0]
  /\ late' = [t \in Threads |-> 0]
  /\ UNCHANGED <<candidate, failed>>

\* cudaGetDeviceCount fails: the error goes to main, which gives up.
StartFails ==
  /\ StartupErrors
  /\ main = "start"
  /\ candidate <= NumCandidates
  /\ main' = "error"
  /\ UNCHANGED <<candidate, pc, arrived, shared, threadnum, next_job, job, late, failed>>

-----------------------------------------------------------------------------
Number(t) ==
  /\ main = "joining"
  /\ pc[t] = "start"
  /\ threadnum' = threadnum + 1
  /\ Goto(t, "setup")
  /\ UNCHANGED <<main, candidate, arrived, shared, next_job, job, late, failed>>

Arrive(t) ==
  /\ pc[t] = "setup"
  /\ arrived' = arrived \cup {t}
  /\ Goto(t, "barrier")
  /\ UNCHANGED <<main, candidate, shared, threadnum, next_job, job, late, failed>>

\* cudaGetDeviceProperties or cudaStreamCreate fails, before the barrier.
SetupFails(t) ==
  /\ StartupErrors
  /\ pc[t] = "setup"
  /\ Goto(t, "error")
  /\ UNCHANGED <<main, candidate, arrived, shared, threadnum, next_job, job, late, failed>>

PassBarrier(t) ==
  /\ pc[t] = "barrier"
  /\ arrived = Threads
  /\ Goto(t, "loop")
  /\ UNCHANGED <<main, candidate, arrived, shared, threadnum, next_job, job, late, failed>>

\* Fault: the loop does not look at run.
Continue_Always(t) ==
  /\ pc[t] = "loop"
  /\ Goto(t, "fetch")
  /\ UNCHANGED <<main, candidate, arrived, shared, threadnum, next_job, job, late, failed>>

\* while (arg->run), without the mutex.
Continue(t) ==
  /\ pc[t] = "loop"
  /\ run
  /\ Goto(t, "fetch")
  /\ UNCHANGED <<main, candidate, arrived, shared, threadnum, next_job, job, late, failed>>

Quit(t) ==
  /\ pc[t] = "loop"
  /\ ~run
  /\ Goto(t, "done")
  /\ UNCHANGED <<main, candidate, arrived, shared, threadnum, next_job, job, late, failed>>

\* Fault: off by one, > for >= in get_next_bitslice_job.
DrawJob_OffByOne(t) ==
  /\ pc[t] = "fetch"
  /\ next_job <= NumJobs
  /\ job' = [job EXCEPT ![t] = next_job]
  /\ next_job' = next_job + 1
  /\ Goto(t, "search")
  /\ UNCHANGED <<main, candidate, arrived, shared, threadnum, late, failed>>

\* get_next_bitslice_job.
DrawJob(t) ==
  /\ pc[t] = "fetch"
  /\ next_job < NumJobs
  /\ job' = [job EXCEPT ![t] = next_job]
  /\ next_job' = next_job + 1
  /\ late' = [late EXCEPT ![t] = IF run THEN @ ELSE @ + 1]
  /\ Goto(t, "search")
  /\ UNCHANGED <<main, candidate, arrived, shared, threadnum, failed>>

\* Fault: a thread without a job tries again.
NoMoreJobs_Retries(t) ==
  /\ pc[t] = "fetch"
  /\ next_job >= NumJobs
  /\ Goto(t, "loop")
  /\ UNCHANGED <<main, candidate, arrived, shared, threadnum, next_job, job, late, failed>>

\* It clears run when the jobs are used up: others still work on theirs.
NoMoreJobs(t) ==
  /\ pc[t] = "fetch"
  /\ next_job >= NumJobs
  /\ run' = FALSE
  /\ Goto(t, "done")
  /\ UNCHANGED <<main, candidate, arrived, success, found, threadnum, next_job, job,
                 late, failed>>

\* halfloop_cuda_bitslice: the kernel's words reverted to keys, those kept for
\* which ct0 decrypts to a valid plaintext.
Returned(t) == Found[candidate][job[t]] \cap Valid

\* Fault: the keys of a job are dropped when run was cleared meanwhile.
Matches_OnlyWhileRunning(t) == IF run THEN Returned(t) \cap Good ELSE {}

\* Fault: a key that decrypts one tuple is enough.
Matches_One(t) == Returned(t)

\* The keys of the job that decrypt most of the tuples.
Matches(t) == Returned(t) \cap Good

\* No key of the job passes: next round of the loop.
NoMatch(t) ==
  /\ pc[t] = "search"
  /\ Matches(t) = {}
  /\ Goto(t, "loop")
  /\ UNCHANGED <<main, candidate, arrived, shared, threadnum, next_job, job, late, failed>>

\* The first key that passes is decided on before the mutex is taken; the order
\* of the keys in the array is that of atomicAdd, so any may be the first.
Match(t) ==
  /\ pc[t] = "search"
  /\ Matches(t) # {}
  /\ Goto(t, "publish")
  /\ UNCHANGED <<main, candidate, arrived, shared, threadnum, next_job, job, late, failed>>

\* Fault: the key is stored, but success is not set.
Publish_NoSuccess(t) ==
  /\ pc[t] = "publish"
  /\ \E k \in Matches(t) : found' = k
  /\ run' = FALSE
  /\ Goto(t, "done")
  /\ UNCHANGED <<main, candidate, arrived, success, threadnum, next_job, job, late, failed>>

Publish(t) ==
  /\ pc[t] = "publish"
  /\ \E k \in Matches(t) : found' = k
  /\ run' = FALSE
  /\ success' = TRUE
  /\ Goto(t, "done")
  /\ UNCHANGED <<main, candidate, arrived, threadnum, next_job, job, late, failed>>

\* halfloop_cuda_bitslice returns an error.
JobFails(t) ==
  /\ JobErrors
  /\ pc[t] = "search"
  /\ Goto(t, "error")
  /\ UNCHANGED <<main, candidate, arrived, shared, threadnum, next_job, job, late, failed>>

Fail(t) ==
  /\ pc[t] = "error"
  /\ run' = FALSE
  /\ failed' = failed \cup {candidate}
  /\ Goto(t, "done")
  /\ UNCHANGED <<main, candidate, arrived, success, found, threadnum, next_job, job, late>>

-----------------------------------------------------------------------------
Joined == main = "joining" /\ \A t \in Threads : pc[t] = "done"

\* The call returned HALFLOOP_SUCCESS: main prints the key and ends.
KeyFound ==
  /\ Joined
  /\ success
  /\ main' = "found"
  /\ UNCHANGED <<candidate, pc, arrived, shared, threadnum, next_job, job, late, failed>>

\* It returned HALFLOOP_FAILURE: main goes on with the next candidate.
NextCandidate ==
  /\ Joined
  /\ ~success
  /\ candidate' = candidate + 1
  /\ main' = "start"
  /\ UNCHANGED <<pc, arrived, shared, threadnum, next_job, job, late, failed>>

\* No candidate is left.
NoMatchingKey ==
  /\ main = "start"
  /\ candidate > NumCandidates
  /\ main' = "none"
  /\ UNCHANGED <<candidate, pc, arrived, shared, threadnum, next_job, job, late, failed>>

Ended == main \in {"found", "none", "error"}
Main == Start \/ StartFails \/ KeyFound \/ NextCandidate \/ NoMatchingKey
Thread(t) ==
  \/ Number(t) \/ Arrive(t) \/ SetupFails(t) \/ PassBarrier(t)
  \/ Continue(t) \/ Quit(t) \/ DrawJob(t) \/ NoMoreJobs(t)
  \/ NoMatch(t) \/ Match(t) \/ Publish(t) \/ JobFails(t) \/ Fail(t)
Next == Main \/ (\E t \in Threads : Thread(t)) \/ (Ended /\ UNCHANGED vars)

Spec == Init /\ [][Next]_vars

\* main and every thread that can run is scheduled.
FairSpec == Spec /\ WF_vars(Main) /\ \A t \in Threads : WF_vars(Thread(t))
-----------------------------------------------------------------------------
(* Properties.                                                               *)

Labels == {"start", "setup", "barrier", "loop", "fetch", "search", "publish",
           "error", "done"}

\* Every variable has its type.
TypeOK ==
  /\ main \in {"start", "joining", "found", "none", "error"}
  /\ candidate \in 1 .. NumCandidates + 1
  /\ main = "joining" => candidate \in Candidates
  /\ pc \in [Threads -> Labels]
  /\ arrived \subseteq Threads
  /\ run \in BOOLEAN
  /\ success \in BOOLEAN
  /\ found \in Keys \cup {NoKey}
  /\ threadnum \in 0 .. Cardinality(Threads)
  /\ next_job \in 0 .. NumJobs
  /\ job \in [Threads -> Jobs]
  /\ late \in [Threads -> Nat]
  /\ failed \subseteq Candidates

\* The right key decrypts every tuple to a valid plaintext, the first one too.
GoodKeys(c) == (UNION {Found[c][j] : j \in Jobs}) \cap Valid \cap Good

\* An error costs the candidate in whose search it happens, and no other: main
\* goes past a candidate without one only if none of its jobs turns up a good
\* key, though the thread that finds the jobs used up clears run while others are
\* in the middle of theirs, and whatever failed in the search of another.
NoKeyMissed == \A c \in 1 .. candidate - 1 :
  c \notin failed => GoodKeys(c) = {}

\* The key that main prints belongs to the candidate it was tested for, and it
\* is never the zero *found started with; a failing thread does not change that.
PrintedKeyIsGood == main = "found" => found \in GoodKeys(candidate)

\* A key that was found is not lost: when a thread has stored one, main ends
\* with it, whatever the other threads still do.
FoundKeyIsPrinted == \A t \in Threads :
  pc[t] = "publish" ~> main = "found"

\* Once a key is found or a thread has failed, every other thread draws at most
\* the one job for which it had already read run.
StopsPromptly == \A t \in Threads : late[t] <= 1

\* When all threads of a candidate have reached the barrier, main gets past it.
Progress == \A c \in Candidates :
  (main = "joining" /\ candidate = c /\ arrived = Threads) ~> (Ended \/ candidate = c + 1)
=============================================================================
