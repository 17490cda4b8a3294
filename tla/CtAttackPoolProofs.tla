--------------------------- MODULE CtAttackPoolProofs ---------------------------
(*****************************************************************************)
(* Proofs that the pool's invariants hold for any number of devices, jobs,   *)
(* keys and slots, with errors at any point.                                 *)
(*****************************************************************************)
EXTENDS CtAttackPool, FiniteSetTheorems, TLAPS

-----------------------------------------------------------------------------
(* The inductive invariant, by concern.                                      *)

Critical == {"number", "next", "advance", "append"}
Working == {"kernel", "check", "merge", "append"}
Early == {"start", "number", "setup"}

\* The mutex is held exactly by the thread inside a critical section.
LockInv == \A t \in Threads : pc[t] \in Critical <=> mutex = t

NumberedThreads == {t \in Threads : Numbered(t)}

\* threadnum counts the numbered threads, whose numbers are distinct and below.
NumberInv ==
  /\ threadnum = Cardinality(NumberedThreads)
  /\ \A t \in Threads :
       /\ pc[t] = "number" => number[t] = threadnum
       /\ Numbered(t) => number[t] < threadnum
  /\ \A t, u \in Threads :
       t # u /\ Numbered(t) /\ Numbered(u) => number[t] # number[u]

HandedOut == {JobOf(n) : n \in 0 .. next_job - 1}

\* Jobs below next_job are searched or held by one working thread; the thread
\* about to advance the counter holds the next one.
JobInv ==
  /\ searched \subseteq HandedOut
  /\ \A t \in Threads :
       /\ pc[t] = "advance" => next_job < Span /\ job[t] = JobOf(next_job)
       /\ pc[t] \in Working => job[t] \in HandedOut \ searched
  /\ \A t, u \in Threads :
       t # u /\ pc[t] \in Working /\ pc[u] \in Working => job[t] # job[u]
  /\ NoErrors => \A n \in 0 .. next_job - 1 :
       \/ JobOf(n) \in searched
       \/ \E t \in Threads : pc[t] \in Working /\ job[t] = JobOf(n)

\* A thread that left the loop without an error found no more jobs.
DoneInv ==
  /\ \A t \in Threads : pc[t] = "done" /\ run => next_job >= Span
  /\ main = "returned" => \A t \in Threads : pc[t] = "done"

Stored(t, k) == \E i \in 1 .. Len(candidates_d[t]) : candidates_d[t][i] = k

\* The device buffer is filled up to the capped counter, and holds the keys the
\* kernel has reported unless the flag says that it overflowed.
BufferOK(t) ==
  /\ Len(candidates_d[t]) = Capped(num_candidates_d[t])
  /\ pc[t] \in Early =>
       num_candidates_d[t] = 0 /\ num_candidates_h[t] = 0 /\ ~warn_d[t]
  /\ warn[t] => warn_d[t]
  /\ pc[t] = "kernel" =>
       \A k \in Found[job[t]] : warn_d[t] \/ k \in todo[t] \/ Stored(t, k)
  /\ pc[t] = "check" =>
       /\ num_candidates_h[t] = num_candidates_d[t]
       /\ warn[t] = warn_d[t]
       /\ \A k \in Found[job[t]] : warn_d[t] \/ Stored(t, k)

BufferInv == \A t \in Threads : BufferOK(t)

GoodKeys(j) == {j} \X (Found[j] \cap Valid[j])

SomeWarn == \E t \in Threads : warn[t]

\* What a thread found reaches the shared list, and a searched job's keys are
\* in it unless some thread has warned.
ResultOK(t) ==
  /\ pc[t] \in {"merge", "append"} =>
       /\ found[t] \subseteq {job[t]} \X Valid[job[t]]
       /\ warn[t] \/ GoodKeys(job[t]) \subseteq found[t]
  /\ pc[t] = "append" => base[t] = validated

SearchedOK == \A j \in searched : SomeWarn \/ GoodKeys(j) \subseteq validated

ResultInv == (\A t \in Threads : ResultOK(t)) /\ SearchedOK

IInv ==
  /\ TypeOK
  /\ LockInv
  /\ NumberInv
  /\ JobInv
  /\ DoneInv
  /\ BufferInv
  /\ ResultInv
-----------------------------------------------------------------------------
(* Lemmas.                                                                   *)

\* Distinct running numbers give distinct jobs.
LEMMA JobOfInjective ==
  ASSUME NEW m \in Int, NEW n \in Int, JobOf(m) = JobOf(n)
  PROVE  m = n
<1>1. Stride \in Nat \ {0} /\ FixedBits \in Int
  BY PoolAssumption
<1>2. m * Stride = n * Stride
  BY <1>1, JobOf(m) = JobOf(n) DEF JobOf
<1>3. (m - n) * Stride = 0
  BY <1>1, <1>2
<1>4. m - n = 0
  BY <1>1, <1>3
<1>5. QED
  BY <1>4

\* The jobs handed out are the jobs of the search.
LEMMA JobOfType == \A n \in 0 .. Span - 1 : JobOf(n) \in Jobs
  BY DEF Jobs

\* Every step keeps the types; JobInv bounds the counter get_next_job advances.
LEMMA TypeStep ==
  ASSUME TypeOK, JobInv, [Next]_vars
  PROVE  TypeOK'
<1> USE PoolAssumption DEF TypeOK, Labels, Goto, data, startVars, deviceVars,
     hostVars, jobVars, resultVars
<1>1. ASSUME NEW t \in Threads, LockNumber(t) PROVE TypeOK'
  BY <1>1 DEF LockNumber
<1>2. ASSUME NEW t \in Threads, UnlockNumber(t) PROVE TypeOK'
  BY <1>2 DEF UnlockNumber
<1>3. ASSUME NEW t \in Threads, Setup(t) PROVE TypeOK'
  BY <1>3 DEF Setup
<1>4. ASSUME NEW t \in Threads, SetupFails(t) PROVE TypeOK'
  BY <1>4 DEF SetupFails
<1>5. ASSUME NEW t \in Threads, Arrive(t) PROVE TypeOK'
  BY <1>5 DEF Arrive
<1>6. ASSUME NEW t \in Threads, PassBarrier(t) PROVE TypeOK'
  BY <1>6 DEF PassBarrier
<1>7. ASSUME NEW t \in Threads, Continue(t) PROVE TypeOK'
  BY <1>7 DEF Continue
<1>8. ASSUME NEW t \in Threads, Quit(t) PROVE TypeOK'
  BY <1>8 DEF Quit
<1>9. ASSUME NEW t \in Threads, LockJobs(t) PROVE TypeOK'
  BY <1>9 DEF LockJobs
<1>10. ASSUME NEW t \in Threads, NoMoreJobs(t) PROVE TypeOK'
  BY <1>10 DEF NoMoreJobs
<1>11. ASSUME NEW t \in Threads, AssignJob(t) PROVE TypeOK'
  <2>1. JobOf(next_job) \in Jobs
    BY <1>11, JobOfType DEF AssignJob
  <2>2. QED
    BY <1>11, <2>1 DEF AssignJob
<1>12. ASSUME NEW t \in Threads, AdvanceJob(t) PROVE TypeOK'
  <2>1. next_job + 1 \in 0 .. Span
    BY <1>12 DEF AdvanceJob, JobInv
  <2>2. Found[job[t]] \in SUBSET Keys
    OBVIOUS
  <2>3. QED
    BY <1>12, <2>1, <2>2 DEF AdvanceJob
<1>13. ASSUME NEW t \in Threads, Report(t) PROVE TypeOK'
  <2>1. PICK k \in todo[t] :
          /\ todo' = [todo EXCEPT ![t] = todo[t] \ {k}]
          /\ num_candidates_d' = [num_candidates_d EXCEPT ![t] = num_candidates_d[t] + 1]
          /\ \/ /\ candidates_d' = [candidates_d EXCEPT ![t] = Append(candidates_d[t], k)]
                /\ UNCHANGED warn_d
             \/ /\ warn_d' = [warn_d EXCEPT ![t] = TRUE]
                /\ UNCHANGED candidates_d
    BY <1>13, Zenon DEF Report
  <2>2. k \in Keys /\ todo[t] \ {k} \in SUBSET Keys
    OBVIOUS
  <2>3. Append(candidates_d[t], k) \in Seq(Keys)
    BY <2>2
  <2>4. candidates_d' \in [Threads -> Seq(Keys)]
    BY <2>1, <2>3
  <2>5. todo' \in [Threads -> SUBSET Keys]
    BY <2>1, <2>2
  <2>6. num_candidates_d' \in [Threads -> Nat]
    BY <2>1
  <2>7. warn_d' \in [Threads -> BOOLEAN]
    BY <2>1, Zenon
  <2>8. QED
    BY <1>13, <2>4, <2>5, <2>6, <2>7 DEF Report
<1>14. ASSUME NEW t \in Threads, CopyBack(t) PROVE TypeOK'
  BY <1>14 DEF CopyBack
<1>15. ASSUME NEW t \in Threads, Validate(t) PROVE TypeOK'
  <2>1. {<<job[t], k>> : k \in Copied(t) \cap Valid[job[t]]}
          \in SUBSET (Jobs \X Keys)
    <3>1. job[t] \in Jobs /\ Valid[job[t]] \subseteq Keys
      OBVIOUS
    <3>2. QED
      BY <3>1
  <2>2. \/ /\ Goto(t, "loop")
           /\ searched' = searched \cup {job[t]}
           /\ UNCHANGED found
        \/ /\ found' = [found EXCEPT ![t] =
                {<<job[t], k>> : k \in Copied(t) \cap Valid[job[t]]}]
           /\ Goto(t, "merge")
           /\ UNCHANGED searched
    BY <1>15 DEF Validate
  <2>3. found' \in [Threads -> SUBSET (Jobs \X Keys)]
    BY <2>1, <2>2
  <2>4. QED
    BY <1>15, <2>2, <2>3 DEF Validate
<1>16. ASSUME NEW t \in Threads, LockMerge(t) PROVE TypeOK'
  BY <1>16 DEF LockMerge
<1>17. ASSUME NEW t \in Threads, Merge(t) PROVE TypeOK'
  BY <1>17 DEF Merge
<1>18. ASSUME NEW t \in Threads, JobFails(t) PROVE TypeOK'
  BY <1>18 DEF JobFails
<1>19. ASSUME NEW t \in Threads, MergeFails(t) PROVE TypeOK'
  BY <1>19 DEF MergeFails
<1>20. ASSUME NEW t \in Threads, Fail(t) PROVE TypeOK'
  BY <1>20 DEF Fail
<1>21. CASE Return
  BY <1>21 DEF Return
<1>22. CASE UNCHANGED vars
  BY <1>22 DEF vars
<1>23. QED
  BY <1>1, <1>2, <1>3, <1>4, <1>5, <1>6, <1>7, <1>8, <1>9, <1>10, <1>11,
       <1>12, <1>13, <1>14, <1>15, <1>16, <1>17, <1>18, <1>19, <1>20, <1>21,
       <1>22 DEF Next, Thread, Terminated

\* arg->mutex is held by the thread in a critical section and by no other.
LEMMA LockStep ==
  ASSUME TypeOK, LockInv, [Next]_vars
  PROVE  LockInv'
<1> USE PoolAssumption DEF LockInv, Critical, Goto, data, startVars,
     deviceVars, hostVars, jobVars, resultVars, TypeOK, Labels
<1>1. ASSUME NEW t \in Threads, LockNumber(t) PROVE LockInv'
  BY <1>1 DEF LockNumber
<1>2. ASSUME NEW t \in Threads, UnlockNumber(t) PROVE LockInv'
  BY <1>2 DEF UnlockNumber
<1>3. ASSUME NEW t \in Threads, Setup(t) PROVE LockInv'
  BY <1>3 DEF Setup
<1>4. ASSUME NEW t \in Threads, SetupFails(t) PROVE LockInv'
  BY <1>4 DEF SetupFails
<1>5. ASSUME NEW t \in Threads, Arrive(t) PROVE LockInv'
  BY <1>5 DEF Arrive
<1>6. ASSUME NEW t \in Threads, PassBarrier(t) PROVE LockInv'
  BY <1>6 DEF PassBarrier
<1>7. ASSUME NEW t \in Threads, Continue(t) PROVE LockInv'
  BY <1>7 DEF Continue
<1>8. ASSUME NEW t \in Threads, Quit(t) PROVE LockInv'
  BY <1>8 DEF Quit
<1>9. ASSUME NEW t \in Threads, LockJobs(t) PROVE LockInv'
  BY <1>9 DEF LockJobs
<1>10. ASSUME NEW t \in Threads, NoMoreJobs(t) PROVE LockInv'
  BY <1>10 DEF NoMoreJobs
<1>11. ASSUME NEW t \in Threads, AssignJob(t) PROVE LockInv'
  BY <1>11 DEF AssignJob
<1>12. ASSUME NEW t \in Threads, AdvanceJob(t) PROVE LockInv'
  BY <1>12 DEF AdvanceJob
<1>13. ASSUME NEW t \in Threads, Report(t) PROVE LockInv'
  BY <1>13 DEF Report
<1>14. ASSUME NEW t \in Threads, CopyBack(t) PROVE LockInv'
  BY <1>14 DEF CopyBack
<1>15. ASSUME NEW t \in Threads, Validate(t) PROVE LockInv'
  BY <1>15 DEF Validate
<1>16. ASSUME NEW t \in Threads, LockMerge(t) PROVE LockInv'
  BY <1>16 DEF LockMerge
<1>17. ASSUME NEW t \in Threads, Merge(t) PROVE LockInv'
  BY <1>17 DEF Merge
<1>18. ASSUME NEW t \in Threads, JobFails(t) PROVE LockInv'
  BY <1>18 DEF JobFails
<1>19. ASSUME NEW t \in Threads, MergeFails(t) PROVE LockInv'
  BY <1>19 DEF MergeFails
<1>20. ASSUME NEW t \in Threads, Fail(t) PROVE LockInv'
  BY <1>20 DEF Fail
<1>21. CASE Return
  BY <1>21 DEF Return
<1>22. CASE UNCHANGED vars
  BY <1>22 DEF vars
<1>23. QED
  BY <1>1, <1>2, <1>3, <1>4, <1>5, <1>6, <1>7, <1>8, <1>9, <1>10, <1>11,
       <1>12, <1>13, <1>14, <1>15, <1>16, <1>17, <1>18, <1>19, <1>20, <1>21,
       <1>22 DEF Next, Thread, Terminated

\* Only an empty job counter, or an error, lets a thread finish.
LEMMA DoneStep ==
  ASSUME TypeOK, LockInv, JobInv, DoneInv, [Next]_vars
  PROVE  DoneInv'
<1> USE PoolAssumption DEF DoneInv, Goto, data, startVars, deviceVars,
     hostVars, jobVars, resultVars, TypeOK, Labels
<1>1. ASSUME NEW t \in Threads, LockNumber(t) PROVE DoneInv'
  BY <1>1 DEF LockNumber
<1>2. ASSUME NEW t \in Threads, UnlockNumber(t) PROVE DoneInv'
  BY <1>2 DEF UnlockNumber
<1>3. ASSUME NEW t \in Threads, Setup(t) PROVE DoneInv'
  BY <1>3 DEF Setup
<1>4. ASSUME NEW t \in Threads, SetupFails(t) PROVE DoneInv'
  BY <1>4 DEF SetupFails
<1>5. ASSUME NEW t \in Threads, Arrive(t) PROVE DoneInv'
  BY <1>5 DEF Arrive
<1>6. ASSUME NEW t \in Threads, PassBarrier(t) PROVE DoneInv'
  BY <1>6 DEF PassBarrier
<1>7. ASSUME NEW t \in Threads, Continue(t) PROVE DoneInv'
  BY <1>7 DEF Continue
<1>8. ASSUME NEW t \in Threads, Quit(t) PROVE DoneInv'
  BY <1>8 DEF Quit
<1>9. ASSUME NEW t \in Threads, LockJobs(t) PROVE DoneInv'
  BY <1>9 DEF LockJobs
<1>10. ASSUME NEW t \in Threads, NoMoreJobs(t) PROVE DoneInv'
  BY <1>10 DEF NoMoreJobs
<1>11. ASSUME NEW t \in Threads, AssignJob(t) PROVE DoneInv'
  BY <1>11 DEF AssignJob
<1>12. ASSUME NEW t \in Threads, AdvanceJob(t) PROVE DoneInv'
  BY <1>12 DEF AdvanceJob
<1>13. ASSUME NEW t \in Threads, Report(t) PROVE DoneInv'
  BY <1>13 DEF Report
<1>14. ASSUME NEW t \in Threads, CopyBack(t) PROVE DoneInv'
  BY <1>14 DEF CopyBack
<1>15. ASSUME NEW t \in Threads, Validate(t) PROVE DoneInv'
  BY <1>15 DEF Validate
<1>16. ASSUME NEW t \in Threads, LockMerge(t) PROVE DoneInv'
  BY <1>16 DEF LockMerge
<1>17. ASSUME NEW t \in Threads, Merge(t) PROVE DoneInv'
  BY <1>17 DEF Merge
<1>18. ASSUME NEW t \in Threads, JobFails(t) PROVE DoneInv'
  BY <1>18 DEF JobFails
<1>19. ASSUME NEW t \in Threads, MergeFails(t) PROVE DoneInv'
  BY <1>19 DEF MergeFails
<1>20. ASSUME NEW t \in Threads, Fail(t) PROVE DoneInv'
  BY <1>20 DEF Fail
<1>21. CASE Return
  BY <1>21 DEF Return
<1>22. CASE UNCHANGED vars
  BY <1>22 DEF vars
<1>23. QED
  BY <1>1, <1>2, <1>3, <1>4, <1>5, <1>6, <1>7, <1>8, <1>9, <1>10, <1>11,
       <1>12, <1>13, <1>14, <1>15, <1>16, <1>17, <1>18, <1>19, <1>20, <1>21,
       <1>22 DEF Next, Thread, Terminated

\* Kernel reports fill the device buffer in order and set the flag beyond it.
LEMMA BufferStep ==
  ASSUME TypeOK, BufferInv, NEW u \in Threads, [Next]_vars
  PROVE  BufferOK(u)'
<1> USE PoolAssumption DEF BufferInv, BufferOK, Stored, Early, Goto, data,
     startVars, deviceVars, hostVars, jobVars, resultVars, TypeOK, Labels
<1>1. ASSUME NEW t \in Threads, LockNumber(t) PROVE BufferOK(u)'
  BY <1>1 DEF LockNumber
<1>2. ASSUME NEW t \in Threads, UnlockNumber(t) PROVE BufferOK(u)'
  BY <1>2 DEF UnlockNumber
<1>3. ASSUME NEW t \in Threads, Setup(t) PROVE BufferOK(u)'
  BY <1>3 DEF Setup
<1>4. ASSUME NEW t \in Threads, SetupFails(t) PROVE BufferOK(u)'
  BY <1>4 DEF SetupFails
<1>5. ASSUME NEW t \in Threads, Arrive(t) PROVE BufferOK(u)'
  BY <1>5 DEF Arrive
<1>6. ASSUME NEW t \in Threads, PassBarrier(t) PROVE BufferOK(u)'
  BY <1>6 DEF PassBarrier
<1>7. ASSUME NEW t \in Threads, Continue(t) PROVE BufferOK(u)'
  BY <1>7 DEF Continue
<1>8. ASSUME NEW t \in Threads, Quit(t) PROVE BufferOK(u)'
  BY <1>8 DEF Quit
<1>9. ASSUME NEW t \in Threads, LockJobs(t) PROVE BufferOK(u)'
  BY <1>9 DEF LockJobs
<1>10. ASSUME NEW t \in Threads, NoMoreJobs(t) PROVE BufferOK(u)'
  BY <1>10 DEF NoMoreJobs
<1>11. ASSUME NEW t \in Threads, AssignJob(t) PROVE BufferOK(u)'
  BY <1>11 DEF AssignJob
<1>12. ASSUME NEW t \in Threads, AdvanceJob(t) PROVE BufferOK(u)'
  BY <1>12 DEF AdvanceJob
<1>13. ASSUME NEW t \in Threads, Report(t) PROVE BufferOK(u)'
  <2>1. PICK k \in todo[t] :
          /\ todo' = [todo EXCEPT ![t] = todo[t] \ {k}]
          /\ num_candidates_d' = [num_candidates_d EXCEPT ![t] = num_candidates_d[t] + 1]
          /\ \/ /\ candidates_d' = [candidates_d EXCEPT ![t] = Append(candidates_d[t], k)]
                /\ UNCHANGED warn_d
             \/ /\ warn_d' = [warn_d EXCEPT ![t] = TRUE]
                /\ UNCHANGED candidates_d
    BY <1>13, Zenon DEF Report
  <2>2. k \in Keys /\ todo[t] \ {k} \in SUBSET Keys
    OBVIOUS
  <2>3. UNCHANGED <<pc, job, num_candidates_h, warn>>
    BY <1>13 DEF Report
  <2>4. CASE u # t
    <3>1. /\ todo'[u] = todo[u] /\ num_candidates_d'[u] = num_candidates_d[u]
          /\ candidates_d'[u] = candidates_d[u] /\ warn_d'[u] = warn_d[u]
      BY <2>1, <2>4
    <3>2. QED
      BY <2>3, <3>1 DEF Capped
  <2>5. CASE u = t /\ num_candidates_d[t] < MAX_CANDIDATES
    <3>1. candidates_d'[t] = Append(candidates_d[t], k) /\ warn_d' = warn_d
      BY <1>13, <2>1, <2>5 DEF Report
    <3>2. Len(candidates_d'[t]) = Len(candidates_d[t]) + 1
      BY <2>2, <3>1
    <3>3. /\ \A i \in 1 .. Len(candidates_d[t]) : candidates_d'[t][i] = candidates_d[t][i]
          /\ candidates_d'[t][Len(candidates_d[t]) + 1] = k
      BY <2>2, <3>1
    <3>4. Len(candidates_d'[t]) = Capped(num_candidates_d'[t])
      BY <2>1, <2>5, <3>2 DEF Capped
    <3>l. Len(candidates_d[t]) \in Nat
      BY <2>2
    <3>5. ASSUME NEW x, Stored(t, x) PROVE Stored(t, x)'
      <4>1. PICK i \in 1 .. Len(candidates_d[t]) : candidates_d[t][i] = x
        BY <3>5
      <4> HIDE DEF TypeOK, BufferInv, BufferOK, Stored
      <4>2. i \in 1 .. Len(candidates_d'[t]) /\ candidates_d'[t][i] = x
        BY <4>1, <3>2, <3>3, <3>l
      <4>3. QED
        BY <4>2 DEF Stored
    <3>6. Stored(t, k)'
      <4>1. Len(candidates_d[t]) + 1 \in 1 .. Len(candidates_d'[t])
        BY <3>2, <3>l
      <4>2. QED
        BY <4>1, <3>3
    <3>7. todo'[t] = todo[t] \ {k}
      BY <2>1
    <3>8. \A x \in Found[job[t]] : warn_d[t] \/ x \in todo[t] \/ Stored(t, x)
      BY <1>13 DEF Report
    <3>9. \A x \in Found[job[t]] :
            warn_d'[t] \/ x \in todo'[t] \/ Stored(t, x)'
      <4> HIDE DEF Stored
      <4> QED
        BY <3>1, <3>5, <3>6, <3>7, <3>8
    <3>10. QED
      <4> HIDE DEF Stored
      <4> QED
        BY <2>3, <2>5, <3>1, <3>4, <3>9, <1>13 DEF Report
  <2>6. CASE u = t /\ num_candidates_d[t] >= MAX_CANDIDATES
    <3>1. candidates_d' = candidates_d /\ warn_d'[t] = TRUE
      BY <1>13, <2>1, <2>6 DEF Report
    <3>2. QED
      BY <2>1, <2>3, <2>6, <3>1, <1>13 DEF Capped, Report
  <2>7. QED
    BY <2>4, <2>5, <2>6
<1>14. ASSUME NEW t \in Threads, CopyBack(t) PROVE BufferOK(u)'
  <2>1. CASE u # t
    BY <1>14, <2>1 DEF CopyBack
  <2>2. CASE u = t
    <3>1. \A k \in Found[job[t]] : warn_d[t] \/ Stored(t, k)
      BY <1>14 DEF CopyBack
    <3>2. QED
      BY <1>14, <2>2, <3>1 DEF CopyBack
  <2>3. QED
    BY <2>1, <2>2
<1>15. ASSUME NEW t \in Threads, Validate(t) PROVE BufferOK(u)'
  <2>1. pc'[t] \in {"loop", "merge"} /\ \A v \in Threads : v # t => pc'[v] = pc[v]
    BY <1>15 DEF Validate
  <2>2. UNCHANGED <<job, deviceVars, num_candidates_h, warn>>
    BY <1>15 DEF Validate
  <2>3. QED
    BY <2>1, <2>2
<1>16. ASSUME NEW t \in Threads, LockMerge(t) PROVE BufferOK(u)'
  BY <1>16 DEF LockMerge
<1>17. ASSUME NEW t \in Threads, Merge(t) PROVE BufferOK(u)'
  BY <1>17 DEF Merge
<1>18. ASSUME NEW t \in Threads, JobFails(t) PROVE BufferOK(u)'
  BY <1>18 DEF JobFails
<1>19. ASSUME NEW t \in Threads, MergeFails(t) PROVE BufferOK(u)'
  BY <1>19 DEF MergeFails
<1>20. ASSUME NEW t \in Threads, Fail(t) PROVE BufferOK(u)'
  BY <1>20 DEF Fail
<1>21. CASE Return
  BY <1>21 DEF Return
<1>22. CASE UNCHANGED vars
  BY <1>22 DEF vars
<1>23. QED
  BY <1>1, <1>2, <1>3, <1>4, <1>5, <1>6, <1>7, <1>8, <1>9, <1>10, <1>11,
       <1>12, <1>13, <1>14, <1>15, <1>16, <1>17, <1>18, <1>19, <1>20, <1>21,
       <1>22 DEF Next, Thread, Terminated

\* Each thread takes the number that counts the threads before it.
LEMMA NumberStep ==
  ASSUME TypeOK, LockInv, NumberInv, [Next]_vars
  PROVE  NumberInv'
<1> USE PoolAssumption DEF Goto, data, startVars, deviceVars, hostVars,
     jobVars, resultVars, TypeOK, Labels
<1>1. ASSUME NEW t \in Threads, LockNumber(t) PROVE NumberInv'
  <2>1. UNCHANGED <<threadnum, NumberedThreads>> /\ pc'[t] = "number"
    BY <1>1 DEF LockNumber, NumberedThreads, Numbered
  <2>2. \A v \in Threads : Numbered(v)' <=> Numbered(v)
    BY <1>1 DEF LockNumber, Numbered
  <2>3. \A v \in Threads : v # t => pc[v] # "number" /\ pc'[v] # "number"
    BY <1>1 DEF LockNumber, LockInv, Critical
  <2>4. number'[t] = threadnum /\ \A v \in Threads : v # t => number'[v] = number[v]
    BY <1>1 DEF LockNumber
  <2>5. ~Numbered(t)
    BY <1>1 DEF LockNumber, Numbered
  <2>6. QED
    BY <2>1, <2>2, <2>3, <2>4, <2>5 DEF NumberInv
<1>2. ASSUME NEW t \in Threads, UnlockNumber(t) PROVE NumberInv'
  <2>1. NumberedThreads' = NumberedThreads \cup {t} /\ t \notin NumberedThreads
    BY <1>2 DEF UnlockNumber, NumberedThreads, Numbered
  <2>2. threadnum' = Cardinality(NumberedThreads')
    <3>1. IsFiniteSet(NumberedThreads)
      BY FS_Subset DEF NumberedThreads
    <3>2. QED
      BY <1>2, <2>1, <3>1, FS_AddElement DEF UnlockNumber, NumberInv
  <2>3. number' = number /\ threadnum' = threadnum + 1 /\ number[t] = threadnum
    BY <1>2 DEF UnlockNumber, NumberInv
  <2>4. \A v \in Threads : pc'[v] # "number"
    BY <1>2 DEF UnlockNumber, LockInv, Critical
  <2>5. \A v \in Threads : v # t => (Numbered(v)' <=> Numbered(v))
    BY <1>2 DEF UnlockNumber, Numbered
  <2>6. threadnum \in Nat /\ \A v \in Threads : Numbered(v) => number[v] < threadnum
    BY DEF NumberInv
  <2>7. \A v \in Threads : Numbered(v)' => number'[v] < threadnum'
    <3>1. TAKE v \in Threads
    <3>2. CASE v = t
      BY <2>3, <2>6, <3>2
    <3>3. CASE v # t
      BY <2>3, <2>5, <2>6, <3>3
    <3>4. QED
      BY <3>2, <3>3
  <2>8. \A v, w \in Threads :
          v # w /\ Numbered(v)' /\ Numbered(w)' => number'[v] # number'[w]
    <3>1. TAKE v, w \in Threads
    <3>2. \A x, y \in Threads :
            x # y /\ Numbered(x) /\ Numbered(y) => number[x] # number[y]
      BY DEF NumberInv
    <3>3. CASE v # t /\ w # t
      BY <2>3, <2>5, <3>2, <3>3
    <3>4. CASE v = t \/ w = t
      BY <2>3, <2>5, <2>6, <3>4
    <3>5. QED
      BY <3>3, <3>4
  <2>9. QED
    BY <2>2, <2>4, <2>7, <2>8 DEF NumberInv
<1>3. ASSUME NEW t \in Threads, Setup(t) PROVE NumberInv'
  <2>1. UNCHANGED <<number, threadnum, NumberedThreads>>
    BY <1>3 DEF Setup, NumberedThreads, Numbered
  <2>2. \A v \in Threads : /\ pc'[v] = "number" <=> pc[v] = "number"
                           /\ Numbered(v)' <=> Numbered(v)
    BY <1>3 DEF Setup, Numbered
  <2>3. QED
    BY <2>1, <2>2 DEF NumberInv
<1>4. ASSUME NEW t \in Threads, SetupFails(t) PROVE NumberInv'
  <2>1. UNCHANGED <<number, threadnum, NumberedThreads>>
    BY <1>4 DEF SetupFails, NumberedThreads, Numbered
  <2>2. \A v \in Threads : /\ pc'[v] = "number" <=> pc[v] = "number"
                           /\ Numbered(v)' <=> Numbered(v)
    BY <1>4 DEF SetupFails, Numbered
  <2>3. QED
    BY <2>1, <2>2 DEF NumberInv
<1>5. ASSUME NEW t \in Threads, Arrive(t) PROVE NumberInv'
  <2>1. UNCHANGED <<number, threadnum, NumberedThreads>>
    BY <1>5 DEF Arrive, NumberedThreads, Numbered
  <2>2. \A v \in Threads : /\ pc'[v] = "number" <=> pc[v] = "number"
                           /\ Numbered(v)' <=> Numbered(v)
    BY <1>5 DEF Arrive, Numbered
  <2>3. QED
    BY <2>1, <2>2 DEF NumberInv
<1>6. ASSUME NEW t \in Threads, PassBarrier(t) PROVE NumberInv'
  <2>1. UNCHANGED <<number, threadnum, NumberedThreads>>
    BY <1>6 DEF PassBarrier, NumberedThreads, Numbered
  <2>2. \A v \in Threads : /\ pc'[v] = "number" <=> pc[v] = "number"
                           /\ Numbered(v)' <=> Numbered(v)
    BY <1>6 DEF PassBarrier, Numbered
  <2>3. QED
    BY <2>1, <2>2 DEF NumberInv
<1>7. ASSUME NEW t \in Threads, Continue(t) PROVE NumberInv'
  <2>1. UNCHANGED <<number, threadnum, NumberedThreads>>
    BY <1>7 DEF Continue, NumberedThreads, Numbered
  <2>2. \A v \in Threads : /\ pc'[v] = "number" <=> pc[v] = "number"
                           /\ Numbered(v)' <=> Numbered(v)
    BY <1>7 DEF Continue, Numbered
  <2>3. QED
    BY <2>1, <2>2 DEF NumberInv
<1>8. ASSUME NEW t \in Threads, Quit(t) PROVE NumberInv'
  <2>1. UNCHANGED <<number, threadnum, NumberedThreads>>
    BY <1>8 DEF Quit, NumberedThreads, Numbered
  <2>2. \A v \in Threads : /\ pc'[v] = "number" <=> pc[v] = "number"
                           /\ Numbered(v)' <=> Numbered(v)
    BY <1>8 DEF Quit, Numbered
  <2>3. QED
    BY <2>1, <2>2 DEF NumberInv
<1>9. ASSUME NEW t \in Threads, LockJobs(t) PROVE NumberInv'
  <2>1. UNCHANGED <<number, threadnum, NumberedThreads>>
    BY <1>9 DEF LockJobs, NumberedThreads, Numbered
  <2>2. \A v \in Threads : /\ pc'[v] = "number" <=> pc[v] = "number"
                           /\ Numbered(v)' <=> Numbered(v)
    BY <1>9 DEF LockJobs, Numbered
  <2>3. QED
    BY <2>1, <2>2 DEF NumberInv
<1>10. ASSUME NEW t \in Threads, NoMoreJobs(t) PROVE NumberInv'
  <2>1. UNCHANGED <<number, threadnum, NumberedThreads>>
    BY <1>10 DEF NoMoreJobs, NumberedThreads, Numbered
  <2>2. \A v \in Threads : /\ pc'[v] = "number" <=> pc[v] = "number"
                           /\ Numbered(v)' <=> Numbered(v)
    BY <1>10 DEF NoMoreJobs, Numbered
  <2>3. QED
    BY <2>1, <2>2 DEF NumberInv
<1>11. ASSUME NEW t \in Threads, AssignJob(t) PROVE NumberInv'
  <2>1. UNCHANGED <<number, threadnum, NumberedThreads>>
    BY <1>11 DEF AssignJob, NumberedThreads, Numbered
  <2>2. \A v \in Threads : /\ pc'[v] = "number" <=> pc[v] = "number"
                           /\ Numbered(v)' <=> Numbered(v)
    BY <1>11 DEF AssignJob, Numbered
  <2>3. QED
    BY <2>1, <2>2 DEF NumberInv
<1>12. ASSUME NEW t \in Threads, AdvanceJob(t) PROVE NumberInv'
  <2>1. UNCHANGED <<number, threadnum, NumberedThreads>>
    BY <1>12 DEF AdvanceJob, NumberedThreads, Numbered
  <2>2. \A v \in Threads : /\ pc'[v] = "number" <=> pc[v] = "number"
                           /\ Numbered(v)' <=> Numbered(v)
    BY <1>12 DEF AdvanceJob, Numbered
  <2>3. QED
    BY <2>1, <2>2 DEF NumberInv
<1>13. ASSUME NEW t \in Threads, Report(t) PROVE NumberInv'
  <2>1. UNCHANGED <<number, threadnum, NumberedThreads>>
    BY <1>13 DEF Report, NumberedThreads, Numbered
  <2>2. \A v \in Threads : /\ pc'[v] = "number" <=> pc[v] = "number"
                           /\ Numbered(v)' <=> Numbered(v)
    BY <1>13 DEF Report, Numbered
  <2>3. QED
    BY <2>1, <2>2 DEF NumberInv
<1>14. ASSUME NEW t \in Threads, CopyBack(t) PROVE NumberInv'
  <2>1. UNCHANGED <<number, threadnum, NumberedThreads>>
    BY <1>14 DEF CopyBack, NumberedThreads, Numbered
  <2>2. \A v \in Threads : /\ pc'[v] = "number" <=> pc[v] = "number"
                           /\ Numbered(v)' <=> Numbered(v)
    BY <1>14 DEF CopyBack, Numbered
  <2>3. QED
    BY <2>1, <2>2 DEF NumberInv
<1>15. ASSUME NEW t \in Threads, Validate(t) PROVE NumberInv'
  <2>1. UNCHANGED <<number, threadnum, NumberedThreads>>
    BY <1>15 DEF Validate, NumberedThreads, Numbered
  <2>2. \A v \in Threads : /\ pc'[v] = "number" <=> pc[v] = "number"
                           /\ Numbered(v)' <=> Numbered(v)
    BY <1>15 DEF Validate, Numbered
  <2>3. QED
    BY <2>1, <2>2 DEF NumberInv
<1>16. ASSUME NEW t \in Threads, LockMerge(t) PROVE NumberInv'
  <2>1. UNCHANGED <<number, threadnum, NumberedThreads>>
    BY <1>16 DEF LockMerge, NumberedThreads, Numbered
  <2>2. \A v \in Threads : /\ pc'[v] = "number" <=> pc[v] = "number"
                           /\ Numbered(v)' <=> Numbered(v)
    BY <1>16 DEF LockMerge, Numbered
  <2>3. QED
    BY <2>1, <2>2 DEF NumberInv
<1>17. ASSUME NEW t \in Threads, Merge(t) PROVE NumberInv'
  <2>1. UNCHANGED <<number, threadnum, NumberedThreads>>
    BY <1>17 DEF Merge, NumberedThreads, Numbered
  <2>2. \A v \in Threads : /\ pc'[v] = "number" <=> pc[v] = "number"
                           /\ Numbered(v)' <=> Numbered(v)
    BY <1>17 DEF Merge, Numbered
  <2>3. QED
    BY <2>1, <2>2 DEF NumberInv
<1>18. ASSUME NEW t \in Threads, JobFails(t) PROVE NumberInv'
  <2>1. UNCHANGED <<number, threadnum, NumberedThreads>>
    BY <1>18 DEF JobFails, NumberedThreads, Numbered
  <2>2. \A v \in Threads : /\ pc'[v] = "number" <=> pc[v] = "number"
                           /\ Numbered(v)' <=> Numbered(v)
    BY <1>18 DEF JobFails, Numbered
  <2>3. QED
    BY <2>1, <2>2 DEF NumberInv
<1>19. ASSUME NEW t \in Threads, MergeFails(t) PROVE NumberInv'
  <2>1. UNCHANGED <<number, threadnum, NumberedThreads>>
    BY <1>19 DEF MergeFails, NumberedThreads, Numbered
  <2>2. \A v \in Threads : /\ pc'[v] = "number" <=> pc[v] = "number"
                           /\ Numbered(v)' <=> Numbered(v)
    BY <1>19 DEF MergeFails, Numbered
  <2>3. QED
    BY <2>1, <2>2 DEF NumberInv
<1>20. ASSUME NEW t \in Threads, Fail(t) PROVE NumberInv'
  <2>1. UNCHANGED <<number, threadnum, NumberedThreads>>
    BY <1>20 DEF Fail, NumberedThreads, Numbered
  <2>2. \A v \in Threads : /\ pc'[v] = "number" <=> pc[v] = "number"
                           /\ Numbered(v)' <=> Numbered(v)
    BY <1>20 DEF Fail, Numbered
  <2>3. QED
    BY <2>1, <2>2 DEF NumberInv
<1>21. CASE Return
  BY <1>21 DEF Return, NumberInv, NumberedThreads, Numbered
<1>22. CASE UNCHANGED vars
  BY <1>22 DEF vars, NumberInv, NumberedThreads, Numbered
<1>23. QED
  BY <1>1, <1>2, <1>3, <1>4, <1>5, <1>6, <1>7, <1>8, <1>9, <1>10, <1>11,
       <1>12, <1>13, <1>14, <1>15, <1>16, <1>17, <1>18, <1>19, <1>20, <1>21,
       <1>22 DEF Next, Thread, Terminated

\* A job handed out is searched, or held by exactly one working thread.
LEMMA JobStep ==
  ASSUME TypeOK, LockInv, JobInv, DoneInv, [Next]_vars
  PROVE  JobInv'
<1> USE PoolAssumption DEF JobInv, LockInv, Critical, HandedOut, NoErrors,
     Working, Goto, data, startVars, deviceVars, hostVars, jobVars,
     resultVars, TypeOK, Labels
<1>1. ASSUME NEW t \in Threads, LockNumber(t) PROVE JobInv'
  BY <1>1 DEF LockNumber
<1>2. ASSUME NEW t \in Threads, UnlockNumber(t) PROVE JobInv'
  BY <1>2 DEF UnlockNumber
<1>3. ASSUME NEW t \in Threads, Setup(t) PROVE JobInv'
  BY <1>3 DEF Setup
<1>4. ASSUME NEW t \in Threads, SetupFails(t) PROVE JobInv'
  BY <1>4 DEF SetupFails
<1>5. ASSUME NEW t \in Threads, Arrive(t) PROVE JobInv'
  BY <1>5 DEF Arrive
<1>6. ASSUME NEW t \in Threads, PassBarrier(t) PROVE JobInv'
  BY <1>6 DEF PassBarrier
<1>7. ASSUME NEW t \in Threads, Continue(t) PROVE JobInv'
  BY <1>7 DEF Continue
<1>8. ASSUME NEW t \in Threads, Quit(t) PROVE JobInv'
  BY <1>8 DEF Quit
<1>9. ASSUME NEW t \in Threads, LockJobs(t) PROVE JobInv'
  BY <1>9 DEF LockJobs
<1>10. ASSUME NEW t \in Threads, NoMoreJobs(t) PROVE JobInv'
  BY <1>10 DEF NoMoreJobs
<1>11. ASSUME NEW t \in Threads, AssignJob(t) PROVE JobInv'
  BY <1>11 DEF AssignJob
<1>12. ASSUME NEW t \in Threads, AdvanceJob(t) PROVE JobInv'
  <2>1. \A n \in 0 .. next_job' - 1 : n \in 0 .. next_job - 1 \/ n = next_job
    BY <1>12 DEF AdvanceJob
  <2>2. HandedOut \subseteq HandedOut' /\ job[t] \in HandedOut'
    <3>1. next_job' = next_job + 1 /\ job[t] = JobOf(next_job)
      BY <1>12 DEF AdvanceJob
    <3>2. next_job \in 0 .. next_job' - 1
      BY <3>1
    <3>3. 0 .. next_job - 1 \subseteq 0 .. next_job' - 1
      BY <3>1
    <3>4. QED
      BY <3>1, <3>2, <3>3
  <2>3. job[t] \notin HandedOut
    <3>1. ASSUME NEW n \in 0 .. next_job - 1, job[t] = JobOf(n) PROVE FALSE
      <4>1. next_job = n
        BY <1>12, <3>1, JobOfInjective DEF AdvanceJob
      <4>2. QED
        BY <3>1, <4>1
    <3>2. QED
      BY <3>1
  <2>4. /\ pc'[t] = "kernel" /\ pc[t] = "advance"
        /\ \A v \in Threads : v # t => pc'[v] = pc[v] /\ pc[v] # "advance"
        /\ UNCHANGED <<job, searched, run>>
    BY <1>12 DEF AdvanceJob
  <2>5. \A v \in Threads :
          /\ pc'[v] # "advance"
          /\ pc'[v] \in Working => job'[v] \in HandedOut' \ searched'
    BY <2>2, <2>3, <2>4
  <2>6. \A v, w \in Threads :
          v # w /\ pc'[v] \in Working /\ pc'[w] \in Working => job'[v] # job'[w]
    <3>1. \A v \in Threads : v # t /\ pc'[v] \in Working =>
            pc[v] \in Working /\ job[v] \in HandedOut
      BY <2>4
    <3>2. job' = job
      BY <2>4
    <3>3. TAKE v, w \in Threads
    <3>4. CASE v = t \/ w = t
      BY <2>3, <3>1, <3>2, <3>4
    <3>5. CASE v # t /\ w # t
      BY <3>1, <3>2, <3>5
    <3>6. QED
      BY <3>4, <3>5
  <2>7. NoErrors' => \A n \in 0 .. next_job' - 1 :
          \/ JobOf(n) \in searched'
          \/ \E v \in Threads : pc'[v] \in Working /\ job'[v] = JobOf(n)
    <3>1. NoErrors' => NoErrors
      BY <2>4
    <3>2. job'[t] = JobOf(next_job)
      BY <2>4
    <3>3. QED
      BY <2>1, <2>4, <3>1, <3>2
  <2>8. searched' \subseteq HandedOut'
    BY <2>2, <2>4
  <2>9. QED
    <3> HIDE DEF HandedOut, NoErrors, Working
    <3> QED
      BY <2>5, <2>6, <2>7, <2>8
<1>13. ASSUME NEW t \in Threads, Report(t) PROVE JobInv'
  BY <1>13 DEF Report
<1>14. ASSUME NEW t \in Threads, CopyBack(t) PROVE JobInv'
  <2>1. /\ UNCHANGED <<job, searched, run, next_job>>
        /\ pc[t] = "kernel" /\ pc'[t] = "check"
        /\ \A v \in Threads : v # t => pc'[v] = pc[v]
    BY <1>14 DEF CopyBack
  <2>2. QED
    BY <2>1
<1>15. ASSUME NEW t \in Threads, Validate(t) PROVE JobInv'
  <2>1. /\ UNCHANGED <<job, run, next_job>>
        /\ pc[t] = "check"
        /\ \A v \in Threads : v # t => pc'[v] = pc[v]
        /\ \/ pc'[t] = "loop" /\ searched' = searched \cup {job[t]}
           \/ pc'[t] = "merge" /\ searched' = searched
    BY <1>15 DEF Validate
  <2>2. QED
    BY <2>1
<1>16. ASSUME NEW t \in Threads, LockMerge(t) PROVE JobInv'
  BY <1>16 DEF LockMerge
<1>17. ASSUME NEW t \in Threads, Merge(t) PROVE JobInv'
  BY <1>17 DEF Merge
<1>18. ASSUME NEW t \in Threads, JobFails(t) PROVE JobInv'
  BY <1>18 DEF JobFails
<1>19. ASSUME NEW t \in Threads, MergeFails(t) PROVE JobInv'
  BY <1>19 DEF MergeFails
<1>20. ASSUME NEW t \in Threads, Fail(t) PROVE JobInv'
  BY <1>20 DEF Fail
<1>21. CASE Return
  BY <1>21 DEF Return
<1>22. CASE UNCHANGED vars
  BY <1>22 DEF vars
<1>23. QED
  BY <1>1, <1>2, <1>3, <1>4, <1>5, <1>6, <1>7, <1>8, <1>9, <1>10, <1>11,
       <1>12, <1>13, <1>14, <1>15, <1>16, <1>17, <1>18, <1>19, <1>20, <1>21,
       <1>22 DEF Next, Thread, Terminated

\* The keys that pass validation are the good ones, unless the kernel warned.
LEMMA PassedAreGood ==
  ASSUME TypeOK, BufferInv, NEW t \in Threads, pc[t] = "check", ~warn[t]
  PROVE  GoodKeys(job[t]) \subseteq
           {<<job[t], k>> : k \in Copied(t) \cap Valid[job[t]]}
<1>1. 1 .. Capped(num_candidates_h[t]) = 1 .. Len(candidates_d[t])
  BY DEF BufferInv, BufferOK
<1>2. \A k \in Found[job[t]] : k \in Copied(t)
  BY <1>1 DEF BufferInv, BufferOK, Stored, Copied
<1>3. QED
  BY <1>2 DEF GoodKeys

\* A thread carries its validated keys to the list it has locked.
LEMMA ResultStep ==
  ASSUME TypeOK, LockInv, BufferInv, ResultInv, NEW u \in Threads, [Next]_vars
  PROVE  ResultOK(u)'
<1> USE PoolAssumption DEF LockInv, Critical, ResultInv, ResultOK, GoodKeys,
     Goto, data, startVars, deviceVars, hostVars, jobVars, resultVars, TypeOK,
     Labels
<1>1. ASSUME NEW t \in Threads, LockNumber(t) PROVE ResultOK(u)'
  BY <1>1 DEF LockNumber
<1>2. ASSUME NEW t \in Threads, UnlockNumber(t) PROVE ResultOK(u)'
  BY <1>2 DEF UnlockNumber
<1>3. ASSUME NEW t \in Threads, Setup(t) PROVE ResultOK(u)'
  BY <1>3 DEF Setup
<1>4. ASSUME NEW t \in Threads, SetupFails(t) PROVE ResultOK(u)'
  BY <1>4 DEF SetupFails
<1>5. ASSUME NEW t \in Threads, Arrive(t) PROVE ResultOK(u)'
  BY <1>5 DEF Arrive
<1>6. ASSUME NEW t \in Threads, PassBarrier(t) PROVE ResultOK(u)'
  BY <1>6 DEF PassBarrier
<1>7. ASSUME NEW t \in Threads, Continue(t) PROVE ResultOK(u)'
  BY <1>7 DEF Continue
<1>8. ASSUME NEW t \in Threads, Quit(t) PROVE ResultOK(u)'
  BY <1>8 DEF Quit
<1>9. ASSUME NEW t \in Threads, LockJobs(t) PROVE ResultOK(u)'
  BY <1>9 DEF LockJobs
<1>10. ASSUME NEW t \in Threads, NoMoreJobs(t) PROVE ResultOK(u)'
  BY <1>10 DEF NoMoreJobs
<1>11. ASSUME NEW t \in Threads, AssignJob(t) PROVE ResultOK(u)'
  BY <1>11 DEF AssignJob
<1>12. ASSUME NEW t \in Threads, AdvanceJob(t) PROVE ResultOK(u)'
  BY <1>12 DEF AdvanceJob
<1>13. ASSUME NEW t \in Threads, Report(t) PROVE ResultOK(u)'
  BY <1>13 DEF Report
<1>14. ASSUME NEW t \in Threads, CopyBack(t) PROVE ResultOK(u)'
  BY <1>14 DEF CopyBack
<1>15. ASSUME NEW t \in Threads, Validate(t) PROVE ResultOK(u)'
  <2> DEFINE passed == {<<job[t], k>> : k \in Copied(t) \cap Valid[job[t]]}
  <2>1. /\ UNCHANGED <<job, warn, base, validated>>
        /\ pc[t] = "check"
        /\ \A v \in Threads : v # t => pc'[v] = pc[v] /\ found'[v] = found[v]
        /\ \/ pc'[t] = "loop"
           \/ pc'[t] = "merge" /\ found'[t] = passed
    BY <1>15 DEF Validate
  <2>2. passed \subseteq {job[t]} \X Valid[job[t]]
    OBVIOUS
  <2>3. warn[t] \/ GoodKeys(job[t]) \subseteq passed
    BY <2>1, PassedAreGood
  <2>4. QED
    <3> HIDE DEF passed, GoodKeys
    <3> QED
      BY <2>1, <2>2, <2>3
<1>16. ASSUME NEW t \in Threads, LockMerge(t) PROVE ResultOK(u)'
  BY <1>16 DEF LockMerge
<1>17. ASSUME NEW t \in Threads, Merge(t) PROVE ResultOK(u)'
  BY <1>17 DEF Merge
<1>18. ASSUME NEW t \in Threads, JobFails(t) PROVE ResultOK(u)'
  BY <1>18 DEF JobFails
<1>19. ASSUME NEW t \in Threads, MergeFails(t) PROVE ResultOK(u)'
  BY <1>19 DEF MergeFails
<1>20. ASSUME NEW t \in Threads, Fail(t) PROVE ResultOK(u)'
  BY <1>20 DEF Fail
<1>21. CASE Return
  BY <1>21 DEF Return
<1>22. CASE UNCHANGED vars
  BY <1>22 DEF vars
<1>23. QED
  BY <1>1, <1>2, <1>3, <1>4, <1>5, <1>6, <1>7, <1>8, <1>9, <1>10, <1>11,
       <1>12, <1>13, <1>14, <1>15, <1>16, <1>17, <1>18, <1>19, <1>20, <1>21,
       <1>22 DEF Next, Thread, Terminated

\* The keys of a searched job stay in the shared list.
LEMMA SearchedStep ==
  ASSUME TypeOK, BufferInv, ResultInv, [Next]_vars
  PROVE  SearchedOK'
<1> SearchedOK
  BY DEF ResultInv
<1> USE PoolAssumption DEF SearchedOK, Goto, data, startVars, deviceVars,
     hostVars, jobVars, resultVars, TypeOK, Labels
<1>1. ASSUME NEW t \in Threads, LockNumber(t) PROVE SearchedOK'
  BY <1>1 DEF LockNumber, SomeWarn
<1>2. ASSUME NEW t \in Threads, UnlockNumber(t) PROVE SearchedOK'
  BY <1>2 DEF UnlockNumber, SomeWarn
<1>3. ASSUME NEW t \in Threads, Setup(t) PROVE SearchedOK'
  BY <1>3 DEF Setup, SomeWarn
<1>4. ASSUME NEW t \in Threads, SetupFails(t) PROVE SearchedOK'
  BY <1>4 DEF SetupFails, SomeWarn
<1>5. ASSUME NEW t \in Threads, Arrive(t) PROVE SearchedOK'
  BY <1>5 DEF Arrive, SomeWarn
<1>6. ASSUME NEW t \in Threads, PassBarrier(t) PROVE SearchedOK'
  BY <1>6 DEF PassBarrier, SomeWarn
<1>7. ASSUME NEW t \in Threads, Continue(t) PROVE SearchedOK'
  BY <1>7 DEF Continue, SomeWarn
<1>8. ASSUME NEW t \in Threads, Quit(t) PROVE SearchedOK'
  BY <1>8 DEF Quit, SomeWarn
<1>9. ASSUME NEW t \in Threads, LockJobs(t) PROVE SearchedOK'
  BY <1>9 DEF LockJobs, SomeWarn
<1>10. ASSUME NEW t \in Threads, NoMoreJobs(t) PROVE SearchedOK'
  BY <1>10 DEF NoMoreJobs, SomeWarn
<1>11. ASSUME NEW t \in Threads, AssignJob(t) PROVE SearchedOK'
  BY <1>11 DEF AssignJob, SomeWarn
<1>12. ASSUME NEW t \in Threads, AdvanceJob(t) PROVE SearchedOK'
  BY <1>12 DEF AdvanceJob, SomeWarn
<1>13. ASSUME NEW t \in Threads, Report(t) PROVE SearchedOK'
  BY <1>13 DEF Report, SomeWarn
<1>14. ASSUME NEW t \in Threads, CopyBack(t) PROVE SearchedOK'
  <2>1. SomeWarn => SomeWarn'
    BY <1>14 DEF CopyBack, SomeWarn, BufferInv, BufferOK
  <2>2. UNCHANGED <<searched, validated>>
    BY <1>14 DEF CopyBack
  <2>3. QED
    BY <2>1, <2>2
<1>15. ASSUME NEW t \in Threads, Validate(t) PROVE SearchedOK'
  <2> DEFINE passed == {<<job[t], k>> : k \in Copied(t) \cap Valid[job[t]]}
  <2>1. UNCHANGED <<warn, validated, SomeWarn>>
    BY <1>15 DEF Validate, SomeWarn
  <2>2. CASE searched' = searched
    BY <2>1, <2>2
  <2>3. CASE passed = {} /\ searched' = searched \cup {job[t]}
    <3>1. warn[t] \/ GoodKeys(job[t]) \subseteq {}
      BY <2>3, <1>15, PassedAreGood DEF Validate
    <3>2. SomeWarn \/ GoodKeys(job[t]) \subseteq validated
      BY <3>1 DEF SomeWarn
    <3>3. QED
      BY <2>1, <2>3, <3>2
  <2>4. QED
    BY <1>15, <2>2, <2>3 DEF Validate
<1>16. ASSUME NEW t \in Threads, LockMerge(t) PROVE SearchedOK'
  BY <1>16 DEF LockMerge, SomeWarn
<1>17. ASSUME NEW t \in Threads, Merge(t) PROVE SearchedOK'
  <2>1. UNCHANGED <<warn, SomeWarn>>
    BY <1>17 DEF Merge, SomeWarn
  <2>2. validated' = validated \cup found[t]
    BY <1>17 DEF Merge, ResultInv, ResultOK
  <2>3. warn[t] \/ GoodKeys(job[t]) \subseteq found[t]
    BY <1>17 DEF Merge, ResultInv, ResultOK
  <2>4. searched' = searched \cup {job[t]}
    BY <1>17 DEF Merge
  <2>5. QED
    BY <2>1, <2>2, <2>3, <2>4 DEF SomeWarn
<1>18. ASSUME NEW t \in Threads, JobFails(t) PROVE SearchedOK'
  BY <1>18 DEF JobFails, SomeWarn
<1>19. ASSUME NEW t \in Threads, MergeFails(t) PROVE SearchedOK'
  BY <1>19 DEF MergeFails, SomeWarn
<1>20. ASSUME NEW t \in Threads, Fail(t) PROVE SearchedOK'
  BY <1>20 DEF Fail, SomeWarn
<1>21. CASE Return
  BY <1>21 DEF Return, SomeWarn
<1>22. CASE UNCHANGED vars
  BY <1>22 DEF vars, SomeWarn
<1>23. QED
  BY <1>1, <1>2, <1>3, <1>4, <1>5, <1>6, <1>7, <1>8, <1>9, <1>10, <1>11,
       <1>12, <1>13, <1>14, <1>15, <1>16, <1>17, <1>18, <1>19, <1>20, <1>21,
       <1>22 DEF Next, Thread, Terminated

-----------------------------------------------------------------------------
(* The invariant is inductive.                                               *)

\* The invariant holds when cuda_ct_attack creates the threads.
LEMMA InitIInv == Init => IInv
<1> SUFFICES ASSUME Init PROVE IInv
  OBVIOUS
<1> USE PoolAssumption
<1>1. TypeOK
  <2>1. JobOf(0) \in Jobs
    BY JobOfType
  <2>2. QED
    BY <2>1 DEF Init, TypeOK, Labels
<1>2. LockInv
  BY DEF Init, LockInv, Critical
<1>3. NumberInv
  <2>1. NumberedThreads = {}
    BY DEF Init, NumberedThreads, Numbered
  <2>2. QED
    BY <2>1, FS_EmptySet DEF Init, NumberInv, Numbered
<1>4. JobInv
  BY DEF Init, JobInv, Working
<1>5. DoneInv
  BY DEF Init, DoneInv
<1>6. BufferInv
  BY DEF Init, BufferInv, BufferOK, Capped
<1>7. ResultInv
  BY DEF Init, ResultInv, ResultOK, SearchedOK
<1>8. QED
  BY <1>1, <1>2, <1>3, <1>4, <1>5, <1>6, <1>7 DEF IInv

\* Every step of a thread or of main preserves the invariant.
LEMMA NextIInv == IInv /\ [Next]_vars => IInv'
<1> SUFFICES ASSUME IInv, [Next]_vars PROVE IInv'
  OBVIOUS
<1> USE DEF IInv
<1>1. TypeOK'
  BY TypeStep
<1>2. LockInv'
  BY LockStep
<1>3. NumberInv'
  BY NumberStep
<1>4. JobInv'
  BY JobStep
<1>5. DoneInv'
  BY DoneStep
<1>6. BufferInv'
  BY BufferStep DEF BufferInv
<1>7. ResultInv'
  BY ResultStep, SearchedStep DEF ResultInv
<1>8. QED
  BY <1>1, <1>2, <1>3, <1>4, <1>5, <1>6, <1>7

\* The inductive invariant holds in every reachable state of the pool.
THEOREM Invariance == Spec => []IInv
  BY InitIInv, NextIInv, PTL DEF Spec

-----------------------------------------------------------------------------
(* The properties.                                                           *)

\* Every variable keeps its type: the job counter stays within the number of
\* jobs and a thread only ever holds a job of the search.
THEOREM TypeCorrect == Spec => []TypeOK
  BY Invariance, PTL DEF IInv

\* get_next_job's callers partition the work, for any number of threads and
\* jobs: nothing is searched twice and, without errors, nothing is skipped.
THEOREM PartitionCorrect == Spec => []WorkPartition
<1>1. ASSUME IInv PROVE WorkPartition
  <2> USE <1>1 DEF IInv, JobInv
  <2>1. ASSUME NEW t \in Threads, pc[t] = "advance" PROVE job[t] \notin HandedOut
    <3>1. ASSUME NEW n \in 0 .. next_job - 1, job[t] = JobOf(n) PROVE FALSE
      <4>1. next_job = n
        BY <2>1, <3>1, JobOfInjective DEF TypeOK
      <4>2. QED
        BY <3>1, <4>1 DEF TypeOK
    <3>2. QED
      BY <3>1 DEF HandedOut
  <2>2. \A t, u \in Threads : pc[t] = "advance" /\ pc[u] = "advance" => t = u
    BY DEF LockInv, Critical
  <2>3. \A t \in Threads : Busy(t) <=> pc[t] = "advance" \/ pc[t] \in Working
    BY DEF Busy, Working
  <2>4. QED
    BY <2>1, <2>2, <2>3 DEF WorkPartition
<1>2. QED
  BY <1>1, Invariance, PTL

\* threadnum gives every device its two threads, whatever order they start in.
THEOREM DevicesCorrect == Spec => []DeviceAssignment
<1>1. ASSUME IInv PROVE DeviceAssignment
  <2> USE <1>1, PoolAssumption DEF IInv, NumberInv
  <2>1. NumberedThreads \subseteq Threads
    BY DEF NumberedThreads
  <2>2. threadnum <= 2 * NumDevices
    BY <2>1, FS_Subset, FS_CardinalityType
  <2>3. QED
    BY <2>2 DEF DeviceAssignment, TypeOK
<1>2. QED
  BY <1>1, Invariance, PTL

\* The slots validated were all written by a kernel, however far the device
\* counter ran past the buffer.
THEOREM SlotsCorrect == Spec => []ReadsWrittenSlots
<1>1. ASSUME IInv PROVE ReadsWrittenSlots
  BY <1>1, PoolAssumption
     DEF IInv, BufferInv, BufferOK, ReadsWrittenSlots, Capped, TypeOK
<1>2. QED
  BY <1>1, Invariance, PTL

\* A search without errors and warnings returns every key that its jobs turn up.
THEOREM SearchComplete == Spec => []CompleteUnlessWarned
<1>1. ASSUME IInv PROVE CompleteUnlessWarned
  <2> SUFFICES ASSUME main = "returned", run, \A t \in Threads : ~warn[t],
                      NEW j \in Jobs
               PROVE  GoodKeys(j) \subseteq validated
    BY DEF CompleteUnlessWarned, GoodKeys
  <2> USE <1>1, PoolAssumption DEF IInv
  <2>1. \A t \in Threads : pc[t] = "done"
    BY DEF DoneInv
  <2>2. PICK t \in Threads : TRUE
    BY FS_EmptySet
  <2>3. next_job = Span
    BY <2>1, <2>2 DEF DoneInv, TypeOK
  <2>4. j \in searched
    <3>1. PICK n \in 0 .. Span - 1 : j = JobOf(n)
      BY DEF Jobs
    <3>2. NoErrors /\ \A u \in Threads : pc[u] \notin Working
      BY <2>1 DEF NoErrors, Working
    <3>3. QED
      BY <2>3, <3>1, <3>2 DEF JobInv
  <2>5. QED
    BY <2>4 DEF ResultInv, SearchedOK, SomeWarn
<1>2. QED
  BY <1>1, Invariance, PTL

-----------------------------------------------------------------------------
(* The pool implements KeySearch.                                            *)

\* A step that leaves the working threads and their jobs alone leaves Held.
LEMMA HeldSame ==
  ASSUME \A v \in Threads : pc'[v] \in Working <=> pc[v] \in Working,
         \A v \in Threads : pc[v] \in Working => job'[v] = job[v]
  PROVE  Held' = Held
BY DEF Held, Working

\* A thread that stops working on its job takes exactly that job out of Held.
LEMMA HeldDrop ==
  ASSUME JobInv, NEW t \in Threads, pc[t] \in Working, pc'[t] \notin Working,
         \A v \in Threads : v # t => pc'[v] = pc[v], job' = job
  PROVE  job[t] \in Held /\ Held' = Held \ {job[t]}
BY DEF Held, Working, JobInv

\* Each step is a step of the abstract search or leaves its state alone.
LEMMA SearchStep ==
  ASSUME IInv, [Next]_vars
  PROVE  [Search!Next]_(Search!vars)
<1> USE PoolAssumption DEF Goto, data, startVars, deviceVars, hostVars,
     jobVars, resultVars, TypeOK, Labels, IInv
<1>1. ASSUME NEW t \in Threads, LockNumber(t) PROVE [Search!Next]_(Search!vars)
  <2>1. Held' = Held
    BY <1>1, HeldSame DEF LockNumber, Working
  <2>2. UNCHANGED <<Pending, Lossy, validated, main>>
    BY <1>1 DEF LockNumber, Pending, Lossy, NoErrors
  <2>3. QED
    BY <2>1, <2>2 DEF Search!vars
<1>2. ASSUME NEW t \in Threads, UnlockNumber(t) PROVE [Search!Next]_(Search!vars)
  <2>1. Held' = Held
    BY <1>2, HeldSame DEF UnlockNumber, Working
  <2>2. UNCHANGED <<Pending, Lossy, validated, main>>
    BY <1>2 DEF UnlockNumber, Pending, Lossy, NoErrors
  <2>3. QED
    BY <2>1, <2>2 DEF Search!vars
<1>3. ASSUME NEW t \in Threads, Setup(t) PROVE [Search!Next]_(Search!vars)
  <2>1. Held' = Held
    BY <1>3, HeldSame DEF Setup, Working
  <2>2. warn_d' = warn_d
    BY <1>3 DEF Setup, BufferInv, BufferOK, Early
  <2>3. UNCHANGED <<Pending, Lossy, validated, main>>
    BY <1>3, <2>2 DEF Setup, Pending, Lossy, NoErrors
  <2>4. QED
    BY <2>1, <2>3 DEF Search!vars
<1>4. ASSUME NEW t \in Threads, SetupFails(t) PROVE [Search!Next]_(Search!vars)
  <2>1. Held' = Held
    BY <1>4, HeldSame DEF SetupFails, Working
  <2>2. Lossy'
    BY <1>4 DEF SetupFails, Lossy, NoErrors
  <2>3. UNCHANGED <<Pending, validated, main>>
    BY <1>4 DEF SetupFails, Pending
  <2>4. Search!Lose({})
    BY <2>1, <2>2, <2>3 DEF Search!Lose
  <2>5. QED
    BY <2>4 DEF Search!Next
<1>5. ASSUME NEW t \in Threads, Arrive(t) PROVE [Search!Next]_(Search!vars)
  <2>1. Held' = Held
    BY <1>5, HeldSame DEF Arrive, Working
  <2>2. UNCHANGED <<Pending, Lossy, validated, main>>
    BY <1>5 DEF Arrive, Pending, Lossy, NoErrors
  <2>3. QED
    BY <2>1, <2>2 DEF Search!vars
<1>6. ASSUME NEW t \in Threads, PassBarrier(t) PROVE [Search!Next]_(Search!vars)
  <2>1. Held' = Held
    BY <1>6, HeldSame DEF PassBarrier, Working
  <2>2. UNCHANGED <<Pending, Lossy, validated, main>>
    BY <1>6 DEF PassBarrier, Pending, Lossy, NoErrors
  <2>3. QED
    BY <2>1, <2>2 DEF Search!vars
<1>7. ASSUME NEW t \in Threads, Continue(t) PROVE [Search!Next]_(Search!vars)
  <2>1. Held' = Held
    BY <1>7, HeldSame DEF Continue, Working
  <2>2. UNCHANGED <<Pending, Lossy, validated, main>>
    BY <1>7 DEF Continue, Pending, Lossy, NoErrors
  <2>3. QED
    BY <2>1, <2>2 DEF Search!vars
<1>8. ASSUME NEW t \in Threads, Quit(t) PROVE [Search!Next]_(Search!vars)
  <2>1. Held' = Held
    BY <1>8, HeldSame DEF Quit, Working
  <2>2. UNCHANGED <<Pending, Lossy, validated, main>>
    BY <1>8 DEF Quit, Pending, Lossy, NoErrors
  <2>3. QED
    BY <2>1, <2>2 DEF Search!vars
<1>9. ASSUME NEW t \in Threads, LockJobs(t) PROVE [Search!Next]_(Search!vars)
  <2>1. Held' = Held
    BY <1>9, HeldSame DEF LockJobs, Working
  <2>2. UNCHANGED <<Pending, Lossy, validated, main>>
    BY <1>9 DEF LockJobs, Pending, Lossy, NoErrors
  <2>3. QED
    BY <2>1, <2>2 DEF Search!vars
<1>10. ASSUME NEW t \in Threads, NoMoreJobs(t) PROVE [Search!Next]_(Search!vars)
  <2>1. Held' = Held
    BY <1>10, HeldSame DEF NoMoreJobs, Working
  <2>2. UNCHANGED <<Pending, Lossy, validated, main>>
    BY <1>10 DEF NoMoreJobs, Pending, Lossy, NoErrors
  <2>3. QED
    BY <2>1, <2>2 DEF Search!vars
<1>11. ASSUME NEW t \in Threads, AssignJob(t) PROVE [Search!Next]_(Search!vars)
  <2>1. Held' = Held
    BY <1>11, HeldSame DEF AssignJob, Working
  <2>2. UNCHANGED <<Pending, Lossy, validated, main>>
    BY <1>11 DEF AssignJob, Pending, Lossy, NoErrors
  <2>3. QED
    BY <2>1, <2>2 DEF Search!vars
<1>12. ASSUME NEW t \in Threads, AdvanceJob(t) PROVE [Search!Next]_(Search!vars)
  <2> DEFINE j == job[t]
  <2>1. /\ next_job < Span /\ j = JobOf(next_job) /\ next_job' = next_job + 1
        /\ pc[t] = "advance" /\ pc'[t] = "kernel" /\ job' = job
        /\ \A v \in Threads : v # t => pc'[v] = pc[v]
    BY <1>12 DEF AdvanceJob, JobInv
  <2>2. j \in Pending /\ j \in Jobs
    <3>1. next_job \in next_job .. Span - 1
      BY <2>1
    <3>2. QED
      BY <2>1, <3>1 DEF Pending
  <2>3. Pending' = Pending \ {j}
    <3>1. \A n \in next_job .. Span - 1 : n = next_job \/ n \in next_job' .. Span - 1
      BY <2>1
    <3>2. \A n \in next_job' .. Span - 1 : n \in next_job .. Span - 1 /\ n # next_job
      BY <2>1
    <3>3. \A n \in next_job' .. Span - 1 : JobOf(n) # j
      BY <2>1, <3>2, JobOfInjective
    <3>4. Pending' \subseteq Pending \ {j}
      BY <3>2, <3>3 DEF Pending
    <3>5. Pending \ {j} \subseteq Pending'
      BY <2>1, <3>1 DEF Pending
    <3>6. QED
      BY <3>4, <3>5
  <2>4. Held' = Held \cup {j}
    <3> HIDE DEF TypeOK, IInv
    <3>1. \A v \in Threads :
            pc'[v] \in Working <=> pc[v] \in Working \/ v = t
      BY <2>1 DEF Working
    <3>2. \A x : x \in Held <=> \E v \in Threads : pc[v] \in Working /\ job[v] = x
      BY DEF Held, Working
    <3>3. \A x : x \in Held' <=>
            \E v \in Threads : pc'[v] \in Working /\ job'[v] = x
      BY DEF Held, Working
    <3>4. \A x : x \in Held' <=> x \in Held \/ x = j
      BY <2>1, <3>1, <3>2, <3>3
    <3>5. QED
      BY <3>4
  <2>5. UNCHANGED <<Lossy, validated, main>>
    BY <1>12 DEF AdvanceJob, Lossy, NoErrors
  <2>6. Search!Claim(j)
    BY <2>2, <2>3, <2>4, <2>5 DEF Search!Claim
  <2>7. QED
    BY <2>2, <2>6 DEF Search!Next
<1>13. ASSUME NEW t \in Threads, Report(t) PROVE [Search!Next]_(Search!vars)
  <2>1. Held' = Held
    BY <1>13, HeldSame DEF Report, Working
  <2>2. UNCHANGED <<Pending, validated, main>>
    BY <1>13 DEF Report, Pending
  <2>3. CASE UNCHANGED warn_d
    <3>1. UNCHANGED Lossy
      BY <1>13, <2>3 DEF Report, Lossy, NoErrors
    <3>2. QED
      BY <2>1, <2>2, <3>1 DEF Search!vars
  <2>4. CASE warn_d' = [warn_d EXCEPT ![t] = TRUE]
    <3>1. Lossy'
      BY <2>4 DEF Lossy
    <3>2. Search!Lose({})
      BY <2>1, <2>2, <3>1 DEF Search!Lose
    <3>3. QED
      BY <3>2 DEF Search!Next
  <2>5. QED
    BY <1>13, <2>3, <2>4 DEF Report
<1>14. ASSUME NEW t \in Threads, CopyBack(t) PROVE [Search!Next]_(Search!vars)
  <2>1. Held' = Held
    BY <1>14, HeldSame DEF CopyBack, Working
  <2>2. UNCHANGED <<Pending, Lossy, validated, main>>
    BY <1>14 DEF CopyBack, Pending, Lossy, NoErrors
  <2>3. QED
    BY <2>1, <2>2 DEF Search!vars
<1>15. ASSUME NEW t \in Threads, Validate(t) PROVE [Search!Next]_(Search!vars)
  <2> DEFINE passed == {<<job[t], k>> : k \in Copied(t) \cap Valid[job[t]]}
  <2>1. /\ pc[t] = "check" /\ job' = job
        /\ \A v \in Threads : v # t => pc'[v] = pc[v]
    BY <1>15 DEF Validate
  <2>2. UNCHANGED <<Pending, Lossy, validated, main>>
    BY <1>15 DEF Validate, Pending, Lossy, NoErrors
  <2>3. CASE passed = {} /\ pc'[t] = "loop"
    <3>1. job[t] \in Held /\ Held' = Held \ {job[t]}
      BY <2>1, <2>3, HeldDrop DEF Working
    <3>2. warn[t] \/ GoodKeys(job[t]) \subseteq {}
      BY <2>1, <2>3, PassedAreGood
    <3>3. Lossy \/ Found[job[t]] \cap Valid[job[t]] \subseteq {}
      <4>1. warn[t] => Lossy
        BY DEF Lossy, BufferInv, BufferOK
      <4>2. GoodKeys(job[t]) \subseteq {} => Found[job[t]] \cap Valid[job[t]] \subseteq {}
        <5>1. ASSUME NEW k \in Found[job[t]] \cap Valid[job[t]]
              PROVE  <<job[t], k>> \in GoodKeys(job[t])
          BY DEF GoodKeys
        <5>2. QED
          BY <5>1
      <4>3. QED
        BY <3>2, <4>1, <4>2
    <3>4. validated' = validated \cup ({job[t]} \X {})
      BY <2>2
    <3>5. Search!Complete(job[t], {})
      BY <2>2, <3>1, <3>3, <3>4 DEF Search!Complete
    <3>6. job[t] \in Jobs
      OBVIOUS
    <3>7. {} \in SUBSET Valid[job[t]]
      OBVIOUS
    <3>8. QED
      BY <3>5, <3>6, <3>7 DEF Search!Next
  <2>4. CASE pc'[t] = "merge"
    <3>1. Held' = Held
      BY <2>1, <2>4, HeldSame DEF Working
    <3>2. QED
      BY <2>2, <3>1 DEF Search!vars
  <2>5. QED
    BY <1>15, <2>3, <2>4 DEF Validate
<1>16. ASSUME NEW t \in Threads, LockMerge(t) PROVE [Search!Next]_(Search!vars)
  <2>1. Held' = Held
    BY <1>16, HeldSame DEF LockMerge, Working
  <2>2. UNCHANGED <<Pending, Lossy, validated, main>>
    BY <1>16 DEF LockMerge, Pending, Lossy, NoErrors
  <2>3. QED
    BY <2>1, <2>2 DEF Search!vars
<1>17. ASSUME NEW t \in Threads, Merge(t) PROVE [Search!Next]_(Search!vars)
  <2> DEFINE K == {k \in Valid[job[t]] : <<job[t], k>> \in found[t]}
  <2>1. /\ pc[t] = "append" /\ pc'[t] = "loop" /\ job' = job
        /\ \A v \in Threads : v # t => pc'[v] = pc[v]
        /\ validated' = validated \cup found[t]
    BY <1>17 DEF Merge, ResultInv, ResultOK
  <2>2. UNCHANGED <<Pending, Lossy, main>>
    BY <1>17 DEF Merge, Pending, Lossy, NoErrors
  <2>3. job[t] \in Held /\ Held' = Held \ {job[t]}
    BY <2>1, HeldDrop DEF Working
  <2>4. found[t] \subseteq {job[t]} \X Valid[job[t]]
    BY <2>1 DEF ResultInv, ResultOK
  <2>5. found[t] = {job[t]} \X K
    <3>1. ASSUME NEW x \in found[t] PROVE x \in {job[t]} \X K
      <4>1. PICK k \in Valid[job[t]] : x = <<job[t], k>>
        BY <2>4
      <4>2. QED
        BY <4>1
    <3>2. ASSUME NEW x \in {job[t]} \X K PROVE x \in found[t]
      <4> HIDE DEF K
      <4>1. PICK k \in K : x = <<job[t], k>>
        OBVIOUS
      <4> USE DEF K
      <4>2. QED
        BY <4>1
    <3>3. QED
      BY <3>1, <3>2
  <2>6. Lossy \/ Found[job[t]] \cap Valid[job[t]] \subseteq K
    <3>1. warn[t] \/ GoodKeys(job[t]) \subseteq found[t]
      BY <2>1 DEF ResultInv, ResultOK
    <3>2. QED
      BY <3>1 DEF Lossy, GoodKeys, BufferInv, BufferOK
  <2>7. Search!Complete(job[t], K)
    BY <2>1, <2>2, <2>3, <2>5, <2>6 DEF Search!Complete
  <2>8. job[t] \in Jobs /\ K \in SUBSET Valid[job[t]]
    OBVIOUS
  <2>9. QED
    BY <2>7, <2>8 DEF Search!Next
<1>18. ASSUME NEW t \in Threads, JobFails(t) PROVE [Search!Next]_(Search!vars)
  <2>1. job[t] \in Held /\ Held' = Held \ {job[t]}
    BY <1>18, HeldDrop DEF JobFails, Working
  <2>2. Lossy'
    BY <1>18 DEF JobFails, Lossy, NoErrors
  <2>3. UNCHANGED <<Pending, validated, main>>
    BY <1>18 DEF JobFails, Pending
  <2>4. Search!Lose({job[t]})
    BY <2>1, <2>2, <2>3 DEF Search!Lose
  <2>5. QED
    BY <2>1, <2>4 DEF Search!Next
<1>19. ASSUME NEW t \in Threads, MergeFails(t) PROVE [Search!Next]_(Search!vars)
  <2>1. job[t] \in Held /\ Held' = Held \ {job[t]}
    BY <1>19, HeldDrop DEF MergeFails, Working
  <2>2. Lossy'
    BY <1>19 DEF MergeFails, Lossy, NoErrors
  <2>3. UNCHANGED <<Pending, validated, main>>
    BY <1>19 DEF MergeFails, Pending
  <2>4. Search!Lose({job[t]})
    BY <2>1, <2>2, <2>3 DEF Search!Lose
  <2>5. QED
    BY <2>1, <2>4 DEF Search!Next
<1>20. ASSUME NEW t \in Threads, Fail(t) PROVE [Search!Next]_(Search!vars)
  <2>1. Held' = Held
    BY <1>20, HeldSame DEF Fail, Working
  <2>2. UNCHANGED <<Pending, Lossy, validated, main>>
    BY <1>20 DEF Fail, Pending, Lossy, NoErrors
  <2>3. QED
    BY <2>1, <2>2 DEF Search!vars
<1>21. CASE Return
  <2>1. \A u \in Threads : pc[u] = "done"
    BY <1>21 DEF Return
  <2>2. Held = {} /\ Held' = {}
    BY <1>21, <2>1 DEF Return, Held
  <2>3. Pending = {} \/ Lossy
    <3>1. PICK u \in Threads : TRUE
      BY FS_EmptySet
    <3>2. run => next_job = Span
      BY <2>1, <3>1 DEF DoneInv
    <3>3. QED
      BY <3>2 DEF Pending, Lossy, NoErrors
  <2>4. UNCHANGED <<Pending, Lossy, validated>>
    BY <1>21 DEF Return, Pending, Lossy, NoErrors
  <2>5. QED
    BY <1>21, <2>2, <2>3, <2>4 DEF Return, Search!Next, Search!Answer
<1>22. CASE UNCHANGED vars
  BY <1>22 DEF vars, Search!vars, Pending, Held, Lossy, NoErrors
<1>23. QED
  BY <1>1, <1>2, <1>3, <1>4, <1>5, <1>6, <1>7, <1>8, <1>9, <1>10, <1>11,
       <1>12, <1>13, <1>14, <1>15, <1>16, <1>17, <1>18, <1>19, <1>20, <1>21,
       <1>22 DEF Next, Thread, Terminated

\* The pool starts as a search with every job pending.
LEMMA SearchInit == Init => Search!Init
<1>1. Init => Pending = Jobs
  BY DEF Init, Pending, Jobs
<1>2. Init => Held = {}
  BY DEF Init, Held
<1>3. QED
  BY <1>1, <1>2 DEF Init, Search!Init, Lossy, NoErrors

\* Whatever the threads' interleaving and errors, the pool is a search: every
\* job is claimed once, a completed job reports all and only its valid keys
\* unless the search is lossy, and the answer waits for every claimed job.
THEOREM PoolImplementsSearch == Spec => ImplementsSearch
<1>1. IInv /\ [Next]_vars => [Search!Next]_(Search!vars)
  BY SearchStep
<1>2. QED
  BY <1>1, SearchInit, Invariance, PTL DEF Spec, ImplementsSearch, Search!Spec
=============================================================================
