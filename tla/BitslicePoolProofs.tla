-------------------------- MODULE BitslicePoolProofs --------------------------
(*****************************************************************************)
(* Proofs that the invariants of the bitslice pool hold for any number of    *)
(* threads, candidates and jobs, whatever keys the jobs turn up, with errors *)
(* at any point.                                                             *)
(*****************************************************************************)
EXTENDS BitslicePool, FiniteSetTheorems, TLAPS

-----------------------------------------------------------------------------
(* The inductive invariant, by concern.                                      *)

\* Between two candidates no thread runs.
IdleInv == main # "joining" => \A t \in Threads : pc[t] \in {"start", "done"}

NumberedThreads == {t \in Threads : pc[t] # "start"}

\* threadnum counts the threads that have a number.
NumberInv == threadnum = Cardinality(NumberedThreads)

\* run is only cleared for a reason, and no thread leaves before that.
RunInv ==
  /\ main = "joining" /\ ~run =>
       next_job >= NumJobs \/ success \/ candidate \in failed
  /\ \A t \in Threads : pc[t] = "done" => ~run

\* The good keys of a job of the candidate that main is at.
GoodOf(j) == Found[candidate][j] \cap Valid \cap Good

\* A job that was handed out turned up no good key, or a thread has yet to
\* publish one or to fail.
JobInv ==
  main = "joining" /\ candidate \notin failed /\ ~success =>
    \A j \in Jobs : j < next_job =>
      \/ GoodOf(j) = {}
      \/ \E t \in Threads : job[t] = j /\ pc[t] \in {"search", "publish", "error"}

\* The key stored belongs to the candidate that main is at.
SuccessInv == success => found \in GoodKeys(candidate)

\* A thread that drew a job after run was cleared does not get to the next.
LateInv == \A t \in Threads :
  late[t] = 0 \/ (late[t] = 1 /\ ~run /\ pc[t] # "fetch")

IInv ==
  /\ TypeOK
  /\ IdleInv
  /\ NumberInv
  /\ RunInv
  /\ JobInv
  /\ SuccessInv
  /\ LateInv
  /\ NoKeyMissed
  /\ PrintedKeyIsGood
-----------------------------------------------------------------------------
(* The steps.                                                                *)

\* The numbered threads are finitely many, and no more than all.
LEMMA NumberedFinite ==
  /\ IsFiniteSet(Threads) /\ Cardinality(Threads) \in Nat
  /\ \A S \in SUBSET Threads :
       IsFiniteSet(S) /\ Cardinality(S) \in Nat /\ Cardinality(S) <= Cardinality(Threads)
<1>1. IsFiniteSet(Threads) /\ Cardinality(Threads) \in Nat
  BY BitsliceAssumption, FS_CardinalityType
<1>2. ASSUME NEW S \in SUBSET Threads
      PROVE  IsFiniteSet(S) /\ Cardinality(S) \in Nat /\ Cardinality(S) <= Cardinality(Threads)
  BY <1>1, FS_Subset, FS_CardinalityType
<1> QED
  BY <1>1, <1>2

\* Threads of a pool run only while main waits for them.
LEMMA IdleStep ==
  ASSUME TypeOK, IdleInv, [Next]_vars
  PROVE  IdleInv'
<1> USE DEF IdleInv, TypeOK, Labels, Goto, shared
<1>1. ASSUME NEW t \in Threads, Number(t) PROVE IdleInv'
  BY <1>1 DEF Number
<1>2. ASSUME NEW t \in Threads, Arrive(t) PROVE IdleInv'
  BY <1>2 DEF Arrive
<1>3. ASSUME NEW t \in Threads, SetupFails(t) PROVE IdleInv'
  BY <1>3 DEF SetupFails
<1>4. ASSUME NEW t \in Threads, PassBarrier(t) PROVE IdleInv'
  BY <1>4 DEF PassBarrier
<1>5. ASSUME NEW t \in Threads, Continue(t) PROVE IdleInv'
  BY <1>5 DEF Continue
<1>6. ASSUME NEW t \in Threads, Quit(t) PROVE IdleInv'
  BY <1>6 DEF Quit
<1>7. ASSUME NEW t \in Threads, DrawJob(t) PROVE IdleInv'
  BY <1>7 DEF DrawJob
<1>8. ASSUME NEW t \in Threads, NoMoreJobs(t) PROVE IdleInv'
  BY <1>8 DEF NoMoreJobs
<1>9. ASSUME NEW t \in Threads, NoMatch(t) PROVE IdleInv'
  BY <1>9 DEF NoMatch
<1>10. ASSUME NEW t \in Threads, Match(t) PROVE IdleInv'
  BY <1>10 DEF Match
<1>11. ASSUME NEW t \in Threads, Publish(t) PROVE IdleInv'
  BY <1>11 DEF Publish
<1>12. ASSUME NEW t \in Threads, JobFails(t) PROVE IdleInv'
  BY <1>12 DEF JobFails
<1>13. ASSUME NEW t \in Threads, Fail(t) PROVE IdleInv'
  BY <1>13 DEF Fail
<1>14. CASE Start
  BY <1>14 DEF Start, Joined
<1>15. CASE StartFails
  BY <1>15 DEF StartFails, Joined
<1>16. CASE KeyFound
  BY <1>16 DEF KeyFound, Joined
<1>17. CASE NextCandidate
  BY <1>17 DEF NextCandidate, Joined
<1>18. CASE NoMatchingKey
  BY <1>18 DEF NoMatchingKey, Joined
<1>19. CASE UNCHANGED vars
  BY <1>19 DEF vars
<1> QED
  BY <1>1, <1>2, <1>3, <1>4, <1>5, <1>6, <1>7, <1>8, <1>9, <1>10, <1>11,
     <1>12, <1>13, <1>14, <1>15, <1>16, <1>17, <1>18, <1>19 DEF Next,
     Thread, Main

\* A thread numbers itself once, and the count with it.
LEMMA NumberStep ==
  ASSUME TypeOK, NumberInv, [Next]_vars
  PROVE  NumberInv'
<1>1. ASSUME UNCHANGED threadnum, NumberedThreads' = NumberedThreads
      PROVE  NumberInv'
  BY <1>1 DEF NumberInv
<1>2. ASSUME NEW t \in Threads, UNCHANGED threadnum, pc[t] # "start",
             NEW label, label # "start", Goto(t, label)
      PROVE  NumberInv'
  <2>1. NumberedThreads' = NumberedThreads
    BY <1>2 DEF NumberedThreads, Goto, TypeOK
  <2> QED
    BY <1>1, <1>2, <2>1
<1>3. ASSUME NEW t \in Threads, Number(t)
      PROVE  NumberInv'
  <2>1. NumberedThreads' = NumberedThreads \cup {t} /\ t \notin NumberedThreads
    BY <1>3 DEF Number, Goto, NumberedThreads, TypeOK
  <2>2. IsFiniteSet(NumberedThreads)
    BY NumberedFinite DEF NumberedThreads
  <2>3. Cardinality(NumberedThreads \cup {t}) = Cardinality(NumberedThreads) + 1
    BY <2>1, <2>2, FS_AddElement
  <2> QED
    BY <1>3, <2>1, <2>3 DEF Number, NumberInv
<1>4. CASE Start
  <2>1. NumberedThreads' = {}
    BY <1>4 DEF Start, NumberedThreads
  <2> QED
    BY <1>4, <2>1, FS_EmptySet DEF Start, NumberInv
<1>5. CASE UNCHANGED <<pc, threadnum>>
  BY <1>5, <1>1 DEF NumberedThreads
<1>6. ASSUME NEW t \in Threads, Thread(t)
      PROVE  NumberInv'
  BY <1>2, <1>3, <1>6
     DEF Thread, Arrive, SetupFails, PassBarrier, Continue, Quit, DrawJob,
         NoMoreJobs, NoMatch, Match, Publish, JobFails, Fail
<1>7. CASE Main
  BY <1>4, <1>5, <1>7 DEF Main, StartFails, KeyFound, NextCandidate, NoMatchingKey
<1> QED
  BY <1>5, <1>6, <1>7 DEF Next, vars

\* Every step keeps the types; a thread that has yet to take its number leaves
\* threadnum below the number of threads.
LEMMA TypeStep ==
  ASSUME TypeOK, IdleInv, NumberInv, NumberInv', [Next]_vars
  PROVE  TypeOK'
<1> USE BitsliceAssumption DEF TypeOK, Labels, Goto, shared, Candidates, Jobs
<1>1. ASSUME NEW t \in Threads, Number(t) PROVE TypeOK'
  <2>1. NumberedThreads' \in SUBSET Threads
    BY DEF NumberedThreads
  <2>2. threadnum' \in 0 .. Cardinality(Threads)
    BY <2>1, NumberedFinite DEF NumberInv
  <2> QED
    BY <1>1, <2>2 DEF Number
<1>2. ASSUME NEW t \in Threads, Arrive(t) PROVE TypeOK'
  BY <1>2 DEF Arrive
<1>3. ASSUME NEW t \in Threads, SetupFails(t) PROVE TypeOK'
  BY <1>3 DEF SetupFails
<1>4. ASSUME NEW t \in Threads, PassBarrier(t) PROVE TypeOK'
  BY <1>4 DEF PassBarrier
<1>5. ASSUME NEW t \in Threads, Continue(t) PROVE TypeOK'
  BY <1>5 DEF Continue
<1>6. ASSUME NEW t \in Threads, Quit(t) PROVE TypeOK'
  BY <1>6 DEF Quit
<1>7. ASSUME NEW t \in Threads, DrawJob(t) PROVE TypeOK'
  BY <1>7 DEF DrawJob
<1>8. ASSUME NEW t \in Threads, NoMoreJobs(t) PROVE TypeOK'
  BY <1>8 DEF NoMoreJobs
<1>9. ASSUME NEW t \in Threads, NoMatch(t) PROVE TypeOK'
  BY <1>9 DEF NoMatch
<1>10. ASSUME NEW t \in Threads, Match(t) PROVE TypeOK'
  BY <1>10 DEF Match
<1>11. ASSUME NEW t \in Threads, Publish(t) PROVE TypeOK'
  <2>1. candidate \in Candidates
    BY <1>11 DEF Publish, IdleInv
  <2>2. Matches(t) \subseteq Keys
    BY <2>1 DEF Matches, Returned
  <2> QED
    BY <1>11, <2>2 DEF Publish
<1>12. ASSUME NEW t \in Threads, JobFails(t) PROVE TypeOK'
  BY <1>12 DEF JobFails
<1>13. ASSUME NEW t \in Threads, Fail(t) PROVE TypeOK'
  <2>1. candidate \in Candidates
    BY <1>13 DEF Fail, IdleInv
  <2> QED
    BY <1>13, <2>1 DEF Fail
<1>14. CASE Start
  <2>1. 0 \in Jobs /\ 0 \in 0 .. NumJobs /\ 0 \in 0 .. Cardinality(Threads)
    BY NumberedFinite
  <2>2. pc' \in [Threads -> Labels] /\ job' \in [Threads -> Jobs] /\ late' \in [Threads -> Nat]
    BY <1>14, <2>1 DEF Start
  <2>3. candidate' \in 1 .. NumCandidates + 1 /\ candidate' \in Candidates
    BY <1>14 DEF Start
  <2>4. threadnum' \in 0 .. Cardinality(Threads) /\ next_job' \in 0 .. NumJobs
    BY <1>14, <2>1 DEF Start
  <2> QED
    BY <1>14, <2>2, <2>3, <2>4 DEF Start
<1>15. CASE StartFails
  BY <1>15 DEF StartFails, Joined
<1>16. CASE KeyFound
  BY <1>16 DEF KeyFound, Joined
<1>17. CASE NextCandidate
  BY <1>17 DEF NextCandidate, Joined
<1>18. CASE NoMatchingKey
  BY <1>18 DEF NoMatchingKey, Joined
<1>19. CASE UNCHANGED vars
  BY <1>19 DEF vars
<1> QED
  BY <1>1, <1>2, <1>3, <1>4, <1>5, <1>6, <1>7, <1>8, <1>9, <1>10, <1>11,
     <1>12, <1>13, <1>14, <1>15, <1>16, <1>17, <1>18, <1>19 DEF Next,
     Thread, Main

\* Without jobs, with a key or after an error: nothing else clears run.
LEMMA RunStep ==
  ASSUME TypeOK, IdleInv, RunInv, [Next]_vars
  PROVE  RunInv'
<1> USE BitsliceAssumption DEF RunInv, IdleInv, TypeOK, Labels, Goto, shared
<1>1. ASSUME NEW t \in Threads, Number(t) PROVE RunInv'
  BY <1>1 DEF Number
<1>2. ASSUME NEW t \in Threads, Arrive(t) PROVE RunInv'
  BY <1>2 DEF Arrive
<1>3. ASSUME NEW t \in Threads, SetupFails(t) PROVE RunInv'
  BY <1>3 DEF SetupFails
<1>4. ASSUME NEW t \in Threads, PassBarrier(t) PROVE RunInv'
  BY <1>4 DEF PassBarrier
<1>5. ASSUME NEW t \in Threads, Continue(t) PROVE RunInv'
  BY <1>5 DEF Continue
<1>6. ASSUME NEW t \in Threads, Quit(t) PROVE RunInv'
  BY <1>6 DEF Quit
<1>7. ASSUME NEW t \in Threads, DrawJob(t) PROVE RunInv'
  BY <1>7 DEF DrawJob
<1>8. ASSUME NEW t \in Threads, NoMoreJobs(t) PROVE RunInv'
  BY <1>8 DEF NoMoreJobs
<1>9. ASSUME NEW t \in Threads, NoMatch(t) PROVE RunInv'
  BY <1>9 DEF NoMatch
<1>10. ASSUME NEW t \in Threads, Match(t) PROVE RunInv'
  BY <1>10 DEF Match
<1>11. ASSUME NEW t \in Threads, Publish(t) PROVE RunInv'
  BY <1>11 DEF Publish
<1>12. ASSUME NEW t \in Threads, JobFails(t) PROVE RunInv'
  BY <1>12 DEF JobFails
<1>13. ASSUME NEW t \in Threads, Fail(t) PROVE RunInv'
  BY <1>13 DEF Fail
<1>14. CASE Start
  BY <1>14 DEF Start, Joined
<1>15. CASE StartFails
  BY <1>15 DEF StartFails, Joined
<1>16. CASE KeyFound
  BY <1>16 DEF KeyFound, Joined
<1>17. CASE NextCandidate
  BY <1>17 DEF NextCandidate, Joined
<1>18. CASE NoMatchingKey
  BY <1>18 DEF NoMatchingKey, Joined
<1>19. CASE UNCHANGED vars
  BY <1>19 DEF vars
<1> QED
  BY <1>1, <1>2, <1>3, <1>4, <1>5, <1>6, <1>7, <1>8, <1>9, <1>10, <1>11,
     <1>12, <1>13, <1>14, <1>15, <1>16, <1>17, <1>18, <1>19 DEF Next,
     Thread, Main

\* A job is handed out with its keys still to be looked at.
LEMMA JobStep ==
  ASSUME TypeOK, IdleInv, JobInv, [Next]_vars
  PROVE  JobInv'
<1> USE BitsliceAssumption DEF JobInv, GoodOf, Matches, Returned, IdleInv, TypeOK, Labels, Goto,
                                shared
<1>1. ASSUME NEW t \in Threads, Number(t) PROVE JobInv'
  BY <1>1 DEF Number
<1>2. ASSUME NEW t \in Threads, Arrive(t) PROVE JobInv'
  BY <1>2 DEF Arrive
<1>3. ASSUME NEW t \in Threads, SetupFails(t) PROVE JobInv'
  BY <1>3 DEF SetupFails
<1>4. ASSUME NEW t \in Threads, PassBarrier(t) PROVE JobInv'
  BY <1>4 DEF PassBarrier
<1>5. ASSUME NEW t \in Threads, Continue(t) PROVE JobInv'
  BY <1>5 DEF Continue
<1>6. ASSUME NEW t \in Threads, Quit(t) PROVE JobInv'
  BY <1>6 DEF Quit
<1>7. ASSUME NEW t \in Threads, DrawJob(t) PROVE JobInv'
  <2>1. main = "joining"
    BY <1>7 DEF DrawJob
  <2>2. job'[t] = next_job /\ pc'[t] = "search" /\ next_job' = next_job + 1
    BY <1>7 DEF DrawJob
  <2>3. SUFFICES ASSUME candidate \notin failed, ~success, NEW j \in Jobs, j < next_job + 1
        PROVE  \/ GoodOf(j) = {}
               \/ \E u \in Threads : job'[u] = j /\ pc'[u] \in {"search", "publish", "error"}
    BY <1>7, <2>2 DEF DrawJob
  <2>4. CASE j = next_job
    BY <2>2, <2>4
  <2>5. CASE j < next_job
    <3>1. CASE GoodOf(j) = {}
      BY <3>1
    <3>2. ASSUME NEW u \in Threads, job[u] = j, pc[u] \in {"search", "publish", "error"}
          PROVE  job'[u] = j /\ pc'[u] \in {"search", "publish", "error"}
      BY <1>7, <3>2 DEF DrawJob
    <3> QED
      BY <2>1, <2>3, <2>5, <3>1, <3>2
  <2> QED
    BY <2>3, <2>4, <2>5 DEF Jobs
<1>8. ASSUME NEW t \in Threads, NoMoreJobs(t) PROVE JobInv'
  BY <1>8 DEF NoMoreJobs
<1>9. ASSUME NEW t \in Threads, NoMatch(t) PROVE JobInv'
  BY <1>9 DEF NoMatch
<1>10. ASSUME NEW t \in Threads, Match(t) PROVE JobInv'
  BY <1>10 DEF Match
<1>11. ASSUME NEW t \in Threads, Publish(t) PROVE JobInv'
  BY <1>11 DEF Publish
<1>12. ASSUME NEW t \in Threads, JobFails(t) PROVE JobInv'
  BY <1>12 DEF JobFails
<1>13. ASSUME NEW t \in Threads, Fail(t) PROVE JobInv'
  BY <1>13 DEF Fail
<1>14. CASE Start
  BY <1>14 DEF Start, Jobs
<1>15. CASE StartFails
  BY <1>15 DEF StartFails, Joined
<1>16. CASE KeyFound
  BY <1>16 DEF KeyFound, Joined
<1>17. CASE NextCandidate
  BY <1>17 DEF NextCandidate, Joined
<1>18. CASE NoMatchingKey
  BY <1>18 DEF NoMatchingKey, Joined
<1>19. CASE UNCHANGED vars
  BY <1>19 DEF vars
<1> QED
  BY <1>1, <1>2, <1>3, <1>4, <1>5, <1>6, <1>7, <1>8, <1>9, <1>10, <1>11,
     <1>12, <1>13, <1>14, <1>15, <1>16, <1>17, <1>18, <1>19 DEF Next,
     Thread, Main

\* Only a good key of the candidate is stored.
LEMMA SuccessStep ==
  ASSUME TypeOK, IdleInv, SuccessInv, [Next]_vars
  PROVE  SuccessInv'
<1> USE DEF SuccessInv, GoodKeys, Goto, shared
<1>1. ASSUME NEW t \in Threads, Number(t) PROVE SuccessInv'
  BY <1>1 DEF Number
<1>2. ASSUME NEW t \in Threads, Arrive(t) PROVE SuccessInv'
  BY <1>2 DEF Arrive
<1>3. ASSUME NEW t \in Threads, SetupFails(t) PROVE SuccessInv'
  BY <1>3 DEF SetupFails
<1>4. ASSUME NEW t \in Threads, PassBarrier(t) PROVE SuccessInv'
  BY <1>4 DEF PassBarrier
<1>5. ASSUME NEW t \in Threads, Continue(t) PROVE SuccessInv'
  BY <1>5 DEF Continue
<1>6. ASSUME NEW t \in Threads, Quit(t) PROVE SuccessInv'
  BY <1>6 DEF Quit
<1>7. ASSUME NEW t \in Threads, DrawJob(t) PROVE SuccessInv'
  BY <1>7 DEF DrawJob
<1>8. ASSUME NEW t \in Threads, NoMoreJobs(t) PROVE SuccessInv'
  BY <1>8 DEF NoMoreJobs
<1>9. ASSUME NEW t \in Threads, NoMatch(t) PROVE SuccessInv'
  BY <1>9 DEF NoMatch
<1>10. ASSUME NEW t \in Threads, Match(t) PROVE SuccessInv'
  BY <1>10 DEF Match
<1>11. ASSUME NEW t \in Threads, Publish(t) PROVE SuccessInv'
  <2>1. job[t] \in Jobs
    BY DEF TypeOK
  <2>2. ASSUME NEW k \in Matches(t)
        PROVE  k \in GoodKeys(candidate)
    BY <2>1, <2>2 DEF Matches, Returned
  <2> QED
    BY <1>11, <2>2 DEF Publish
<1>12. ASSUME NEW t \in Threads, JobFails(t) PROVE SuccessInv'
  BY <1>12 DEF JobFails
<1>13. ASSUME NEW t \in Threads, Fail(t) PROVE SuccessInv'
  BY <1>13 DEF Fail
<1>14. CASE Start
  BY <1>14 DEF Start, Joined
<1>15. CASE StartFails
  BY <1>15 DEF StartFails, Joined
<1>16. CASE KeyFound
  BY <1>16 DEF KeyFound, Joined
<1>17. CASE NextCandidate
  BY <1>17 DEF NextCandidate, Joined
<1>18. CASE NoMatchingKey
  BY <1>18 DEF NoMatchingKey, Joined
<1>19. CASE UNCHANGED vars
  BY <1>19 DEF vars
<1> QED
  BY <1>1, <1>2, <1>3, <1>4, <1>5, <1>6, <1>7, <1>8, <1>9, <1>10, <1>11,
     <1>12, <1>13, <1>14, <1>15, <1>16, <1>17, <1>18, <1>19 DEF Next,
     Thread, Main

\* The thread that draws a job when run is cleared has read run before that.
LEMMA LateStep ==
  ASSUME TypeOK, LateInv, [Next]_vars
  PROVE  LateInv'
<1> USE DEF LateInv, TypeOK, Labels, Goto, shared
<1>1. ASSUME NEW t \in Threads, Number(t) PROVE LateInv'
  BY <1>1 DEF Number
<1>2. ASSUME NEW t \in Threads, Arrive(t) PROVE LateInv'
  BY <1>2 DEF Arrive
<1>3. ASSUME NEW t \in Threads, SetupFails(t) PROVE LateInv'
  BY <1>3 DEF SetupFails
<1>4. ASSUME NEW t \in Threads, PassBarrier(t) PROVE LateInv'
  BY <1>4 DEF PassBarrier
<1>5. ASSUME NEW t \in Threads, Continue(t) PROVE LateInv'
  BY <1>5 DEF Continue
<1>6. ASSUME NEW t \in Threads, Quit(t) PROVE LateInv'
  BY <1>6 DEF Quit
<1>7. ASSUME NEW t \in Threads, DrawJob(t) PROVE LateInv'
  BY <1>7 DEF DrawJob
<1>8. ASSUME NEW t \in Threads, NoMoreJobs(t) PROVE LateInv'
  BY <1>8 DEF NoMoreJobs
<1>9. ASSUME NEW t \in Threads, NoMatch(t) PROVE LateInv'
  BY <1>9 DEF NoMatch
<1>10. ASSUME NEW t \in Threads, Match(t) PROVE LateInv'
  BY <1>10 DEF Match
<1>11. ASSUME NEW t \in Threads, Publish(t) PROVE LateInv'
  BY <1>11 DEF Publish
<1>12. ASSUME NEW t \in Threads, JobFails(t) PROVE LateInv'
  BY <1>12 DEF JobFails
<1>13. ASSUME NEW t \in Threads, Fail(t) PROVE LateInv'
  BY <1>13 DEF Fail
<1>14. CASE Start
  BY <1>14 DEF Start, Joined
<1>15. CASE StartFails
  BY <1>15 DEF StartFails, Joined
<1>16. CASE KeyFound
  BY <1>16 DEF KeyFound, Joined
<1>17. CASE NextCandidate
  BY <1>17 DEF NextCandidate, Joined
<1>18. CASE NoMatchingKey
  BY <1>18 DEF NoMatchingKey, Joined
<1>19. CASE UNCHANGED vars
  BY <1>19 DEF vars
<1> QED
  BY <1>1, <1>2, <1>3, <1>4, <1>5, <1>6, <1>7, <1>8, <1>9, <1>10, <1>11,
     <1>12, <1>13, <1>14, <1>15, <1>16, <1>17, <1>18, <1>19 DEF Next,
     Thread, Main

\* A candidate up to the n-th is before it or the n-th itself.
LEMMA LastOfRange ==
  ASSUME NEW n \in Nat
  PROVE  \A c \in 1 .. n : c \in 1 .. n - 1 \/ c = n
OBVIOUS

\* main goes past a candidate when all threads have left the loop.
LEMMA MissedStep ==
  ASSUME TypeOK, RunInv, JobInv, NoKeyMissed, [Next]_vars
  PROVE  NoKeyMissed'
<1> USE BitsliceAssumption DEF NoKeyMissed, TypeOK, GoodKeys, Goto, shared
<1>1. ASSUME NEW t \in Threads, Number(t) PROVE NoKeyMissed'
  BY <1>1 DEF Number
<1>2. ASSUME NEW t \in Threads, Arrive(t) PROVE NoKeyMissed'
  BY <1>2 DEF Arrive
<1>3. ASSUME NEW t \in Threads, SetupFails(t) PROVE NoKeyMissed'
  BY <1>3 DEF SetupFails
<1>4. ASSUME NEW t \in Threads, PassBarrier(t) PROVE NoKeyMissed'
  BY <1>4 DEF PassBarrier
<1>5. ASSUME NEW t \in Threads, Continue(t) PROVE NoKeyMissed'
  BY <1>5 DEF Continue
<1>6. ASSUME NEW t \in Threads, Quit(t) PROVE NoKeyMissed'
  BY <1>6 DEF Quit
<1>7. ASSUME NEW t \in Threads, DrawJob(t) PROVE NoKeyMissed'
  BY <1>7 DEF DrawJob
<1>8. ASSUME NEW t \in Threads, NoMoreJobs(t) PROVE NoKeyMissed'
  BY <1>8 DEF NoMoreJobs
<1>9. ASSUME NEW t \in Threads, NoMatch(t) PROVE NoKeyMissed'
  BY <1>9 DEF NoMatch
<1>10. ASSUME NEW t \in Threads, Match(t) PROVE NoKeyMissed'
  BY <1>10 DEF Match
<1>11. ASSUME NEW t \in Threads, Publish(t) PROVE NoKeyMissed'
  BY <1>11 DEF Publish
<1>12. ASSUME NEW t \in Threads, JobFails(t) PROVE NoKeyMissed'
  BY <1>12 DEF JobFails
<1>13. ASSUME NEW t \in Threads, Fail(t) PROVE NoKeyMissed'
  BY <1>13 DEF Fail
<1>14. CASE Start
  BY <1>14 DEF Start, Joined
<1>15. CASE StartFails
  BY <1>15 DEF StartFails, Joined
<1>16. CASE KeyFound
  BY <1>16 DEF KeyFound, Joined
<1>17. CASE NextCandidate
  <2>1. SUFFICES ASSUME candidate \notin failed PROVE GoodKeys(candidate) = {}
    <3>1. candidate \in Nat
      OBVIOUS
    <3>2. \A c \in 1 .. candidate : c \in 1 .. candidate - 1 \/ c = candidate
      BY <3>1, LastOfRange
    <3> QED
      BY <1>17, <3>1, <3>2 DEF NextCandidate
  <2>2. main = "joining" /\ ~success /\ \A t \in Threads : pc[t] = "done"
    BY <1>17 DEF NextCandidate, Joined
  <2>3. next_job >= NumJobs
    BY <2>1, <2>2 DEF RunInv
  <2>4. ASSUME NEW j \in Jobs
        PROVE  GoodOf(j) = {}
    <3>1. j < next_job
      BY <2>3 DEF Jobs
    <3>2. \A t \in Threads : pc[t] \notin {"search", "publish", "error"}
      BY <2>2
    <3> QED
      BY <2>1, <2>2, <3>1, <3>2 DEF JobInv
  <2> QED
    <3> SUFFICES ASSUME NEW k \in GoodKeys(candidate) PROVE FALSE
      OBVIOUS
    <3>1. PICK j \in Jobs : k \in Found[candidate][j]
      OBVIOUS
    <3> QED
      BY <2>4, <3>1 DEF GoodOf
<1>18. CASE NoMatchingKey
  BY <1>18 DEF NoMatchingKey, Joined
<1>19. CASE UNCHANGED vars
  BY <1>19 DEF vars
<1> QED
  BY <1>1, <1>2, <1>3, <1>4, <1>5, <1>6, <1>7, <1>8, <1>9, <1>10, <1>11,
     <1>12, <1>13, <1>14, <1>15, <1>16, <1>17, <1>18, <1>19 DEF Next,
     Thread, Main

\* main ends with the key that is stored.
LEMMA PrintStep ==
  ASSUME TypeOK, IdleInv, SuccessInv, PrintedKeyIsGood, [Next]_vars
  PROVE  PrintedKeyIsGood'
<1> USE DEF PrintedKeyIsGood, SuccessInv, GoodKeys, Goto, shared
<1>1. ASSUME NEW t \in Threads, Number(t) PROVE PrintedKeyIsGood'
  BY <1>1 DEF Number
<1>2. ASSUME NEW t \in Threads, Arrive(t) PROVE PrintedKeyIsGood'
  BY <1>2 DEF Arrive
<1>3. ASSUME NEW t \in Threads, SetupFails(t) PROVE PrintedKeyIsGood'
  BY <1>3 DEF SetupFails
<1>4. ASSUME NEW t \in Threads, PassBarrier(t) PROVE PrintedKeyIsGood'
  BY <1>4 DEF PassBarrier
<1>5. ASSUME NEW t \in Threads, Continue(t) PROVE PrintedKeyIsGood'
  BY <1>5 DEF Continue
<1>6. ASSUME NEW t \in Threads, Quit(t) PROVE PrintedKeyIsGood'
  BY <1>6 DEF Quit
<1>7. ASSUME NEW t \in Threads, DrawJob(t) PROVE PrintedKeyIsGood'
  BY <1>7 DEF DrawJob
<1>8. ASSUME NEW t \in Threads, NoMoreJobs(t) PROVE PrintedKeyIsGood'
  BY <1>8 DEF NoMoreJobs
<1>9. ASSUME NEW t \in Threads, NoMatch(t) PROVE PrintedKeyIsGood'
  BY <1>9 DEF NoMatch
<1>10. ASSUME NEW t \in Threads, Match(t) PROVE PrintedKeyIsGood'
  BY <1>10 DEF Match
<1>11. ASSUME NEW t \in Threads, Publish(t) PROVE PrintedKeyIsGood'
  BY <1>11 DEF Publish, IdleInv
<1>12. ASSUME NEW t \in Threads, JobFails(t) PROVE PrintedKeyIsGood'
  BY <1>12 DEF JobFails
<1>13. ASSUME NEW t \in Threads, Fail(t) PROVE PrintedKeyIsGood'
  BY <1>13 DEF Fail
<1>14. CASE Start
  BY <1>14 DEF Start, Joined
<1>15. CASE StartFails
  BY <1>15 DEF StartFails, Joined
<1>16. CASE KeyFound
  BY <1>16 DEF KeyFound, Joined
<1>17. CASE NextCandidate
  BY <1>17 DEF NextCandidate, Joined
<1>18. CASE NoMatchingKey
  BY <1>18 DEF NoMatchingKey, Joined
<1>19. CASE UNCHANGED vars
  BY <1>19 DEF vars
<1> QED
  BY <1>1, <1>2, <1>3, <1>4, <1>5, <1>6, <1>7, <1>8, <1>9, <1>10, <1>11,
     <1>12, <1>13, <1>14, <1>15, <1>16, <1>17, <1>18, <1>19 DEF Next,
     Thread, Main
-----------------------------------------------------------------------------
(* The theorems.                                                             *)

\* The invariant holds when the pool is started.
LEMMA Initially == Init => IInv
<1> SUFFICES ASSUME Init PROVE IInv
  OBVIOUS
<1>1. TypeOK
  <2>1. 0 \in Jobs /\ 0 \in 0 .. NumJobs /\ 0 \in 0 .. Cardinality(Threads)
    BY NumberedFinite, BitsliceAssumption DEF Jobs
  <2>2. pc \in [Threads -> Labels] /\ job \in [Threads -> Jobs] /\ late \in [Threads -> Nat]
    BY <2>1 DEF Init, Labels
  <2>3. candidate \in 1 .. NumCandidates + 1
    BY BitsliceAssumption DEF Init
  <2> QED
    BY <2>1, <2>2, <2>3 DEF Init, TypeOK
<1>2. NumberInv
  <2>1. NumberedThreads = {}
    BY DEF Init, NumberedThreads
  <2> QED
    BY <2>1, FS_EmptySet DEF Init, NumberInv
<1>3. IdleInv /\ RunInv /\ SuccessInv /\ LateInv /\ PrintedKeyIsGood
  BY DEF Init, IdleInv, RunInv, SuccessInv, LateInv, PrintedKeyIsGood
<1>4. JobInv /\ NoKeyMissed
  BY DEF Init, JobInv, Jobs, NoKeyMissed
<1> QED
  BY <1>1, <1>2, <1>3, <1>4 DEF IInv

\* The invariant of the bitslice pool holds in every reachable state.
THEOREM Invariance == Spec => []IInv
<1>1. IInv /\ [Next]_vars => IInv'
  <2> SUFFICES ASSUME IInv, [Next]_vars PROVE IInv'
    OBVIOUS
  <2>1. IdleInv' /\ NumberInv'
    BY IdleStep, NumberStep DEF IInv
  <2>2. TypeOK' /\ RunInv' /\ JobInv'
    BY <2>1, TypeStep, RunStep, JobStep DEF IInv
  <2>3. SuccessInv' /\ LateInv'
    BY SuccessStep, LateStep DEF IInv
  <2>4. NoKeyMissed' /\ PrintedKeyIsGood'
    BY MissedStep, PrintStep DEF IInv
  <2> QED
    BY <2>1, <2>2, <2>3, <2>4 DEF IInv
<1> QED
  BY Initially, <1>1, PTL DEF Spec

\* Variables keep their types: jobs and thread numbers stay in their ranges.
THEOREM TypeCorrect == Spec => []TypeOK
<1>1. IInv => TypeOK
  BY DEF IInv
<1> QED
  BY Invariance, <1>1, PTL

\* main goes past a candidate in whose search nothing failed only if none of its
\* jobs turns up a good key, though run is cleared while threads are in their last
\* jobs and whatever failed in the search of other candidates.
THEOREM NoKeyIsMissed == Spec => []NoKeyMissed
<1>1. IInv => NoKeyMissed
  BY DEF IInv
<1> QED
  BY Invariance, <1>1, PTL

\* The key that main prints is a good key of the candidate it is printed for,
\* whichever threads found keys or failed.
THEOREM PrintedKeyCorrect == Spec => []PrintedKeyIsGood
<1>1. IInv => PrintedKeyIsGood
  BY DEF IInv
<1> QED
  BY Invariance, <1>1, PTL

\* A thread draws at most one job after run was cleared.
THEOREM StopCorrect == Spec => []StopsPromptly
<1>1. IInv => StopsPromptly
  BY DEF IInv, LateInv, StopsPromptly
<1> QED
  BY Invariance, <1>1, PTL
=============================================================================
