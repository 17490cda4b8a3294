-------------------------------- MODULE KeySearch --------------------------------
(*****************************************************************************)
(* What a parallel search over jobs promises, whoever runs it: each job is   *)
(* claimed once, a completed job contributes all its valid keys and nothing  *)
(* else, and an answer is given only when every job was completed or         *)
(* abandoned; a search that dropped a key or a job is lossy.                 *)
(*****************************************************************************)
CONSTANTS
  Jobs,   \* the jobs to search
  Found,  \* the keys a job turns up
  Valid   \* the keys that validate under a job

VARIABLES
  pending,   \* jobs nobody has claimed
  held,      \* jobs being searched
  reported,  \* <<job, key>> results
  lossy,     \* a key or a job may have been missed
  answered   \* the caller has its answer

vars == <<pending, held, reported, lossy, answered>>

Init ==
  /\ pending = Jobs
  /\ held = {}
  /\ reported = {}
  /\ lossy = FALSE
  /\ answered = FALSE

Claim(j) ==
  /\ j \in pending
  /\ pending' = pending \ {j}
  /\ held' = held \cup {j}
  /\ UNCHANGED <<reported, lossy, answered>>

\* The keys in K are reported; unless the search is lossy these are at least
\* the keys of the job that are valid.
Complete(j, K) ==
  /\ j \in held
  /\ K \subseteq Valid[j]
  /\ lossy \/ Found[j] \cap Valid[j] \subseteq K
  /\ held' = held \ {j}
  /\ reported' = reported \cup ({j} \X K)
  /\ UNCHANGED <<pending, lossy, answered>>

\* A key or an unclaimed job is given up, or some claimed jobs are.
Lose(J) ==
  /\ J \subseteq held
  /\ held' = held \ J
  /\ lossy' = TRUE
  /\ UNCHANGED <<pending, reported, answered>>

Answer ==
  /\ ~answered
  /\ held = {}
  /\ pending = {} \/ lossy
  /\ answered' = TRUE
  /\ UNCHANGED <<pending, held, reported, lossy>>

Next ==
  \/ \E j \in Jobs : Claim(j)
  \/ \E j \in Jobs : \E K \in SUBSET Valid[j] : Complete(j, K)
  \/ \E J \in SUBSET held : Lose(J)
  \/ Answer

Spec == Init /\ [][Next]_vars
=============================================================================
