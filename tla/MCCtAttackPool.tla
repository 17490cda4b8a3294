----------------------------- MODULE MCCtAttackPool -----------------------------
(* Instances of CtAttackPool for TLC.                                        *)
EXTENDS CtAttackPool, TLC

CONSTANTS k1, k2, k3

\* Four jobs, numbered 1, 3, 5, 7: one fixed low bit, set.  Job 1 reports two
\* keys, one of which does not validate; job 3 reports none; jobs 5 and 7 report
\* a key each, and the key of job 1 would also validate under job 5.
FoundKeys ==
  [j \in Jobs |-> CASE j = 1 -> {k1, k2} [] j = 5 -> {k3} [] j = 7 -> {k2}
                    [] OTHER -> {}]
ValidKeys ==
  [j \in Jobs |-> CASE j = 1 -> {k1} [] j = 5 -> {k1, k3} [] OTHER -> {k2}]

\* Threads differ only by the number they draw, which is state.
Symmetry == Permutations(Threads)
=============================================================================
