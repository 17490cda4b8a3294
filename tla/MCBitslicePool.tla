------------------------------ MODULE MCBitslicePool ------------------------------
(* An instance of BitslicePool for TLC.                                      *)
EXTENDS BitslicePool

CONSTANTS k1, k2, k3, k4

\* The first candidate only turns up keys that decrypt one tuple by chance, or
\* most tuples but not the first;
\* jobs 1 and 2 of the second each turn up a good key, job 1 next to a bad one.
FoundKeys ==
  [c \in Candidates |-> [j \in Jobs |->
     CASE c = 1 /\ j = 0 -> {k3, k4}
       [] c = 2 /\ j = 1 -> {k1, k3}
       [] c = 2 /\ j = 2 -> {k2}
       [] OTHER -> {}]]
=============================================================================
