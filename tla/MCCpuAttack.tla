-------------------------------- MODULE MCCpuAttack --------------------------------
(* Instances of CpuAttack for TLC.                                           *)
EXTENDS CpuAttack

CONSTANT MaxHits   \* bound: hits under a guess, before some that repeat a key

Hits(max) == UNION {[1 .. n -> Keys] : n \in 0 .. max}

\* One key as often as a counter has values, or until it reaches the threshold
\* again, and then a few others.
Wraps ==
  {[n \in 1 .. length |-> k] \o others :
     k \in Keys, length \in {CounterSize, CounterSize + tau1}, others \in Hits(2)}

\* One and two hits for each middle byte, in both orders.
MiddleHits == {<<0, 1, 1>>, <<1, 0, 0, 1>>}

\* What is indicated for the two middle bytes: no byte of rk7 often enough,
\* one of them, both.
Indications == {<< <<0, 1>>, <<1, 0, 0>> >>, << <<1, 0, 0>>, <<0, 1, 1, 0>> >>,
                << <<0, 1, 1, 0>>, <<0, 1>> >>}

MCInputs ==
  [hits : Hits(MaxHits) \cup Wraps,
   middle : {[k \in Keys |-> h] : h \in MiddleHits},
   indicated : {[k \in Keys \X Middle |-> pair[k[2] + 1]] : pair \in Indications}]

Finished == pc \in {"done", "error", "undefined"} /\ UNCHANGED vars

MCSpec == Init /\ [][Next \/ Finished]_vars
=============================================================================
