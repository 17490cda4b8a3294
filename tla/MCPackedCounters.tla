----------------------------- MODULE MCPackedCounters -----------------------------
(* An instance of PackedCounters for TLC.                                    *)
EXTENDS PackedCounters, TLC

CONSTANTS t1, t2, t3

\* Three counters, two of them in one word.  All threads hit counter 0, which
\* takes one hit more than it needs to return Saturation + 1; or each of the
\* three counters is hit at least twice, one key more than the list has room for.
SharedWord ==
  {(t1 :> <<0, 1, 0>>) @@ (t2 :> <<0, 2, 0>>) @@ (t3 :> <<1, 0>>),
   (t1 :> <<0, 1, 2>>) @@ (t2 :> <<1, 0>>) @@ (t3 :> <<2, 1>>)}
=============================================================================
