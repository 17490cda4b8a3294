---------------------------- MODULE MCCtAttack3Kernel ----------------------------
(* An instance of CtAttack3Kernel for TLC: four pairs, four partial keys,    *)
(* four middle bytes and two rounds, on three threads.                       *)
EXTENDS CtAttack3Kernel, TLC

Same(S) == [p \in Pairs |-> S]
Nothing == [k \in Keys |-> Same({})]

\* Round 1: keys 0 and 2 reach tau1; key 0 has a middle byte above tau2 and one
\* at tau2, key 2 only some at tau2.  Round 2: only key 1 reaches tau1, though
\* keys 0 and 2 have suggestions again.
Plain == [
  hits |-> <<(0 :> {0}) @@ (1 :> {0, 2}) @@ (2 :> {2, 1}) @@ (3 :> {}),
             (0 :> {1, 0}) @@ (1 :> {1}) @@ (2 :> {}) @@ (3 :> {2})>>,
  match |-> <<(0 :> {0, 1, 3}) @@ (1 :> {2}) @@ (2 :> {1, 2}) @@ (3 :> {}),
              (0 :> {0}) @@ (1 :> {0, 1}) @@ (2 :> {3}) @@ (3 :> {})>>,
  middle |-> <<[Nothing EXCEPT
                  ![0] = (0 :> {0, 2}) @@ (1 :> {0}) @@ (2 :> {}) @@ (3 :> {}),
                  ![2] = (0 :> {}) @@ (1 :> {0}) @@ (2 :> {1}) @@ (3 :> {})],
               [Nothing EXCEPT
                  ![1] = (0 :> {1}) @@ (1 :> {1, 0}) @@ (2 :> {}) @@ (3 :> {})]>>]

\* Round 1: four pairs match key 0, one more than fits.  Round 2: three keys
\* reach tau1, one more than fits.
Overflowing == [
  hits |-> <<Same({0}),
             (0 :> {0, 1}) @@ (1 :> {0, 2}) @@ (2 :> {1, 2}) @@ (3 :> {})>>,
  match |-> <<(0 :> {0, 1, 2, 3}) @@ (1 :> {}) @@ (2 :> {}) @@ (3 :> {}),
              (0 :> {0, 1}) @@ (1 :> {0, 2}) @@ (2 :> {1, 2}) @@ (3 :> {})>>,
  middle |-> <<[Nothing EXCEPT ![0] = Same({1})],
               [k \in Keys |-> Same({k})]>>]

\* One candidate more than in Plain, and than there is room for.
Crowded ==
  [Plain EXCEPT !.middle[1][0] = (0 :> {0, 2}) @@ (1 :> {0, 3}) @@ (2 :> {}) @@ (3 :> {})]

AllInputs == {Plain, Overflowing, Crowded}
=============================================================================
