-------------------------- MODULE CtAttack3KernelProofs --------------------------
(*****************************************************************************)
(* Proofs about CtAttack3Kernel, for any number of threads, rounds, pairs,   *)
(* keys and middle bytes, for all inputs and any thresholds: what is         *)
(* reported is right, it is reported once but for a threshold just above the *)
(* saturation of the counters, without a warning it is all that is due or,   *)
(* with a threshold further above, nothing, and no barrier is diverged.      *)
(*                                                                           *)
(* The shared memory has several uses.  The invariant has a part for each    *)
(* phase, which says what counters and lists are while some threads are in   *)
(* the middle of it.                                                         *)
(*****************************************************************************)
EXTENDS CtAttack3Kernel, FiniteSetTheorems, TLAPS

-----------------------------------------------------------------------------
(* The inductive invariant.  R and I are the round and the index of the key  *)
(* that the hindmost threads are at, L is the length of the list of keys of  *)
(* that round.  A thread that is ahead has at most left the loop over the    *)
(* keys of round R and waits in the next round.                              *)

Counting(t) == pc[t] \in {"count", "sync count"}
Matching(t) == pc[t] \in {"match", "sync match"}
Testing(t) == pc[t] \in {"test", "sync test"}
AmongKeys(t) == pc[t] \in {"emit", "keys", "sync keys"}
Ahead(t) == pc[t] \in {"zero", "sync zero", "exit"}

\* All threads are in the same phase, but for those who run ahead.
PhaseInv ==
  \/ \A t \in Threads : Counting(t)
  \/ \A t \in Threads : Matching(t)
  \/ \A t \in Threads : Testing(t)
  \/ \A t \in Threads : AmongKeys(t) \/ Ahead(t)

\* Where the threads are.
PlaceInv(R, I) ==
  \A t \in Threads :
    /\ Counting(t) => round[t] = R
    /\ Matching(t) \/ Testing(t) \/ pc[t] = "emit" => round[t] = R /\ i[t] = I /\ I >= 0
    /\ pc[t] \in {"keys", "sync keys"} => round[t] = R /\ i[t] = I + 1
    /\ Ahead(t) => round[t] = R + 1 /\ i[t] = I + 1
    /\ pc[t] \in {"zero", "sync zero"} => R < Rounds
    /\ pc[t] = "exit" => R = Rounds

\* A thread that waits has cleared what it has to clear.
ZeroInv ==
  /\ \A t \in Threads : pc[t] = "sync zero" => \A w \in Mine(t, Words) : count[w] = 0
  /\ pc[0] = "sync zero" => nkeys = 0
  /\ pc[0] = "sync keys" => nmatch = 0
  /\ pc[0] = "sync match" => ~flag

\* The first n entries of the list are different keys with enough pairs.
IsInjectiveUpTo(f, n) == \A a, b \in 0 .. n - 1 : f[a] = f[b] => a = b

Length == AtMost(nkeys, MAX_KEYS)

\* The keys of the list are different, unless a saturated counter lists its key
\* at every suggestion.
Different(n) ==
  tau1 # Saturation + 1 => \A a, b \in 0 .. n - 1 : keys[a] = keys[b] => a = b

\* Is the list complete?  A counter never returns more than Saturation + 1.
Complete == ~warn /\ tau1 <= Saturation + 1

\* While counting: a counter has the suggestions that are done, as far as it
\* goes, and the keys of the list are those with enough of them.
Counted(R, k) == {p \in Pairs : k \in input.hits[R][p] /\ <<p, k>> \notin todo[p % NumThreads]}
Hits(R, k) == Cardinality(Counted(R, k))
CountInv(R) ==
  Counting(0) =>
    /\ \A t \in Threads : \A h \in todo[t] :
         /\ h \in Pairs \X Keys /\ h[1] % NumThreads = t
         /\ h[2] \in input.hits[R][h[1]]
    /\ \A t \in Threads : pc[t] = "sync count" => todo[t] = {}
    /\ \A k \in Keys : count[k] = AtMost(Hits(R, k), Saturation)
    /\ \A n \in 0 .. Length - 1 : Hits(R, keys[n]) >= tau1
    /\ Different(Length)
    /\ Complete => \A k \in Keys : Hits(R, k) >= tau1 => \E n \in 0 .. Length - 1 : keys[n] = k
    /\ tau1 > Saturation + 1 => Length = 0

\* After counting: the list, of length L although nkeys may be cleared already.
ListInv(R, I, L) ==
  R >= 1 /\ ~Counting(0) =>
    /\ I < L
    /\ \A n \in 0 .. L - 1 : Suggestions(R, keys[n]) >= tau1
    /\ Different(L)
    /\ Complete => \A k \in Keys : Suggestions(R, k) >= tau1 => \E n \in 0 .. L - 1 : keys[n] = k
    /\ tau1 > Saturation + 1 => L = 0
    /\ pc[0] # "sync zero" => Length = L
    /\ \A t \in Threads : Ahead(t) => I + 1 = L
    /\ \A t \in Threads : pc[t] = "sync keys" => I + 1 < L

\* While matching: the list of matches has those that are done.
Matched(R, k) == {p \in input.match[R][k] : p \notin todo[p % NumThreads]}
NumMatches == AtMost(nmatch, MAX_MATCHES)
ListsMatches(S) ==
  /\ \A j \in 0 .. NumMatches - 1 : matchp[j] \in S
  /\ IsInjectiveUpTo(matchp, NumMatches)
  /\ ~warn => \A p \in S : \E j \in 0 .. NumMatches - 1 : matchp[j] = p
MatchInv(R, I) ==
  Matching(0) =>
    /\ \A t \in Threads : todo[t] \subseteq Mine(t, input.match[R][keys[I]])
    /\ \A t \in Threads : pc[t] = "sync match" =>
         todo[t] = {} /\ \A m \in Mine(t, Middle) : count[m] = 0
    /\ ListsMatches(Matched(R, keys[I]))

\* While testing: a counter has the middle bytes that are done, the flag is up
\* if one of them passed tau2.
Suggesting(R, k, m) == {j \in 0 .. NumMatches - 1 : m \in input.middle[R][k][matchp[j]]}
Tested(R, k, m) == {j \in Suggesting(R, k, m) : <<j, m>> \notin todo[j % NumThreads]}
TestInv(R, I) ==
  Testing(0) =>
    /\ ListsMatches(input.match[R][keys[I]])
    /\ \A t \in Threads : \A h \in todo[t] :
         /\ h \in (0 .. NumMatches - 1) \X Middle /\ h[1] % NumThreads = t
         /\ h[1] \in Suggesting(R, keys[I], h[2])
    /\ \A t \in Threads : pc[t] = "sync test" => todo[t] = {}
    /\ \A m \in Middle : count[m] = Cardinality(Tested(R, keys[I], m))
    /\ flag = (\E m \in Middle : count[m] > tau2)

\* While reporting: a thread's own counters are still what they were when all
\* had been tested, and so is the flag.
EmitInv(R, I) ==
  \A t \in Threads : pc[t] = "emit" =>
    /\ todo[t] \subseteq Mine(t, Middle)
    /\ \A m \in Mine(t, Middle) :
         /\ count[m] <= Matches(R, keys[I], m)
         /\ ~warn => count[m] = Matches(R, keys[I], m)
    /\ ~warn /\ (\E m \in Middle : Matches(R, keys[I], m) > tau2) => flag

\* Has thread t got past the middle byte m of key k in round r?
InLoop(t) == Matching(t) \/ Testing(t) \/ AmongKeys(t)
Past(t, r, k, m) ==
  \/ r < round[t]
  \/ /\ r = round[t] /\ InLoop(t)
     /\ \E n \in 0 .. MAX_KEYS - 1 :
          keys[n] = k /\ (n < i[t] \/ (n = i[t] /\ pc[t] = "emit" /\ m \notin todo[t]))

\* The candidates are those that the thread in charge has got past.
ResultInv ==
  /\ candidates \subseteq (1 .. Rounds) \X Keys \X Middle \X Nat
  /\ IsFiniteSet(candidates)
  /\ \A c \in candidates : Past(c[3] % NumThreads, c[1], c[2], c[3])
  /\ Complete =>
       \A r \in 1 .. Rounds, k \in Keys, m \in Middle :
         Past(m % NumThreads, r, k, m) /\ Due(r, k, m) =>
           <<r, k, m, Matches(r, k, m)>> \in candidates

Body(R, I, L) ==
  /\ PlaceInv(R, I)
  /\ CountInv(R)
  /\ ListInv(R, I, L)
  /\ MatchInv(R, I)
  /\ TestInv(R, I)
  /\ EmitInv(R, I)

TodoOK == todo = [t \in Threads |-> todo[t]]

IInv ==
  /\ TypeOK
  /\ TodoOK
  /\ PhaseInv
  /\ ZeroInv
  /\ ResultInv
  /\ ReportsAreRight
  /\ ReportedOnce
  /\ \E R \in 0 .. Rounds, I \in -1 .. MAX_KEYS - 1, L \in 0 .. MAX_KEYS : Body(R, I, L)
-----------------------------------------------------------------------------
(* Lemmas about the constants and the operators.                             *)

\* The numbers of threads, rounds and so on are positive.
LEMMA Positive ==
  /\ {NumThreads, Rounds, NumPairs, NumKeys, NumMiddle, tau1, tau2, Saturation,
      MAX_KEYS, MAX_MATCHES, MAX_CANDIDATES} \subseteq Nat
  /\ NumThreads >= 1 /\ Rounds >= 1 /\ NumPairs >= 1 /\ NumKeys >= 1 /\ NumMiddle >= 1
  /\ tau1 >= 1 /\ tau2 >= 1 /\ Saturation >= 1 /\ MAX_KEYS >= 1 /\ MAX_MATCHES >= 1
BY KernelAssumption

\* There is a thread 0, and every number has a thread that it falls to.
LEMMA Owner ==
  /\ 0 \in Threads
  /\ \A x \in Nat : x % NumThreads \in Threads
BY Positive DEF Threads

\* The input has the suggestions of the pairs.
LEMMA InputType ==
  ASSUME input \in Inputs
  PROVE  /\ \A r \in 1 .. Rounds, p \in Pairs : input.hits[r][p] \subseteq Keys
         /\ \A r \in 1 .. Rounds, k \in Keys : input.match[r][k] \subseteq Pairs
         /\ \A r \in 1 .. Rounds, k \in Keys, p \in Pairs :
              input.middle[r][k][p] \subseteq Middle
<1>1. /\ input.hits \in [1 .. Rounds -> [Pairs -> SUBSET Keys]]
      /\ input.match \in [1 .. Rounds -> [Keys -> SUBSET Pairs]]
      /\ input.middle \in [1 .. Rounds -> [Keys -> [Pairs -> SUBSET Middle]]]
  BY KernelAssumption
<1>2. \A r \in 1 .. Rounds : /\ input.hits[r] \in [Pairs -> SUBSET Keys]
                            /\ input.match[r] \in [Keys -> SUBSET Pairs]
                            /\ input.middle[r] \in [Keys -> [Pairs -> SUBSET Middle]]
  BY <1>1
<1> QED
  BY <1>2

\* Pairs, middle bytes and what is chosen of them are finite.
LEMMA Finite ==
  /\ \A S \in SUBSET Pairs : IsFiniteSet(S) /\ Cardinality(S) \in Nat
  /\ \A S \in SUBSET Nat, n \in Nat : S \subseteq 0 .. n - 1 => IsFiniteSet(S)
<1>1. \A n \in Nat : IsFiniteSet(0 .. n - 1)
  BY FS_Interval
<1>2. IsFiniteSet(Pairs)
  BY <1>1, Positive DEF Pairs
<1> QED
  BY <1>1, <1>2, FS_Subset, FS_CardinalityType

\* The smaller of two numbers.
LEMMA AtMostIs ==
  ASSUME NEW n \in Nat, NEW bound \in Nat
  PROVE  /\ AtMost(n, bound) \in 0 .. bound
         /\ n < bound => AtMost(n, bound) = n /\ AtMost(n + 1, bound) = n + 1
         /\ n >= bound => AtMost(n, bound) = bound /\ AtMost(n + 1, bound) = bound
         /\ AtMost(0, bound) = 0
BY DEF AtMost

\* One pair more.
LEMMA OneMore ==
  ASSUME NEW S, NEW x, IsFiniteSet(S), x \notin S
  PROVE  Cardinality(S \cup {x}) = Cardinality(S) + 1
BY FS_AddElement

\* A list of different members of S is not longer than S; if it has all of
\* them, it is as long.
LEMMA Listing ==
  ASSUME NEW n \in Nat, NEW J \in SUBSET (0 .. n - 1), NEW S, IsFiniteSet(S),
         NEW f, \A j \in J : f[j] \in S,
         \A a, b \in J : f[a] = f[b] => a = b
  PROVE  /\ Cardinality(J) <= Cardinality(S)
         /\ (\A s \in S : \E j \in J : f[j] = s) => Cardinality(J) = Cardinality(S)
<1> DEFINE g == [j \in J |-> f[j]]
<1>1. g \in Injection(J, S)
  BY DEF Injection, IsInjective
<1>2. (\A s \in S : \E j \in J : f[j] = s) => g \in Surjection(J, S)
  BY DEF Surjection
<1> HIDE DEF g
<1> QED
  BY <1>1, <1>2, FS_Injection


-----------------------------------------------------------------------------
(* Lemmas about the parts of the invariant.                                  *)

\* A thread is in one phase, and the others are in the same.
LEMMA Phases ==
  ASSUME TypeOK, PhaseInv, NEW t \in Threads
  PROVE  /\ Counting(t) <=> Counting(0)
         /\ Matching(t) <=> Matching(0)
         /\ Testing(t) <=> Testing(0)
         /\ AmongKeys(t) \/ Ahead(t) <=> ~Counting(0) /\ ~Matching(0) /\ ~Testing(0)
         /\ Counting(0) => ~Matching(0) /\ ~Testing(0)
         /\ Matching(0) => ~Testing(0)
<1>1. pc[t] \in Labels /\ pc[0] \in Labels /\ 0 \in Threads
  BY Owner DEF TypeOK
<1>2. \/ Counting(t) /\ Counting(0)
      \/ Matching(t) /\ Matching(0)
      \/ Testing(t) /\ Testing(0)
      \/ (AmongKeys(t) \/ Ahead(t)) /\ (AmongKeys(0) \/ Ahead(0))
  BY <1>1 DEF PhaseInv
<1> QED
  BY <1>2 DEF Counting, Matching, Testing, AmongKeys, Ahead

\* What a reported candidate says depends on the input only, and a warning
\* takes nothing away.
LEMMA ResultsKept ==
  ASSUME ReportsAreRight, ReportedOnce, UNCHANGED <<input, results>>, ~warn' => ~warn
  PROVE  ReportsAreRight' /\ ReportedOnce'
BY DEF ReportsAreRight, ReportedOnce, results, Suggestions, Matches

\* If no thread gets past anything that is due, the candidates stay right.
LEMMA ResultKept ==
  ASSUME ResultInv, UNCHANGED <<input, results>>, ~warn' => ~warn,
         ASSUME NEW t \in Threads, NEW r \in 1 .. Rounds, NEW k \in Keys, NEW m \in Middle,
                m % NumThreads = t
         PROVE  /\ Past(t, r, k, m) => Past(t, r, k, m)'
                /\ Complete /\ Past(t, r, k, m)' /\ Due(r, k, m) => Past(t, r, k, m)
  PROVE  ResultInv'
<1>1. UNCHANGED <<input, candidates>>
  BY DEF results
<1>2. \A m \in Middle : m % NumThreads \in Threads
  BY Owner, Positive DEF Middle
<1>3. \A r \in 1 .. Rounds, k \in Keys, m \in Middle :
        /\ Past(m % NumThreads, r, k, m) => Past(m % NumThreads, r, k, m)'
        /\ Complete /\ Past(m % NumThreads, r, k, m)' /\ Due(r, k, m) => Past(m % NumThreads, r, k, m)
  BY <1>2
<1>4. \A c \in candidates : c[1] \in 1 .. Rounds /\ c[2] \in Keys /\ c[3] \in Middle
  BY DEF ResultInv
<1>5. \A c \in candidates' : Past(c[3] % NumThreads, c[1], c[2], c[3])'
  BY <1>1, <1>3, <1>4 DEF ResultInv
<1>6. \A r \in 1 .. Rounds, k \in Keys, m \in Middle :
        /\ Due(r, k, m)' => Due(r, k, m)
        /\ Matches(r, k, m)' = Matches(r, k, m)
  BY <1>1 DEF Due, Matches, Suggestions
<1>7. Complete' => Complete
  BY DEF Complete
<1>8. Complete' =>
        \A r \in 1 .. Rounds, k \in Keys, m \in Middle :
          Past(m % NumThreads, r, k, m)' /\ Due(r, k, m)' =>
            <<r, k, m, Matches(r, k, m)'>> \in candidates'
  BY <1>1, <1>3, <1>6, <1>7, Zenon DEF ResultInv
<1> QED
  BY <1>1, <1>5, <1>8, Zenon DEF ResultInv

\* A thread that only moves on in its phase gets past nothing.
LEMMA PastKept ==
  ASSUME UNCHANGED <<round, i, keys>>, NEW t \in Threads,
         InLoop(t)' <=> InLoop(t),
         pc'[t] = "emit" <=> pc[t] = "emit",
         pc[t] = "emit" => todo'[t] = todo[t]
  PROVE  \A r, k, m : Past(t, r, k, m)' <=> Past(t, r, k, m)
BY Zenon DEF Past

\* Steps in which no result is touched and each thread stays where it is in the
\* loop over the keys.
LEMMA ResultStays ==
  ASSUME ResultInv, ReportsAreRight, ReportedOnce,
         UNCHANGED <<input, round, i, keys, results>>, ~warn' => ~warn,
         ASSUME NEW t \in Threads
         PROVE  /\ InLoop(t)' <=> InLoop(t)
                /\ pc'[t] = "emit" <=> pc[t] = "emit"
                /\ pc[t] = "emit" => todo'[t] = todo[t]
  PROVE  ResultInv' /\ ReportsAreRight' /\ ReportedOnce'
<1>1. \A t \in Threads : \A r, k, m : Past(t, r, k, m)' <=> Past(t, r, k, m)
  BY PastKept
<1>2. ResultInv'
  BY <1>1, ResultKept
<1> QED
  BY <1>2, ResultsKept

\* The list of keys is that of the round as long as the threads go over it.
LEMMA ListKept ==
  ASSUME NEW R \in 0 .. Rounds, NEW I, NEW J, NEW L, ListInv(R, I, L),
         UNCHANGED <<input, keys>>, ~warn' => ~warn, Counting(0)' \/ ~Counting(0),
         ASSUME R >= 1, ~Counting(0)
         PROVE  /\ J < L
                /\ pc'[0] # "sync zero" => Length' = L
                /\ \A t \in Threads : Ahead(t)' => J + 1 = L
                /\ \A t \in Threads : pc'[t] = "sync keys" => J + 1 < L
  PROVE  ListInv(R, J, L)'
<1>1. \A k : Suggestions(R, k)' = Suggestions(R, k)
  BY DEF Suggestions
<1>2. SUFFICES ASSUME R >= 1, ~Counting(0)'
               PROVE  ListInv(R, J, L)'
  BY DEF ListInv
<1>3. /\ J < L
      /\ pc'[0] # "sync zero" => Length' = L
      /\ \A t \in Threads : Ahead(t)' => J + 1 = L
      /\ \A t \in Threads : pc'[t] = "sync keys" => J + 1 < L
  BY <1>2
<1>4. /\ \A n \in 0 .. L - 1 : Suggestions(R, keys[n]) >= tau1
      /\ Different(L)
      /\ Complete => \A k \in Keys : Suggestions(R, k) >= tau1 => \E n \in 0 .. L - 1 : keys[n] = k
      /\ tau1 > Saturation + 1 => L = 0
  BY <1>2 DEF ListInv
<1>5. Different(L)' /\ (Complete' => Complete)
  BY <1>4 DEF Different, Complete
<1> QED
  BY <1>1, <1>3, <1>4, <1>5 DEF ListInv

\* A thread's own counters are left alone while it reports.
LEMMA EmitKept ==
  ASSUME NEW R \in 0 .. Rounds, NEW I, EmitInv(R, I),
         UNCHANGED <<input, keys, flag>>, ~warn' => ~warn,
         ASSUME NEW t \in Threads, pc'[t] = "emit"
         PROVE  /\ pc[t] = "emit" /\ todo'[t] \subseteq todo[t]
                /\ \A m \in Mine(t, Middle) : count'[m] = count[m]
  PROVE  EmitInv(R, I)'
<1>1. \A m \in Middle : Matches(R, keys[I], m)' = Matches(R, keys[I], m)
  BY DEF Matches
<1>2. \A t \in Threads : Mine(t, Middle) \subseteq Middle
  BY DEF Mine
<1> QED
  BY <1>1, <1>2 DEF EmitInv

\* The parts of ListInv that concern where the threads are.
LEMMA ListPlaces ==
  ASSUME NEW R \in 1 .. Rounds, NEW I, NEW L, ListInv(R, I, L), ~Counting(0)
  PROVE  /\ I < L
         /\ pc[0] # "sync zero" => Length = L
         /\ \A t \in Threads : Ahead(t) => I + 1 = L
         /\ \A t \in Threads : pc[t] = "sync keys" => I + 1 < L
<1>1. R >= 1
  BY Positive
<1> QED
  BY <1>1 DEF ListInv

-----------------------------------------------------------------------------
(* The steps of a thread.                                                    *)

\* A step of one thread within its phase leaves all in the same phase.
LEMMA PhaseKept ==
  ASSUME PhaseInv,
         ASSUME NEW t \in Threads
         PROVE  /\ Counting(t)' <=> Counting(t)
                /\ Matching(t)' <=> Matching(t)
                /\ Testing(t)' <=> Testing(t)
                /\ AmongKeys(t)' \/ Ahead(t)' <=> AmongKeys(t) \/ Ahead(t)
  PROVE  PhaseInv'
BY Zenon DEF PhaseInv

\* Clearing the counters for a new round.
LEMMA ZeroStep ==
  ASSUME IInv, NEW t \in Threads, Zero(t)
  PROVE  IInv'
<1>1. PICK R \in 0 .. Rounds, I \in -1 .. MAX_KEYS - 1, L \in 0 .. MAX_KEYS : Body(R, I, L)
  BY DEF IInv
<1>2. /\ pc[t] = "zero" /\ pc' = [pc EXCEPT ![t] = "sync zero"]
      /\ count' = [w \in Words |-> IF w \in Mine(t, Words) THEN 0 ELSE count[w]]
      /\ nkeys' = IF t = 0 THEN 0 ELSE nkeys
      /\ UNCHANGED <<input, round, i, todo, keys, matchp, nmatch, flag, warn, results>>
  BY DEF Zero, Goto, Zeroed
<1>3. TypeOK /\ TodoOK /\ PhaseInv /\ ZeroInv /\ ResultInv /\ ReportsAreRight /\ ReportedOnce
  BY DEF IInv
<1>4. pc'[t] = "sync zero" /\ \A u \in Threads : u # t => pc'[u] = pc[u]
  BY <1>2, <1>3 DEF TypeOK
<1>5. TypeOK' /\ TodoOK'
  BY <1>2, <1>3 DEF TypeOK, TodoOK, Labels, results
<1>6. PhaseInv'
  BY <1>2, <1>3, <1>4, PhaseKept DEF Counting, Matching, Testing, AmongKeys, Ahead
<1>7. ~Counting(0)' /\ ~Matching(0)' /\ ~Testing(0)' /\ ~Counting(0)
  BY <1>2, <1>3, <1>4, Owner, Phases DEF Counting, Matching, Testing, AmongKeys, Ahead
<1>8. ZeroInv'
  <2>1. ASSUME NEW u \in Threads, pc'[u] = "sync zero", NEW w \in Mine(u, Words)
        PROVE  count'[w] = 0
    BY <1>2, <1>3, <1>4, <2>1 DEF ZeroInv, Mine
  <2>2. pc'[0] = "sync zero" => nkeys' = 0
    BY <1>2, <1>3, <1>4, Owner DEF ZeroInv
  <2>3. pc'[0] = "sync keys" => nmatch' = 0
    BY <1>2, <1>3, <1>4, Owner DEF ZeroInv
  <2>4. pc'[0] = "sync match" => ~flag'
    BY <1>2, <1>3, <1>4, Owner DEF ZeroInv
  <2> QED
    BY <2>1, <2>2, <2>3, <2>4 DEF ZeroInv, Mine
<1>9. ResultInv' /\ ReportsAreRight' /\ ReportedOnce'
  BY <1>2, <1>3, <1>4, ResultStays DEF InLoop, Matching, Testing, AmongKeys
<1>10. PlaceInv(R, I)'
  BY <1>1, <1>2, <1>4 DEF Body, PlaceInv, Counting, Matching, Testing, Ahead
<1>11. ListInv(R, I, L)'
  <2>1. ASSUME R >= 1, ~Counting(0)
        PROVE  /\ I < L
               /\ pc'[0] # "sync zero" => Length' = L
               /\ \A u \in Threads : Ahead(u)' => I + 1 = L
               /\ \A u \in Threads : pc'[u] = "sync keys" => I + 1 < L
    BY <1>1, <1>2, <1>4, <2>1, Owner DEF Body, ListInv, Length, Ahead
  <2> QED
    BY <1>1, <1>2, <1>7, <2>1, ListKept DEF Body
<1>12. EmitInv(R, I)'
  <2>1. ASSUME NEW u \in Threads, pc'[u] = "emit"
        PROVE  /\ pc[u] = "emit" /\ todo'[u] \subseteq todo[u]
               /\ \A m \in Mine(u, Middle) : count'[m] = count[m]
    BY <1>2, <1>4, <2>1 DEF Mine, Words
  <2> QED
    BY <1>1, <1>2, <2>1, EmitKept DEF Body
<1>13. CountInv(R)' /\ MatchInv(R, I)' /\ TestInv(R, I)'
  BY <1>7 DEF CountInv, MatchInv, TestInv
<1>14. Body(R, I, L)'
  BY <1>10, <1>11, <1>12, <1>13 DEF Body
<1> QED
  BY <1>5, <1>6, <1>8, <1>9, <1>14 DEF IInv

\* Counting a suggestion.
LEMMA CountStep ==
  ASSUME IInv, NEW t \in Threads, Count(t)
  PROVE  IInv'
<1>1. PICK R \in 0 .. Rounds, I \in -1 .. MAX_KEYS - 1, L \in 0 .. MAX_KEYS : Body(R, I, L)
  BY DEF IInv
<1>2. PICK h \in todo[t] :
        /\ pc[t] = "count"
        /\ todo' = [todo EXCEPT ![t] = @ \ {h}]
        /\ count' = [count EXCEPT ![h[2]] = AtMost(@ + 1, Saturation)]
        /\ \/ /\ count[h[2]] + 1 # tau1
              /\ UNCHANGED <<keys, nkeys, warn>>
           \/ /\ count[h[2]] + 1 = tau1
              /\ nkeys' = nkeys + 1
              /\ \/ nkeys < MAX_KEYS /\ keys' = [keys EXCEPT ![nkeys] = h[2]] /\ UNCHANGED warn
                 \/ nkeys >= MAX_KEYS /\ warn' = TRUE /\ UNCHANGED keys
        /\ UNCHANGED <<input, pc, round, i, matchp, nmatch, flag, results>>
  BY DEF Count
<1>3. TypeOK /\ TodoOK /\ PhaseInv /\ ZeroInv /\ ResultInv /\ ReportsAreRight /\ ReportedOnce
  BY DEF IInv
<1>4. \A u \in Threads : Counting(u) /\ pc'[u] = pc[u]
  BY <1>2, <1>3, Owner, Phases DEF Counting
<1> DEFINE k == h[2]
           p == h[1]
<1>5. CountInv(R) /\ Counting(0)
  BY <1>1, <1>4, Owner DEF Body
<1>6. /\ h = <<p, k>> /\ p \in Pairs /\ k \in Keys /\ k \in Words /\ p % NumThreads = t
      /\ k \in input.hits[R][p]
  <2>1. h \in Pairs \X Keys /\ h[1] % NumThreads = t /\ h[2] \in input.hits[R][h[1]]
    BY <1>2, <1>5 DEF CountInv
  <2> QED
    BY <2>1 DEF Words
<1> HIDE DEF k, p
<1>7. /\ nkeys \in Nat /\ MAX_KEYS \in Nat /\ tau1 \in Nat /\ Saturation \in Nat
      /\ R \in 1 .. Rounds
  <2>1. PlaceInv(R, I)
    BY <1>1 DEF Body
  <2>2. R = round[t] /\ round[t] \in 1 .. Rounds + 1
    BY <1>3, <1>4, <2>1 DEF TypeOK, PlaceInv
  <2> QED
    BY <1>3, <2>2, Positive DEF TypeOK
<1>8. /\ TypeOK' /\ TodoOK'
  <2>1. count' \in [Words -> Nat]
    <3>1. count \in [Words -> Nat]
      BY <1>3 DEF TypeOK
    <3>2. AtMost(count[k] + 1, Saturation) \in Nat
      BY <1>6, <1>7, <3>1 DEF AtMost
    <3> QED
      BY <1>2, <1>6, <3>1, <3>2 DEF k
  <2>2. nkeys' \in Nat /\ keys' \in [0 .. MAX_KEYS - 1 -> Keys] /\ warn' \in BOOLEAN
    <3>1. keys \in [0 .. MAX_KEYS - 1 -> Keys] /\ warn \in BOOLEAN
      BY <1>3 DEF TypeOK
    <3>2. CASE UNCHANGED <<keys, nkeys, warn>>
      BY <1>7, <3>1, <3>2
    <3>3. CASE nkeys' = nkeys + 1 /\ keys' = [keys EXCEPT ![nkeys] = k] /\ UNCHANGED warn
      <4>1. keys' \in [0 .. MAX_KEYS - 1 -> Keys]
        BY <1>6, <3>1, <3>3
      <4> QED
        <5>1. nkeys' \in Nat
          BY <1>7, <3>3
        <5>2. warn' \in BOOLEAN
          BY <3>1, <3>3, Zenon
        <5> QED
          BY <4>1, <5>1, <5>2
    <3>4. CASE nkeys' = nkeys + 1 /\ warn' = TRUE /\ UNCHANGED keys
      BY <1>7, <3>1, <3>4
    <3> QED
      BY <1>2, <3>2, <3>3, <3>4 DEF k
  <2> QED
    BY <1>2, <1>3, <2>1, <2>2 DEF TypeOK, TodoOK, results
<1>9. /\ count' = [count EXCEPT ![k] = AtMost(@ + 1, Saturation)]
      /\ todo'[t] = todo[t] \ {h} /\ \A u \in Threads : u # t => todo'[u] = todo[u]
  BY <1>2, <1>3 DEF TodoOK, k
<1>10. count'[k] = AtMost(count[k] + 1, Saturation) /\ count[k] \in Nat
       /\ \A l \in Keys : l # k => count'[l] = count[l]
  BY <1>3, <1>6, <1>9 DEF TypeOK, Words
<1>11. PhaseInv'
  BY <1>2, <1>3, PhaseKept DEF Counting, Matching, Testing, AmongKeys, Ahead
<1>12. ZeroInv'
  BY <1>4, Owner DEF ZeroInv, Counting
<1>13. ~warn' => ~warn
  BY <1>2, <1>3 DEF TypeOK
<1>14. ResultInv' /\ ReportsAreRight' /\ ReportedOnce'
  <2>1. \A u \in Threads : ~InLoop(u) /\ ~InLoop(u)'
    BY <1>2, <1>4 DEF InLoop, Counting, Matching, Testing, AmongKeys
  <2>2. \A u \in Threads : \A r, l, m : Past(u, r, l, m)' <=> Past(u, r, l, m)
    BY <1>2, <2>1, Zenon DEF Past
  <2> QED
    BY <1>2, <1>3, <1>13, <2>2, ResultKept, ResultsKept
<1>15. CountInv(R)'
  <2>1. \A u \in Threads : \A g \in todo'[u] :
          /\ g \in Pairs \X Keys /\ g[1] % NumThreads = u
          /\ g[2] \in input'.hits[R][g[1]]
    BY <1>2, <1>5, <1>9 DEF CountInv
  <2>2. \A u \in Threads : pc'[u] = "sync count" => todo'[u] = {}
    BY <1>2, <1>4, <1>5, <1>9 DEF CountInv
  <2>3. /\ Counted(R, k)' = Counted(R, k) \cup {p} /\ p \notin Counted(R, k)
    <3>1. p \notin Counted(R, k)
      BY <1>2, <1>6 DEF Counted
    <3>2. ASSUME NEW q \in Pairs, k \in input.hits[R][q], q # p
          PROVE  <<q, k>> \in todo'[q % NumThreads] <=> <<q, k>> \in todo[q % NumThreads]
      <4>1. q % NumThreads \in Threads
        BY Owner, Positive DEF Pairs
      <4> QED
        BY <1>6, <1>9, <3>2, <4>1
    <3>3. <<p, k>> \notin todo'[p % NumThreads]
      BY <1>6, <1>9
    <3> QED
      BY <1>2, <1>6, <3>1, <3>2, <3>3 DEF Counted
  <2>4. \A l \in Keys : l # k => Counted(R, l)' = Counted(R, l)
    <3>1. ASSUME NEW l \in Keys, l # k, NEW q \in Pairs
          PROVE  <<q, l>> \in todo'[q % NumThreads] <=> <<q, l>> \in todo[q % NumThreads]
      <4>1. q % NumThreads \in Threads
        BY Owner, Positive DEF Pairs
      <4> QED
        BY <1>6, <1>9, <3>1, <4>1
    <3> QED
      BY <1>2, <3>1 DEF Counted
  <2>5. /\ Hits(R, k)' = Hits(R, k) + 1 /\ Hits(R, k) \in Nat
        /\ \A l \in Keys : l # k => Hits(R, l)' = Hits(R, l)
        /\ \A l \in Keys : Hits(R, l) \in Nat
    <3>1. \A l : IsFiniteSet(Counted(R, l)) /\ Cardinality(Counted(R, l)) \in Nat
      BY Finite DEF Counted
    <3>2. Cardinality(Counted(R, k)') = Cardinality(Counted(R, k)) + 1
      BY <2>3, <3>1, OneMore
    <3> QED
      BY <2>4, <3>1, <3>2 DEF Hits
  <2>6. /\ count[k] = AtMost(Hits(R, k), Saturation)
        /\ \A l \in Keys : count'[l] = AtMost(Hits(R, l)', Saturation)
    <3>1. \A l \in Keys : count[l] = AtMost(Hits(R, l), Saturation)
      BY <1>5 DEF CountInv
    <3>2. AtMost(AtMost(Hits(R, k), Saturation) + 1, Saturation) = AtMost(Hits(R, k) + 1, Saturation)
      BY <1>7, <2>5 DEF AtMost
    <3> QED
      BY <1>6, <1>10, <2>5, <3>1, <3>2
  <2>7. /\ count[k] + 1 = tau1 => Hits(R, k) + 1 >= tau1 /\ tau1 <= Saturation + 1
        /\ count[k] + 1 = tau1 /\ tau1 # Saturation + 1 => ~(Hits(R, k) >= tau1)
        /\ count[k] + 1 # tau1 /\ tau1 <= Saturation + 1 /\ Hits(R, k) + 1 >= tau1 =>
             Hits(R, k) >= tau1
    BY <1>7, <2>5, <2>6 DEF AtMost
  <2>8. /\ Length \in 0 .. MAX_KEYS
        /\ \A n \in 0 .. Length - 1 : keys[n] \in Keys /\ Hits(R, keys[n]) >= tau1
        /\ Different(Length)
        /\ Complete => \A l \in Keys : Hits(R, l) >= tau1 => \E n \in 0 .. Length - 1 : keys[n] = l
        /\ tau1 > Saturation + 1 => Length = 0
    <3>1. Length \in 0 .. MAX_KEYS
      BY <1>7, AtMostIs DEF Length
    <3>2. \A n \in 0 .. Length - 1 : keys[n] \in Keys
      BY <1>3, <1>7, <3>1 DEF TypeOK
    <3> QED
      BY <1>5, <3>1, <3>2 DEF CountInv
  <2>9. \A l \in Keys : Hits(R, l) >= tau1 => Hits(R, l)' >= tau1
    BY <1>6, <1>7, <2>5
  <2>10. Complete' => Complete
    BY <1>13 DEF Complete
  <2>11. /\ \A n \in 0 .. Length' - 1 : Hits(R, keys[n])' >= tau1
         /\ Different(Length)'
         /\ Complete' => \A l \in Keys : Hits(R, l)' >= tau1 =>
                           \E n \in 0 .. Length' - 1 : keys'[n] = l
         /\ tau1 > Saturation + 1 => Length' = 0
    <3>1. CASE UNCHANGED <<keys, nkeys, warn>> /\ count[k] + 1 # tau1
      <4>1. Length' = Length /\ keys' = keys
        BY <3>1 DEF Length
      <4>2. \A n \in 0 .. Length' - 1 : Hits(R, keys[n])' >= tau1
        BY <2>8, <2>9, <4>1
      <4>3. Different(Length)'
        BY <2>8, <4>1 DEF Different
      <4>4. ASSUME Complete', NEW l \in Keys, Hits(R, l)' >= tau1
            PROVE  \E n \in 0 .. Length' - 1 : keys'[n] = l
        <5>1. Complete /\ tau1 <= Saturation + 1
          BY <2>10, <4>4 DEF Complete
        <5>2. Hits(R, l) >= tau1
          BY <2>5, <2>7, <3>1, <4>4, <5>1
        <5> QED
          BY <2>8, <4>1, <5>1, <5>2
      <4> QED
        BY <2>8, <4>1, <4>2, <4>3, <4>4
    <3>2. CASE /\ count[k] + 1 = tau1 /\ nkeys' = nkeys + 1 /\ nkeys < MAX_KEYS
               /\ keys' = [keys EXCEPT ![nkeys] = k] /\ UNCHANGED warn
      <4>1. Length = nkeys /\ Length' = nkeys + 1
        BY <1>7, <3>2, AtMostIs DEF Length
      <4>2. /\ \A n \in 0 .. nkeys - 1 : keys[n] \in Keys /\ Hits(R, keys[n]) >= tau1
            /\ tau1 # Saturation + 1 =>
                 \A a, b \in 0 .. nkeys - 1 : keys[a] = keys[b] => a = b
        <5>1. 0 .. Length - 1 = 0 .. nkeys - 1
          BY <4>1
        <5>2. tau1 # Saturation + 1 =>
                \A a, b \in 0 .. Length - 1 : keys[a] = keys[b] => a = b
          BY <2>8 DEF Different
        <5>3. \A n \in 0 .. Length - 1 : keys[n] \in Keys /\ Hits(R, keys[n]) >= tau1
          BY <2>8
        <5> QED
          BY <5>1, <5>2, <5>3
      <4>3. keys'[nkeys] = k /\ \A n \in 0 .. nkeys - 1 : keys'[n] = keys[n]
        BY <1>3, <1>7, <3>2 DEF TypeOK
      <4>4. tau1 # Saturation + 1 => \A n \in 0 .. nkeys - 1 : keys[n] # k
        BY <2>7, <3>2, <4>2
      <4>5. \A n \in 0 .. Length' - 1 : n = nkeys \/ n \in 0 .. nkeys - 1
        BY <1>7, <4>1
      <4>6. \A n \in 0 .. Length' - 1 : Hits(R, keys[n])' >= tau1
        <5>1. Hits(R, k)' >= tau1
          BY <2>5, <2>7, <3>2
        <5>2. \A n \in 0 .. nkeys - 1 : Hits(R, keys[n])' >= tau1
          <6>1. ASSUME NEW n \in 0 .. nkeys - 1
                PROVE  Hits(R, keys[n])' >= tau1
            <7>1. keys[n] \in Keys /\ Hits(R, keys[n]) >= tau1 /\ keys'[n] = keys[n]
              BY <4>2, <4>3
            <7>2. \A l \in Keys : l = keys'[n] /\ Hits(R, l) >= tau1 => Hits(R, keys[n])' >= tau1
              BY <2>9 DEF Hits, Counted
            <7> QED
              BY <7>1, <7>2
          <6> QED
            BY <6>1
        <5>3. \A n : keys'[n] = k => Hits(R, keys[n])' = Hits(R, k)'
          BY <3>2 DEF Hits, Counted, k
        <5> QED
          BY <4>3, <4>5, <5>1, <5>2, <5>3
      <4>7. Different(Length)'
        <5>1. ASSUME tau1 # Saturation + 1,
                     NEW a \in 0 .. Length' - 1, NEW b \in 0 .. Length' - 1, keys'[a] = keys'[b]
              PROVE  a = b
          BY <4>2, <4>3, <4>4, <4>5, <5>1
        <5> QED
          BY <5>1 DEF Different
      <4>8. ASSUME Complete', NEW l \in Keys, Hits(R, l)' >= tau1
            PROVE  \E n \in 0 .. Length' - 1 : keys'[n] = l
        <5>1. nkeys \in 0 .. Length' - 1 /\ \A n \in 0 .. nkeys - 1 : n \in 0 .. Length' - 1
          BY <1>7, <4>1
        <5>2. CASE l = k
          BY <4>3, <5>1, <5>2
        <5>3. CASE l # k
          <6>1. Complete /\ Hits(R, l) >= tau1
            BY <2>5, <2>10, <4>8, <5>3
          <6>2. \E n \in 0 .. nkeys - 1 : keys[n] = l
            BY <2>8, <4>1, <6>1
          <6> QED
            BY <4>3, <5>1, <6>2
        <5> QED
          BY <5>2, <5>3
      <4>9. ~(tau1 > Saturation + 1)
        BY <1>7, <2>7, <3>2
      <4> QED
        BY <4>6, <4>7, <4>8, <4>9
    <3>3. CASE /\ count[k] + 1 = tau1 /\ nkeys' = nkeys + 1 /\ nkeys >= MAX_KEYS
               /\ warn' = TRUE /\ UNCHANGED keys
      <4>1. Length' = Length /\ keys' = keys
        BY <1>7, <3>3, AtMostIs DEF Length
      <4>2. \A n \in 0 .. Length' - 1 : Hits(R, keys[n])' >= tau1
        BY <2>8, <2>9, <4>1
      <4>3. Different(Length)'
        BY <2>8, <4>1 DEF Different
      <4>4. ~Complete'
        BY <3>3 DEF Complete
      <4>5. ~(tau1 > Saturation + 1)
        BY <1>7, <2>7, <3>3
      <4> QED
        BY <4>2, <4>3, <4>4, <4>5
    <3> QED
      BY <1>2, <3>1, <3>2, <3>3 DEF k
  <2> QED
    BY <2>1, <2>2, <2>6, <2>11 DEF CountInv
<1>16. PlaceInv(R, I)'
  BY <1>1, <1>2 DEF Body, PlaceInv, Counting, Matching, Testing, Ahead
<1>17. ListInv(R, I, L)' /\ MatchInv(R, I)' /\ TestInv(R, I)' /\ EmitInv(R, I)'
  BY <1>2, <1>4, Owner DEF ListInv, MatchInv, TestInv, EmitInv, Counting, Matching, Testing
<1>18. Body(R, I, L)'
  BY <1>15, <1>16, <1>17 DEF Body
<1> QED
  BY <1>8, <1>11, <1>12, <1>14, <1>18 DEF IInv

\* The end of counting.
LEMMA EndCountStep ==
  ASSUME IInv, NEW t \in Threads, EndCount(t)
  PROVE  IInv'
<1>1. PICK R \in 0 .. Rounds, I \in -1 .. MAX_KEYS - 1, L \in 0 .. MAX_KEYS : Body(R, I, L)
  BY DEF IInv
<1>2. /\ pc[t] = "count" /\ todo[t] = {} /\ pc' = [pc EXCEPT ![t] = "sync count"]
      /\ UNCHANGED <<input, round, i, todo, count, keys, nkeys, matchp, nmatch, flag, warn, results>>
  BY DEF EndCount, Goto
<1>3. TypeOK /\ TodoOK /\ PhaseInv /\ ZeroInv /\ ResultInv /\ ReportsAreRight /\ ReportedOnce
  BY DEF IInv
<1>4. pc'[t] = "sync count" /\ \A u \in Threads : u # t => pc'[u] = pc[u]
  BY <1>2, <1>3 DEF TypeOK
<1>5. TypeOK' /\ TodoOK'
  BY <1>2, <1>3 DEF TypeOK, TodoOK, Labels, results
<1>6. PhaseInv'
  BY <1>2, <1>3, <1>4, PhaseKept DEF Counting, Matching, Testing, AmongKeys, Ahead
<1>7. \A u \in Threads : Counting(u) /\ Counting(u)'
  BY <1>2, <1>3, <1>4, Owner, Phases DEF Counting
<1>8. ZeroInv'
  BY <1>7, Owner DEF ZeroInv, Counting
<1>9. ResultInv' /\ ReportsAreRight' /\ ReportedOnce'
  BY <1>2, <1>3, <1>4, ResultStays DEF InLoop, Matching, Testing, AmongKeys
<1>10. PlaceInv(R, I)'
  BY <1>1, <1>2, <1>4, <1>7 DEF Body, PlaceInv, Counting, Matching, Testing, Ahead
<1>11. CountInv(R)'
  <2>1. CountInv(R) /\ Counting(0)
    BY <1>1, <1>7, Owner DEF Body
  <2>2. \A k : Counted(R, k)' = Counted(R, k)
    BY <1>2 DEF Counted
  <2>3. Length' = Length
    BY <1>2 DEF Length
  <2>4. \A u \in Threads : pc'[u] = "sync count" => todo'[u] = {}
    BY <1>2, <1>4, <2>1 DEF CountInv
  <2>5. Different(Length)' /\ (Complete' <=> Complete)
    BY <1>2, <2>1, <2>3 DEF CountInv, Different, Complete
  <2>6. \A k : Hits(R, k)' = Hits(R, k)
    BY <2>2 DEF Hits
  <2> QED
    <3>1. /\ \A n \in 0 .. Length - 1 : Hits(R, keys[n]) >= tau1
          /\ tau1 > Saturation + 1 => Length = 0
      BY <2>1 DEF CountInv
    <3>2. Complete =>
            \A k \in Keys : Hits(R, k) >= tau1 => \E n \in 0 .. Length - 1 : keys[n] = k
      BY <2>1 DEF CountInv
    <3>5. \A n : Hits(R, keys[n])' = Hits(R, keys[n])
      BY <1>2, <2>2 DEF Hits, Counted
    <3>3. \A u \in Threads : \A h \in todo[u] :
            /\ h \in Pairs \X Keys /\ h[1] % NumThreads = u
            /\ h[2] \in input.hits[R][h[1]]
      BY <2>1 DEF CountInv
    <3>4. \A k \in Keys : count[k] = AtMost(Hits(R, k), Saturation)
      BY <2>1 DEF CountInv
    <3>6. \A k \in Keys : count'[k] = AtMost(Hits(R, k)', Saturation)
      BY <1>2, <2>6, <3>4
    <3>7. /\ \A n \in 0 .. Length' - 1 : Hits(R, keys[n])' >= tau1
          /\ tau1 > Saturation + 1 => Length' = 0
      BY <2>3, <3>1, <3>5
    <3>8. Complete' =>
            \A k \in Keys : Hits(R, k)' >= tau1 => \E n \in 0 .. Length' - 1 : keys'[n] = k
      BY <1>2, <2>3, <2>5, <2>6, <3>2
    <3>9. \A u \in Threads : \A h \in todo'[u] :
            /\ h \in Pairs \X Keys /\ h[1] % NumThreads = u
            /\ h[2] \in input'.hits[R][h[1]]
      BY <1>2, <3>3
    <3> QED
      BY <2>4, <2>5, <3>6, <3>7, <3>8, <3>9 DEF CountInv
<1>12. ListInv(R, I, L)' /\ MatchInv(R, I)' /\ TestInv(R, I)' /\ EmitInv(R, I)'
  BY <1>7, Owner DEF ListInv, MatchInv, TestInv, EmitInv, Counting, Matching, Testing
<1>13. Body(R, I, L)'
  BY <1>10, <1>11, <1>12 DEF Body
<1> QED
  BY <1>5, <1>6, <1>8, <1>9, <1>13 DEF IInv

\* The next key of the list.
LEMMA NextKeyStep ==
  ASSUME IInv, NEW t \in Threads, NextKey(t)
  PROVE  IInv'
<1>1. PICK R \in 0 .. Rounds, I \in -1 .. MAX_KEYS - 1, L \in 0 .. MAX_KEYS : Body(R, I, L)
  BY DEF IInv
<1>2. /\ pc[t] = "keys" /\ i[t] < Length
      /\ nmatch' = IF t = 0 THEN 0 ELSE nmatch
      /\ pc' = [pc EXCEPT ![t] = "sync keys"]
      /\ UNCHANGED <<input, round, i, todo, count, keys, nkeys, matchp, flag, warn, results>>
  BY DEF NextKey, Goto, Length
<1>3. TypeOK /\ TodoOK /\ PhaseInv /\ ZeroInv /\ ResultInv /\ ReportsAreRight /\ ReportedOnce
  BY DEF IInv
<1>4. pc'[t] = "sync keys" /\ \A u \in Threads : u # t => pc'[u] = pc[u]
  BY <1>2, <1>3 DEF TypeOK
<1>5. TypeOK' /\ TodoOK'
  BY <1>2, <1>3 DEF TypeOK, TodoOK, Labels, results
<1>6. PhaseInv'
  BY <1>2, <1>3, <1>4, PhaseKept DEF Counting, Matching, Testing, AmongKeys, Ahead
<1>7. ~Counting(0)' /\ ~Matching(0)' /\ ~Testing(0)' /\ ~Counting(0)
  BY <1>2, <1>3, <1>4, Owner, Phases DEF Counting, Matching, Testing, AmongKeys, Ahead
<1>8. ZeroInv'
  BY <1>2, <1>3, <1>4, Owner DEF ZeroInv, Mine
<1>9. ResultInv' /\ ReportsAreRight' /\ ReportedOnce'
  BY <1>2, <1>3, <1>4, ResultStays DEF InLoop, Matching, Testing, AmongKeys
<1>10. PlaceInv(R, I)'
  BY <1>1, <1>2, <1>4 DEF Body, PlaceInv, Counting, Matching, Testing, Ahead
<1>11. i[t] = I + 1 /\ R >= 1
  <2>1. PlaceInv(R, I)
    BY <1>1 DEF Body
  <2>2. round[t] = R /\ round[t] \in 1 .. Rounds + 1 /\ i[t] = I + 1
    BY <1>2, <1>3, <2>1 DEF TypeOK, PlaceInv
  <2> QED
    BY <2>2, Positive
<1>12. Length = L /\ I + 1 < L
  <2>1. pc[0] # "sync zero"
    <3>1. CASE nkeys = 0
      <4>1. Length = 0
        BY <3>1, AtMostIs, Positive DEF Length
      <4>2. ~(i[t] < 0)
        BY <1>3, Positive DEF TypeOK
      <4> QED
        BY <1>2, <4>1, <4>2
    <3>2. CASE nkeys # 0
      BY <1>3, <3>2 DEF ZeroInv
    <3> QED
      BY <3>1, <3>2
  <2> QED
    BY <1>1, <1>2, <1>7, <1>11, <2>1 DEF Body, ListInv
<1>13. ListInv(R, I, L)'
  <2>1. /\ I < L
        /\ pc'[0] # "sync zero" => Length' = L
        /\ \A u \in Threads : Ahead(u)' => I + 1 = L
        /\ \A u \in Threads : pc'[u] = "sync keys" => I + 1 < L
    <3>1. Length' = L
      BY <1>2, <1>12 DEF Length
    <3>2. \A u \in Threads : Ahead(u)' => Ahead(u)
      BY <1>2, <1>4 DEF Ahead
    <3> QED
      BY <1>1, <1>7, <1>11, <1>12, <3>1, <3>2 DEF Body, ListInv
  <2> QED
    BY <1>1, <1>2, <1>7, <2>1, ListKept DEF Body
<1>14. EmitInv(R, I)'
  <2>1. ASSUME NEW u \in Threads, pc'[u] = "emit"
        PROVE  /\ pc[u] = "emit" /\ todo'[u] \subseteq todo[u]
               /\ \A m \in Mine(u, Middle) : count'[m] = count[m]
    BY <1>2, <1>4, <2>1
  <2> QED
    BY <1>1, <1>2, <2>1, EmitKept DEF Body
<1>15. CountInv(R)' /\ MatchInv(R, I)' /\ TestInv(R, I)'
  BY <1>7 DEF CountInv, MatchInv, TestInv
<1>16. Body(R, I, L)'
  BY <1>10, <1>13, <1>14, <1>15 DEF Body
<1> QED
  BY <1>5, <1>6, <1>8, <1>9, <1>16 DEF IInv

\* The end of the list: the thread goes ahead.
LEMMA NextRoundStep ==
  ASSUME IInv, NEW t \in Threads, NextRound(t)
  PROVE  IInv'
<1>1. PICK R \in 0 .. Rounds, I \in -1 .. MAX_KEYS - 1, L \in 0 .. MAX_KEYS : Body(R, I, L)
  BY DEF IInv
<1>2. /\ pc[t] = "keys" /\ i[t] >= Length
      /\ round' = [round EXCEPT ![t] = @ + 1]
      /\ pc' = [pc EXCEPT ![t] = IF round[t] < Rounds THEN "zero" ELSE "exit"]
      /\ UNCHANGED <<input, i, todo, count, keys, nkeys, matchp, nmatch, flag, warn, results>>
  BY DEF NextRound, Goto, Length
<1>3. TypeOK /\ TodoOK /\ PhaseInv /\ ZeroInv /\ ResultInv /\ ReportsAreRight /\ ReportedOnce
  BY DEF IInv
<1>4. /\ pc'[t] = (IF round[t] < Rounds THEN "zero" ELSE "exit")
      /\ pc'[t] \in {"zero", "exit"}
      /\ \A u \in Threads : u # t => pc'[u] = pc[u]
      /\ round'[t] = round[t] + 1
      /\ \A u \in Threads : u # t => round'[u] = round[u]
  BY <1>2, <1>3 DEF TypeOK
<1>5. PlaceInv(R, I) /\ ListInv(R, I, L) /\ EmitInv(R, I)
  BY <1>1 DEF Body
<1>6. round[t] = R /\ i[t] = I + 1 /\ R >= 1 /\ R \in 1 .. Rounds
  <2>1. round[t] = R /\ round[t] \in 1 .. Rounds + 1 /\ i[t] = I + 1
    BY <1>2, <1>3, <1>5 DEF TypeOK, PlaceInv
  <2> QED
    BY <2>1, Positive
<1>7. TypeOK' /\ TodoOK'
  <2>1. round' \in [Threads -> 1 .. Rounds + 1]
    <3>1. round \in [Threads -> 1 .. Rounds + 1] /\ round' = [round EXCEPT ![t] = @ + 1]
      BY <1>2, <1>3 DEF TypeOK
    <3>2. round[t] + 1 \in 1 .. Rounds + 1
      BY <1>6, Positive
    <3> QED
      BY <3>1, <3>2
  <2>2. pc' \in [Threads -> Labels]
    BY <1>2, <1>3 DEF TypeOK, Labels
  <2> QED
    BY <1>2, <1>3, <2>1, <2>2 DEF TypeOK, TodoOK, results
<1>8. PhaseInv'
  BY <1>2, <1>3, <1>4, PhaseKept DEF Counting, Matching, Testing, AmongKeys, Ahead
<1>9. ~Counting(0)' /\ ~Matching(0)' /\ ~Testing(0)' /\ ~Counting(0)
  BY <1>2, <1>3, <1>4, Owner, Phases DEF Counting, Matching, Testing, AmongKeys, Ahead
<1>10. ZeroInv'
  BY <1>2, <1>3, <1>4, Owner DEF ZeroInv, Mine
<1>11. pc[0] = "sync zero" \/ Length = L
  BY <1>5, <1>6, <1>9 DEF ListInv
<1>12. I + 1 = L
  <2>1. CASE pc[0] = "sync zero"
    BY <1>5, <1>6, <1>9, <2>1, Owner DEF ListInv, Ahead
  <2>2. CASE Length = L
    <3>1. I < L
      BY <1>5, <1>6, <1>9 DEF ListInv
    <3> QED
      BY <1>2, <1>6, <2>2, <3>1
  <2> QED
    BY <1>11, <2>1, <2>2
<1>13. ResultInv' /\ ReportsAreRight' /\ ReportedOnce'
  <2>1. ASSUME NEW u \in Threads, NEW r \in 1 .. Rounds, NEW k \in Keys, NEW m \in Middle
        PROVE  /\ Past(u, r, k, m) => Past(u, r, k, m)'
               /\ Complete /\ Past(u, r, k, m)' /\ Due(r, k, m) => Past(u, r, k, m)
    <3>1. CASE u # t
      <4>1. /\ round'[u] = round[u] /\ i'[u] = i[u] /\ keys' = keys
            /\ InLoop(u)' = InLoop(u) /\ pc'[u] = pc[u] /\ todo'[u] = todo[u]
        BY <1>2, <1>4, <3>1 DEF InLoop, Matching, Testing, AmongKeys
      <4> QED
        BY <4>1 DEF Past
    <3>2. CASE u = t
      <4>1. Past(t, r, k, m) => r < R \/ r = R
        BY <1>6 DEF Past
      <4>2. Past(t, r, k, m)' <=> r < R + 1
        <5>1. ~InLoop(t)'
          BY <1>4 DEF InLoop, Matching, Testing, AmongKeys
        <5> QED
          BY <1>4, <1>6, <5>1 DEF Past
      <4>3. ASSUME Complete, r = R, Due(r, k, m)
            PROVE  Past(t, r, k, m)
        <5>1. PICK n \in 0 .. L - 1 : keys[n] = k
          BY <1>5, <1>6, <1>9, <4>3 DEF ListInv, Due
        <5>2. n \in 0 .. MAX_KEYS - 1 /\ n < i[t]
          BY <1>6, <1>12, <5>1, Positive
        <5>3. InLoop(t)
          BY <1>2 DEF InLoop, AmongKeys
        <5> QED
          BY <1>6, <4>3, <5>1, <5>2, <5>3 DEF Past
      <4>4. r < R => Past(t, r, k, m)
        BY <1>6 DEF Past
      <4>5. r < R + 1 <=> r < R \/ r = R
        BY <1>6
      <4> QED
        BY <3>2, <4>1, <4>2, <4>3, <4>4, <4>5
    <3> QED
      BY <3>1, <3>2
  <2>2. ResultInv'
    BY <1>2, <1>3, <2>1, ResultKept
  <2> QED
    BY <1>2, <1>3, <2>2, ResultsKept
<1>14. PlaceInv(R, I)'
  <2>1. /\ round'[t] = R + 1 /\ i'[t] = I + 1
        /\ pc'[t] = "zero" => R < Rounds
        /\ pc'[t] = "exit" => R = Rounds
    BY <1>2, <1>4, <1>6, Positive
  <2> QED
    BY <1>2, <1>4, <1>5, <2>1 DEF PlaceInv, Counting, Matching, Testing, Ahead
<1>15. ListInv(R, I, L)'
  <2>1. /\ I < L
        /\ pc'[0] # "sync zero" => Length' = L
        /\ \A u \in Threads : Ahead(u)' => I + 1 = L
        /\ \A u \in Threads : pc'[u] = "sync keys" => I + 1 < L
    <3>1. pc'[0] # "sync zero" => pc[0] # "sync zero"
      BY <1>2, <1>4, Owner
    <3>2. Length' = Length
      BY <1>2 DEF Length
    <3>3. \A u \in Threads : pc'[u] = "sync keys" => pc[u] = "sync keys"
      BY <1>4
    <3> QED
      BY <1>5, <1>6, <1>9, <1>11, <1>12, <3>1, <3>2, <3>3 DEF ListInv
  <2> QED
    BY <1>2, <1>5, <1>9, <2>1, ListKept
<1>16. EmitInv(R, I)'
  <2>1. ASSUME NEW u \in Threads, pc'[u] = "emit"
        PROVE  /\ pc[u] = "emit" /\ todo'[u] \subseteq todo[u]
               /\ \A m \in Mine(u, Middle) : count'[m] = count[m]
    BY <1>2, <1>4, <2>1
  <2> QED
    BY <1>2, <1>5, <2>1, EmitKept
<1>17. CountInv(R)' /\ MatchInv(R, I)' /\ TestInv(R, I)'
  BY <1>9 DEF CountInv, MatchInv, TestInv
<1>18. Body(R, I, L)'
  BY <1>14, <1>15, <1>16, <1>17 DEF Body
<1> QED
  BY <1>7, <1>8, <1>10, <1>13, <1>18 DEF IInv

\* The round and the key that the threads in a phase are at.
LEMMA Place ==
  ASSUME TypeOK, PhaseInv, NEW R \in 0 .. Rounds, NEW I \in -1 .. MAX_KEYS - 1, PlaceInv(R, I),
         NEW t \in Threads, Matching(t) \/ Testing(t) \/ pc[t] = "emit"
  PROVE  /\ R \in 1 .. Rounds /\ round[t] = R
         /\ I \in 0 .. MAX_KEYS - 1 /\ i[t] = I
         /\ keys[I] \in Keys
         /\ input.match[R][keys[I]] \subseteq Pairs
         /\ \A p \in Pairs : input.middle[R][keys[I]][p] \subseteq Middle
<1>1. round[t] = R /\ i[t] = I /\ I >= 0
  BY DEF PlaceInv
<1>2. round[t] \in 1 .. Rounds + 1
  BY DEF TypeOK
<1>3. R \in 1 .. Rounds /\ I \in 0 .. MAX_KEYS - 1
  BY <1>1, <1>2, Positive
<1>4. keys[I] \in Keys
  BY <1>3 DEF TypeOK
<1> QED
  BY <1>1, <1>3, <1>4, InputType DEF TypeOK

\* A pair that matches the key.
LEMMA MatchStep ==
  ASSUME IInv, NEW t \in Threads, Match(t)
  PROVE  IInv'
<1>1. PICK R \in 0 .. Rounds, I \in -1 .. MAX_KEYS - 1, L \in 0 .. MAX_KEYS : Body(R, I, L)
  BY DEF IInv
<1>2. PICK p \in todo[t] :
        /\ pc[t] = "match"
        /\ todo' = [todo EXCEPT ![t] = @ \ {p}]
        /\ nmatch' = nmatch + 1
        /\ \/ nmatch < MAX_MATCHES /\ matchp' = [matchp EXCEPT ![nmatch] = p] /\ UNCHANGED warn
           \/ nmatch >= MAX_MATCHES /\ warn' = TRUE /\ UNCHANGED matchp
        /\ UNCHANGED <<input, pc, round, i, count, keys, nkeys, flag, results>>
  BY DEF Match
<1>3. TypeOK /\ TodoOK /\ PhaseInv /\ ZeroInv /\ ResultInv /\ ReportsAreRight /\ ReportedOnce
  BY DEF IInv
<1>4. \A u \in Threads : Matching(u) /\ pc'[u] = pc[u]
  BY <1>2, <1>3, Owner, Phases DEF Matching
<1>5. PlaceInv(R, I) /\ MatchInv(R, I) /\ ListInv(R, I, L) /\ Matching(0)
  BY <1>1, <1>4, Owner DEF Body
<1> DEFINE K == keys[I]
           S == input.match[R][K]
<1>6. R \in 1 .. Rounds /\ I \in 0 .. MAX_KEYS - 1 /\ K \in Keys /\ S \subseteq Pairs
  BY <1>3, <1>4, <1>5, Place
<1>7. /\ \A u \in Threads : todo[u] \subseteq Mine(u, S)
      /\ \A u \in Threads : pc[u] = "sync match" =>
           todo[u] = {} /\ \A m \in Mine(u, Middle) : count[m] = 0
      /\ ListsMatches(Matched(R, K))
  BY <1>5 DEF MatchInv
<1>8. p \in S /\ p \in Pairs /\ p % NumThreads = t
  BY <1>2, <1>6, <1>7 DEF Mine
<1>9. nmatch \in Nat /\ MAX_MATCHES \in Nat
  BY <1>3, Positive DEF TypeOK
<1>10. TypeOK' /\ TodoOK'
  <2>1. matchp' \in [0 .. MAX_MATCHES - 1 -> Pairs]
    BY <1>2, <1>3, <1>8 DEF TypeOK
  <2>2. warn' \in BOOLEAN
    BY <1>2, <1>3, Zenon DEF TypeOK
  <2>3. nmatch' \in Nat
    BY <1>2, <1>9
  <2> QED
    BY <1>2, <1>3, <2>1, <2>2, <2>3 DEF TypeOK, TodoOK, results
<1>11. todo'[t] = todo[t] \ {p} /\ \A u \in Threads : u # t => todo'[u] = todo[u]
  BY <1>2, <1>3 DEF TodoOK
<1>12. PhaseInv'
  BY <1>2, <1>3, PhaseKept DEF Counting, Matching, Testing, AmongKeys, Ahead
<1>13. ~warn' => ~warn
  BY <1>2, <1>3 DEF TypeOK
<1>14. ZeroInv'
  <2>1. \A u \in Threads : pc'[u] # "sync zero" /\ pc'[u] # "sync keys"
    BY <1>4 DEF Matching
  <2>2. pc'[0] = "sync match" => ~flag'
    BY <1>2, <1>3 DEF ZeroInv
  <2> QED
    BY <2>1, <2>2, Owner DEF ZeroInv
<1>15. ResultInv' /\ ReportsAreRight' /\ ReportedOnce'
  BY <1>2, <1>3, <1>4, <1>13, ResultStays DEF InLoop, Matching, Testing, AmongKeys
<1>16. PlaceInv(R, I)'
  BY <1>2, <1>5 DEF PlaceInv, Counting, Matching, Testing, Ahead
<1>17. ListInv(R, I, L)'
  <2>1. ~Counting(0) /\ Counting(0)' = Counting(0)
    BY <1>2, <1>4, Owner DEF Counting, Matching
  <2>2. Length' = Length
    BY <1>2 DEF Length
  <2>3. \A u \in Threads : Ahead(u)' => Ahead(u)
    BY <1>2 DEF Ahead
  <2>4. /\ I < L
        /\ pc'[0] # "sync zero" => Length' = L
        /\ \A u \in Threads : Ahead(u)' => I + 1 = L
        /\ \A u \in Threads : pc'[u] = "sync keys" => I + 1 < L
    <3>1. /\ I < L
          /\ pc[0] # "sync zero" => Length = L
          /\ \A u \in Threads : Ahead(u) => I + 1 = L
          /\ \A u \in Threads : pc[u] = "sync keys" => I + 1 < L
      BY <1>5, <1>6, <2>1, ListPlaces
    <3> QED
      BY <1>2, <2>2, <2>3, <3>1
  <2> QED
    BY <1>2, <1>5, <1>13, <2>1, <2>4, ListKept
<1>18. MatchInv(R, I)'
  <2>1. \A u \in Threads : todo'[u] \subseteq Mine(u, S')
    BY <1>2, <1>7, <1>11
  <2>2. \A u \in Threads : pc'[u] = "sync match" =>
          todo'[u] = {} /\ \A m \in Mine(u, Middle) : count'[m] = 0
    BY <1>2, <1>4, <1>7, <1>11
  <2>3. Matched(R, K)' = Matched(R, K) \cup {p} /\ p \notin Matched(R, K)
    <3>1. ASSUME NEW q \in S, q # p
          PROVE  q \in todo'[q % NumThreads] <=> q \in todo[q % NumThreads]
      <4>1. q % NumThreads \in Threads
        BY <1>6, Owner, Positive DEF Pairs
      <4> QED
        BY <1>11, <3>1, <4>1
    <3>2. p \notin todo'[p % NumThreads] /\ p \in todo[p % NumThreads]
      BY <1>2, <1>8, <1>11
    <3> QED
      BY <1>2, <1>8, <3>1, <3>2 DEF Matched
  <2> HIDE DEF K, S
  <2>4. NumMatches \in 0 .. MAX_MATCHES
    BY <1>9, AtMostIs DEF NumMatches
  <2>5. /\ \A j \in 0 .. NumMatches - 1 : matchp[j] \in Matched(R, K)
        /\ \A a, b \in 0 .. NumMatches - 1 : matchp[a] = matchp[b] => a = b
        /\ ~warn => \A q \in Matched(R, K) : \E j \in 0 .. NumMatches - 1 : matchp[j] = q
    BY <1>7 DEF ListsMatches, IsInjectiveUpTo
  <2>6. /\ \A j \in 0 .. NumMatches' - 1 : matchp'[j] \in Matched(R, K) \cup {p}
        /\ \A a, b \in 0 .. NumMatches' - 1 : matchp'[a] = matchp'[b] => a = b
        /\ ~warn' => \A q \in Matched(R, K) \cup {p} :
                       \E j \in 0 .. NumMatches' - 1 : matchp'[j] = q
    <3>1. CASE nmatch < MAX_MATCHES /\ matchp' = [matchp EXCEPT ![nmatch] = p] /\ UNCHANGED warn
      <4>1. NumMatches = nmatch /\ NumMatches' = nmatch + 1
        BY <1>2, <1>9, <3>1, AtMostIs DEF NumMatches
      <4>2. matchp'[nmatch] = p /\ \A j \in 0 .. nmatch - 1 : matchp'[j] = matchp[j]
        BY <1>3, <1>9, <3>1 DEF TypeOK
      <4>3. /\ \A j \in 0 .. NumMatches' - 1 : j = nmatch \/ j \in 0 .. NumMatches - 1
            /\ nmatch \in 0 .. NumMatches' - 1
            /\ \A j \in 0 .. NumMatches - 1 : j \in 0 .. NumMatches' - 1 /\ j \in 0 .. nmatch - 1
        BY <1>9, <4>1
      <4>4. \A j \in 0 .. NumMatches - 1 : matchp'[j] \in Matched(R, K) /\ matchp'[j] # p
        BY <2>3, <2>5, <4>2, <4>3
      <4>5. \A j \in 0 .. NumMatches' - 1 : matchp'[j] \in Matched(R, K) \cup {p}
        BY <4>2, <4>3, <4>4
      <4>6. \A a, b \in 0 .. NumMatches' - 1 : matchp'[a] = matchp'[b] => a = b
        BY <2>5, <4>2, <4>3, <4>4
      <4>7. ASSUME ~warn', NEW q \in Matched(R, K) \cup {p}
            PROVE  \E j \in 0 .. NumMatches' - 1 : matchp'[j] = q
        <5>1. CASE q = p
          BY <4>2, <4>3, <5>1
        <5>2. CASE q # p
          <6>1. PICK j \in 0 .. NumMatches - 1 : matchp[j] = q
            BY <1>13, <2>5, <4>7, <5>2
          <6> QED
            BY <4>2, <4>3, <6>1
        <5> QED
          BY <5>1, <5>2
      <4> QED
        BY <4>5, <4>6, <4>7
    <3>2. CASE nmatch >= MAX_MATCHES /\ warn' = TRUE /\ UNCHANGED matchp
      <4>1. NumMatches' = NumMatches
        BY <1>2, <1>9, <3>2, AtMostIs DEF NumMatches
      <4> QED
        BY <2>5, <3>2, <4>1
    <3> QED
      BY <1>2, <3>1, <3>2
  <2>7. ListsMatches(Matched(R, K))'
    <3>1. IsInjectiveUpTo(matchp, NumMatches)'
      BY <2>6 DEF IsInjectiveUpTo
    <3> QED
      BY <2>3, <2>6, <3>1 DEF ListsMatches
  <2> QED
    BY <2>1, <2>2, <2>7 DEF MatchInv, K, S
<1>19. CountInv(R)' /\ TestInv(R, I)' /\ EmitInv(R, I)'
  BY <1>2, <1>4, Owner DEF CountInv, TestInv, EmitInv, Counting, Matching, Testing
<1>20. Body(R, I, L)'
  BY <1>16, <1>17, <1>18, <1>19 DEF Body
<1> QED
  BY <1>10, <1>12, <1>14, <1>15, <1>20 DEF IInv

\* The end of matching: the counters are cleared for the middle bytes.
LEMMA EndMatchStep ==
  ASSUME IInv, NEW t \in Threads, EndMatch(t)
  PROVE  IInv'
<1>1. PICK R \in 0 .. Rounds, I \in -1 .. MAX_KEYS - 1, L \in 0 .. MAX_KEYS : Body(R, I, L)
  BY DEF IInv
<1>2. /\ pc[t] = "match" /\ todo[t] = {}
      /\ count' = [w \in Words |-> IF w \in Mine(t, Middle) THEN 0 ELSE count[w]]
      /\ flag' = IF t = 0 THEN FALSE ELSE flag
      /\ pc' = [pc EXCEPT ![t] = "sync match"]
      /\ UNCHANGED <<input, round, i, todo, keys, nkeys, matchp, nmatch, warn, results>>
  BY DEF EndMatch, Goto
<1>3. TypeOK /\ TodoOK /\ PhaseInv /\ ZeroInv /\ ResultInv /\ ReportsAreRight /\ ReportedOnce
  BY DEF IInv
<1>4. pc'[t] = "sync match" /\ \A u \in Threads : u # t => pc'[u] = pc[u]
  BY <1>2, <1>3 DEF TypeOK
<1>5. \A u \in Threads : Matching(u) /\ Matching(u)'
  BY <1>2, <1>3, <1>4, Owner, Phases DEF Matching
<1>6. PlaceInv(R, I) /\ MatchInv(R, I) /\ ListInv(R, I, L) /\ Matching(0)
  BY <1>1, <1>5, Owner DEF Body
<1>7. R \in 1 .. Rounds
  BY <1>3, <1>5, <1>6, Owner, Place
<1>8. TypeOK' /\ TodoOK'
  <2>1. count' \in [Words -> Nat] /\ pc' \in [Threads -> Labels]
    BY <1>2, <1>3 DEF TypeOK, Labels
  <2>2. flag' \in BOOLEAN
    BY <1>2, <1>3, Zenon DEF TypeOK
  <2> QED
    BY <1>2, <1>3, <2>1, <2>2 DEF TypeOK, TodoOK, results
<1>9. PhaseInv'
  BY <1>2, <1>3, <1>4, PhaseKept DEF Counting, Matching, Testing, AmongKeys, Ahead
<1>10. ZeroInv'
  <2>1. \A u \in Threads : pc'[u] # "sync zero" /\ pc'[u] # "sync keys"
    BY <1>5 DEF Matching
  <2>2. pc'[0] = "sync match" => ~flag'
    BY <1>2, <1>3, <1>4, Owner DEF ZeroInv
  <2> QED
    BY <2>1, <2>2, Owner DEF ZeroInv
<1>11. ResultInv' /\ ReportsAreRight' /\ ReportedOnce'
  BY <1>2, <1>3, <1>4, ResultStays DEF InLoop, Matching, Testing, AmongKeys
<1>12. PlaceInv(R, I)'
  BY <1>2, <1>4, <1>6 DEF PlaceInv, Counting, Matching, Testing, Ahead
<1>13. ListInv(R, I, L)'
  <2>1. ~Counting(0)
    BY <1>5, Owner DEF Counting, Matching
  <2>2. Length' = Length
    BY <1>2 DEF Length
  <2>3. \A u \in Threads : ~Ahead(u)' /\ pc'[u] # "sync keys"
    BY <1>5 DEF Ahead, Matching
  <2>4. I < L /\ pc[0] # "sync zero" /\ (pc[0] # "sync zero" => Length = L)
    BY <1>6, <1>7, <2>1, ListPlaces DEF Matching
  <2> QED
    BY <1>2, <1>6, <2>1, <2>2, <2>3, <2>4, ListKept
<1>14. MatchInv(R, I)'
  <2>1. /\ \A u \in Threads : todo[u] \subseteq Mine(u, input.match[R][keys[I]])
        /\ \A u \in Threads : pc[u] = "sync match" =>
             todo[u] = {} /\ \A m \in Mine(u, Middle) : count[m] = 0
        /\ ListsMatches(Matched(R, keys[I]))
    BY <1>6 DEF MatchInv
  <2>2. ASSUME NEW u \in Threads, pc'[u] = "sync match"
        PROVE  todo'[u] = {} /\ \A m \in Mine(u, Middle) : count'[m] = 0
    <3>1. \A m \in Middle : m \in Words
      BY DEF Words
    <3> QED
      BY <1>2, <1>4, <2>1, <2>2, <3>1 DEF Mine
  <2>3. Matched(R, keys[I])' = Matched(R, keys[I]) /\ NumMatches' = NumMatches
    BY <1>2 DEF Matched, NumMatches
  <2>4. IsInjectiveUpTo(matchp, NumMatches)'
    BY <1>2, <2>1, <2>3 DEF ListsMatches, IsInjectiveUpTo
  <2>5. ListsMatches(Matched(R, keys[I]))'
    BY <1>2, <2>1, <2>3, <2>4 DEF ListsMatches
  <2> QED
    BY <1>2, <2>1, <2>2, <2>5 DEF MatchInv
<1>15. CountInv(R)' /\ TestInv(R, I)' /\ EmitInv(R, I)'
  BY <1>5, Owner DEF CountInv, TestInv, EmitInv, Counting, Matching, Testing
<1>16. Body(R, I, L)'
  BY <1>12, <1>13, <1>14, <1>15 DEF Body
<1> QED
  BY <1>8, <1>9, <1>10, <1>11, <1>16 DEF IInv

\* A middle byte of a match.
LEMMA TestStep ==
  ASSUME IInv, NEW t \in Threads, Test(t)
  PROVE  IInv'
<1>1. PICK R \in 0 .. Rounds, I \in -1 .. MAX_KEYS - 1, L \in 0 .. MAX_KEYS : Body(R, I, L)
  BY DEF IInv
<1>2. PICK h \in todo[t] :
        /\ pc[t] = "test"
        /\ todo' = [todo EXCEPT ![t] = @ \ {h}]
        /\ count' = [count EXCEPT ![h[2]] = @ + 1]
        /\ flag' = (flag \/ count[h[2]] = tau2)
        /\ UNCHANGED <<input, pc, round, i, keys, nkeys, matchp, nmatch, warn, results>>
  BY DEF Test
<1>3. TypeOK /\ TodoOK /\ PhaseInv /\ ZeroInv /\ ResultInv /\ ReportsAreRight /\ ReportedOnce
  BY DEF IInv
<1>4. \A u \in Threads : Testing(u) /\ pc'[u] = pc[u]
  BY <1>2, <1>3, Owner, Phases DEF Testing
<1>5. PlaceInv(R, I) /\ TestInv(R, I) /\ ListInv(R, I, L) /\ Testing(0)
  BY <1>1, <1>4, Owner DEF Body
<1> DEFINE K == keys[I]
           j == h[1]
           m == h[2]
<1>6. R \in 1 .. Rounds /\ I \in 0 .. MAX_KEYS - 1
  BY <1>3, <1>4, <1>5, Place
<1>7. /\ ListsMatches(input.match[R][K])
      /\ \A u \in Threads : \A g \in todo[u] :
           /\ g \in (0 .. NumMatches - 1) \X Middle /\ g[1] % NumThreads = u
           /\ g[1] \in Suggesting(R, K, g[2])
      /\ \A u \in Threads : pc[u] = "sync test" => todo[u] = {}
      /\ \A n \in Middle : count[n] = Cardinality(Tested(R, K, n))
      /\ flag = (\E n \in Middle : count[n] > tau2)
  BY <1>5 DEF TestInv
<1>8. /\ h = <<j, m>> /\ j \in 0 .. NumMatches - 1 /\ m \in Middle /\ j % NumThreads = t
      /\ j \in Suggesting(R, K, m)
  <2>1. /\ h \in (0 .. NumMatches - 1) \X Middle /\ h[1] % NumThreads = t
        /\ h[1] \in Suggesting(R, K, h[2])
    BY <1>2, <1>7, Zenon
  <2> QED
    BY <2>1
<1> HIDE DEF K, j, m
<1>9. count' = [count EXCEPT ![m] = @ + 1] /\ flag' = (flag \/ count[m] = tau2)
  BY <1>2 DEF m
<1>10. /\ count'[m] = count[m] + 1 /\ count[m] \in Nat
       /\ \A n \in Middle : n # m => count'[n] = count[n]
       /\ \A n \in Middle : count[n] \in Nat
  BY <1>3, <1>8, <1>9 DEF TypeOK, Words
<1>11. TypeOK' /\ TodoOK'
  <2>1. count' \in [Words -> Nat]
    BY <1>3, <1>9, <1>10 DEF TypeOK
  <2>2. flag' \in BOOLEAN
    BY <1>3, <1>9, Zenon DEF TypeOK
  <2> QED
    BY <1>2, <1>3, <2>1, <2>2 DEF TypeOK, TodoOK, results
<1>12. todo'[t] = todo[t] \ {h} /\ \A u \in Threads : u # t => todo'[u] = todo[u]
  BY <1>2, <1>3 DEF TodoOK
<1>13. PhaseInv'
  BY <1>2, <1>3, PhaseKept DEF Counting, Matching, Testing, AmongKeys, Ahead
<1>14. ZeroInv'
  BY <1>4, Owner DEF ZeroInv, Testing
<1>15. ResultInv' /\ ReportsAreRight' /\ ReportedOnce'
  BY <1>2, <1>3, <1>4, ResultStays DEF InLoop, Matching, Testing, AmongKeys
<1>16. PlaceInv(R, I)'
  BY <1>2, <1>5 DEF PlaceInv, Counting, Matching, Testing, Ahead
<1>17. ListInv(R, I, L)'
  <2>1. ~Counting(0)
    BY <1>2, <1>4, Owner DEF Counting, Testing
  <2>2. Length' = Length
    BY <1>2 DEF Length
  <2>3. \A u \in Threads : ~Ahead(u)' /\ pc'[u] # "sync keys"
    BY <1>4 DEF Ahead, Testing
  <2>4. I < L /\ pc[0] # "sync zero" /\ (pc[0] # "sync zero" => Length = L)
    BY <1>5, <1>6, <2>1, ListPlaces DEF Testing
  <2> QED
    BY <1>2, <1>5, <2>1, <2>2, <2>3, <2>4, ListKept
<1>18. TestInv(R, I)'
  <2>1. /\ NumMatches' = NumMatches /\ K' = K
        /\ \A n : Suggesting(R, K, n)' = Suggesting(R, K, n)
    BY <1>2 DEF NumMatches, Suggesting, K
  <2>2. ListsMatches(input.match[R][K])'
    <3>1. IsInjectiveUpTo(matchp, NumMatches)'
      BY <1>2, <1>7, <2>1 DEF ListsMatches, IsInjectiveUpTo
    <3> QED
      BY <1>2, <1>7, <2>1, <3>1 DEF ListsMatches
  <2>3. \A u \in Threads : \A g \in todo'[u] :
           /\ g \in (0 .. NumMatches' - 1) \X Middle /\ g[1] % NumThreads = u
           /\ g[1] \in Suggesting(R, K, g[2])'
    <3>1. \A u \in Threads : todo'[u] \subseteq todo[u]
      BY <1>12
    <3>2. ASSUME NEW u \in Threads, NEW g \in todo'[u]
          PROVE  /\ g \in (0 .. NumMatches - 1) \X Middle /\ g[1] % NumThreads = u
                 /\ g[1] \in Suggesting(R, K, g[2])
      BY <1>7, <3>1, Zenon
    <3> QED
      BY <2>1, <3>2
  <2>4. \A u \in Threads : pc'[u] = "sync test" => todo'[u] = {}
    BY <1>4, <1>7, <1>12
  <2>5. /\ Tested(R, K, m)' = Tested(R, K, m) \cup {j} /\ j \notin Tested(R, K, m)
    <3>1. j \notin Tested(R, K, m)
      BY <1>2, <1>8 DEF Tested
    <3>2. ASSUME NEW q \in Suggesting(R, K, m), q # j
          PROVE  <<q, m>> \in todo'[q % NumThreads] <=> <<q, m>> \in todo[q % NumThreads]
      <4>1. q % NumThreads \in Threads
        BY Owner DEF Suggesting
      <4> QED
        BY <1>8, <1>12, <3>2, <4>1
    <3>3. <<j, m>> \notin todo'[j % NumThreads]
      BY <1>8, <1>12
    <3> QED
      BY <1>8, <2>1, <3>1, <3>2, <3>3 DEF Tested
  <2>6. \A n \in Middle : n # m => Tested(R, K, n)' = Tested(R, K, n)
    <3>1. ASSUME NEW n \in Middle, n # m, NEW q \in Suggesting(R, K, n)
          PROVE  <<q, n>> \in todo'[q % NumThreads] <=> <<q, n>> \in todo[q % NumThreads]
      <4>1. q % NumThreads \in Threads
        BY Owner DEF Suggesting
      <4> QED
        BY <1>8, <1>12, <3>1, <4>1
    <3> QED
      BY <2>1, <3>1 DEF Tested
  <2>7. \A n \in Middle : count'[n] = Cardinality(Tested(R, K, n)')
    <3>1. IsFiniteSet(Tested(R, K, m))
      <4>1. NumMatches \in Nat
        <5>1. nmatch \in Nat /\ MAX_MATCHES \in Nat
          BY <1>3, Positive DEF TypeOK
        <5>2. NumMatches \in 0 .. MAX_MATCHES
          BY <5>1, AtMostIs DEF NumMatches
        <5> QED
          BY <5>1, <5>2
      <4>2. Tested(R, K, m) \subseteq 0 .. NumMatches - 1 /\ 0 .. NumMatches - 1 \subseteq Nat
        BY <4>1 DEF Tested, Suggesting
      <4> QED
        BY <4>1, <4>2, Finite
    <3>2. Cardinality(Tested(R, K, m)') = Cardinality(Tested(R, K, m)) + 1
      BY <2>5, <3>1, OneMore
    <3> QED
      BY <1>7, <1>8, <1>10, <2>6, <3>2
  <2>8. flag' = (\E n \in Middle : count'[n] > tau2)
    <3>1. (\E n \in Middle : count'[n] > tau2) <=>
            (\E n \in Middle : count[n] > tau2) \/ count[m] = tau2
      BY <1>8, <1>10, Positive
    <3>2. flag <=> \E n \in Middle : count[n] > tau2
      BY <1>7
    <3>3. flag' <=> flag \/ count[m] = tau2
      BY <1>9
    <3>4. flag' \in BOOLEAN
      BY <1>11 DEF TypeOK
    <3> QED
      BY <3>1, <3>2, <3>3, <3>4, Zenon
  <2> QED
    BY <1>2, <2>2, <2>3, <2>4, <2>7, <2>8 DEF TestInv, K
<1>19. CountInv(R)' /\ MatchInv(R, I)' /\ EmitInv(R, I)'
  BY <1>2, <1>4, Owner DEF CountInv, MatchInv, EmitInv, Counting, Matching, Testing
<1>20. Body(R, I, L)'
  BY <1>16, <1>17, <1>18, <1>19 DEF Body
<1> QED
  BY <1>11, <1>13, <1>14, <1>15, <1>20 DEF IInv

\* The end of testing.
LEMMA EndTestStep ==
  ASSUME IInv, NEW t \in Threads, EndTest(t)
  PROVE  IInv'
<1>1. PICK R \in 0 .. Rounds, I \in -1 .. MAX_KEYS - 1, L \in 0 .. MAX_KEYS : Body(R, I, L)
  BY DEF IInv
<1>2. /\ pc[t] = "test" /\ todo[t] = {} /\ pc' = [pc EXCEPT ![t] = "sync test"]
      /\ UNCHANGED <<input, round, i, todo, count, keys, nkeys, matchp, nmatch, flag, warn, results>>
  BY DEF EndTest, Goto
<1>3. TypeOK /\ TodoOK /\ PhaseInv /\ ZeroInv /\ ResultInv /\ ReportsAreRight /\ ReportedOnce
  BY DEF IInv
<1>4. pc'[t] = "sync test" /\ \A u \in Threads : u # t => pc'[u] = pc[u]
  BY <1>2, <1>3 DEF TypeOK
<1>5. \A u \in Threads : Testing(u) /\ Testing(u)'
  BY <1>2, <1>3, <1>4, Owner, Phases DEF Testing
<1>6. PlaceInv(R, I) /\ TestInv(R, I) /\ ListInv(R, I, L) /\ Testing(0)
  BY <1>1, <1>5, Owner DEF Body
<1>7. R \in 1 .. Rounds
  BY <1>3, <1>5, <1>6, Owner, Place
<1>8. TypeOK' /\ TodoOK'
  BY <1>2, <1>3 DEF TypeOK, TodoOK, Labels, results
<1>9. PhaseInv'
  BY <1>2, <1>3, <1>4, PhaseKept DEF Counting, Matching, Testing, AmongKeys, Ahead
<1>10. ZeroInv'
  BY <1>5, Owner DEF ZeroInv, Testing
<1>11. ResultInv' /\ ReportsAreRight' /\ ReportedOnce'
  BY <1>2, <1>3, <1>4, ResultStays DEF InLoop, Matching, Testing, AmongKeys
<1>12. PlaceInv(R, I)'
  BY <1>2, <1>4, <1>6 DEF PlaceInv, Counting, Matching, Testing, Ahead
<1>13. ListInv(R, I, L)'
  <2>1. ~Counting(0)
    BY <1>5, Owner DEF Counting, Testing
  <2>2. Length' = Length
    BY <1>2 DEF Length
  <2>3. \A u \in Threads : ~Ahead(u)' /\ pc'[u] # "sync keys"
    BY <1>5 DEF Ahead, Testing
  <2>4. I < L /\ pc[0] # "sync zero" /\ (pc[0] # "sync zero" => Length = L)
    BY <1>6, <1>7, <2>1, ListPlaces DEF Testing
  <2> QED
    BY <1>2, <1>6, <2>1, <2>2, <2>3, <2>4, ListKept
<1>14. TestInv(R, I)'
  <2>1. /\ ListsMatches(input.match[R][keys[I]])
        /\ \A u \in Threads : \A h \in todo[u] :
             /\ h \in (0 .. NumMatches - 1) \X Middle /\ h[1] % NumThreads = u
             /\ h[1] \in Suggesting(R, keys[I], h[2])
        /\ \A u \in Threads : pc[u] = "sync test" => todo[u] = {}
        /\ \A m \in Middle : count[m] = Cardinality(Tested(R, keys[I], m))
        /\ flag = (\E m \in Middle : count[m] > tau2)
    BY <1>6 DEF TestInv
  <2>2. /\ NumMatches' = NumMatches
        /\ \A m : Suggesting(R, keys[I], m)' = Suggesting(R, keys[I], m)
    BY <1>2 DEF NumMatches, Suggesting
  <2>3. \A m : Tested(R, keys[I], m)' = Tested(R, keys[I], m)
    BY <1>2, <2>2 DEF Tested
  <2>4. ListsMatches(input.match[R][keys[I]])'
    <3>1. IsInjectiveUpTo(matchp, NumMatches)'
      BY <1>2, <2>1, <2>2 DEF ListsMatches, IsInjectiveUpTo
    <3> QED
      BY <1>2, <2>1, <2>2, <3>1 DEF ListsMatches
  <2>5. \A u \in Threads : pc'[u] = "sync test" => todo'[u] = {}
    BY <1>2, <1>4, <2>1
  <2>6. \A m \in Middle : count'[m] = Cardinality(Tested(R, keys[I], m)')
    BY <1>2, <2>1, <2>3
  <2>7. flag' = (\E m \in Middle : count'[m] > tau2)
    BY <1>2, <2>1, Zenon
  <2>8. \A u \in Threads : \A h \in todo'[u] :
          /\ h \in (0 .. NumMatches' - 1) \X Middle /\ h[1] % NumThreads = u
          /\ h[1] \in Suggesting(R, keys[I], h[2])'
    <3>1. \A u \in Threads : \A h \in todo[u] :
            /\ h \in (0 .. NumMatches - 1) \X Middle /\ h[1] % NumThreads = u
            /\ h[1] \in Suggesting(R, keys[I], h[2])
      BY <2>1
    <3>2. todo' = todo
      BY <1>2
    <3> QED
      BY <2>2, <3>1, <3>2
  <2> QED
    BY <2>4, <2>5, <2>6, <2>7, <2>8 DEF TestInv
<1>15. CountInv(R)' /\ MatchInv(R, I)' /\ EmitInv(R, I)'
  BY <1>5, Owner DEF CountInv, MatchInv, EmitInv, Counting, Matching, Testing
<1>16. Body(R, I, L)'
  BY <1>12, <1>13, <1>14, <1>15 DEF Body
<1> QED
  BY <1>8, <1>9, <1>10, <1>11, <1>16 DEF IInv

\* A middle byte that is reported, or not.
LEMMA EmitStep ==
  ASSUME IInv, NEW t \in Threads, Emit(t)
  PROVE  IInv'
<1>1. PICK R \in 0 .. Rounds, I \in -1 .. MAX_KEYS - 1, L \in 0 .. MAX_KEYS : Body(R, I, L)
  BY DEF IInv
<1>2. PICK m \in todo[t] :
        /\ pc[t] = "emit"
        /\ todo' = [todo EXCEPT ![t] = @ \ {m}]
        /\ \/ /\ flag /\ count[m] >= tau2
              /\ num_candidates' = num_candidates + 1
              /\ \/ /\ num_candidates < MAX_CANDIDATES
                    /\ candidates' = candidates \cup {<<round[t], keys[i[t]], m, count[m]>>}
                    /\ UNCHANGED warn
                 \/ /\ num_candidates >= MAX_CANDIDATES
                    /\ warn' = TRUE
                    /\ UNCHANGED candidates
           \/ /\ ~(flag /\ count[m] >= tau2)
              /\ UNCHANGED <<results, warn>>
        /\ UNCHANGED <<input, pc, round, i, count, keys, nkeys, matchp, nmatch, flag>>
  BY DEF Emit
<1>3. TypeOK /\ TodoOK /\ PhaseInv /\ ZeroInv /\ ResultInv /\ ReportsAreRight /\ ReportedOnce
  BY DEF IInv
<1>4. PlaceInv(R, I) /\ EmitInv(R, I) /\ ListInv(R, I, L)
  BY <1>1 DEF Body
<1> DEFINE K == keys[I]
           c == <<R, K, m, count[m]>>
<1>5. /\ R \in 1 .. Rounds /\ I \in 0 .. MAX_KEYS - 1 /\ K \in Keys
      /\ round[t] = R /\ i[t] = I
  BY <1>2, <1>3, <1>4, Place
<1>6. /\ todo[t] \subseteq Mine(t, Middle)
      /\ \A n \in Mine(t, Middle) :
           /\ count[n] <= Matches(R, K, n)
           /\ ~warn => count[n] = Matches(R, K, n)
      /\ ~warn /\ (\E n \in Middle : Matches(R, K, n) > tau2) => flag
  BY <1>2, <1>4 DEF EmitInv
<1>7. m \in Middle /\ m % NumThreads = t /\ m \in Mine(t, Middle) /\ count[m] \in Nat
  BY <1>2, <1>3, <1>6 DEF Mine, TypeOK, Words
<1>8. ~Counting(0)' /\ ~Matching(0)' /\ ~Testing(0)' /\ ~Counting(0)
  BY <1>2, <1>3, Phases DEF Counting, Matching, Testing, AmongKeys
<1>9. /\ \A n \in 0 .. L - 1 : Suggestions(R, keys[n]) >= tau1
      /\ tau1 # Saturation + 1 => \A a, b \in 0 .. L - 1 : keys[a] = keys[b] => a = b
      /\ I \in 0 .. L - 1
  <2>1. R >= 1
    BY <1>5, Positive
  <2>2. /\ I < L /\ Different(L)
        /\ \A n \in 0 .. L - 1 : Suggestions(R, keys[n]) >= tau1
    BY <1>4, <1>8, <2>1 DEF ListInv
  <2>3. I \in 0 .. L - 1
    BY <1>5, <2>2
  <2> QED
    BY <2>2, <2>3 DEF Different
<1> HIDE DEF K, c
<1>10. TypeOK' /\ TodoOK' /\ (~warn' => ~warn)
  <2>1. num_candidates' \in Nat
    BY <1>2, <1>3 DEF TypeOK, results
  <2>2. warn \in BOOLEAN
    BY <1>3 DEF TypeOK
  <2>3. warn' \in BOOLEAN /\ (~warn' => ~warn)
    <3>1. UNCHANGED warn \/ warn' = TRUE
      BY <1>2, Zenon
    <3> QED
      BY <2>2, <3>1, Zenon
  <2> QED
    BY <1>2, <1>3, <2>1, <2>3 DEF TypeOK, TodoOK
<1>11. todo'[t] = todo[t] \ {m} /\ \A u \in Threads : u # t => todo'[u] = todo[u]
  BY <1>2, <1>3 DEF TodoOK
<1>12. PhaseInv'
  BY <1>2, <1>3, PhaseKept DEF Counting, Matching, Testing, AmongKeys, Ahead
<1>13. ZeroInv'
  BY <1>2, <1>3 DEF ZeroInv
<1>14. PlaceInv(R, I)'
  BY <1>2, <1>4 DEF PlaceInv, Counting, Matching, Testing, Ahead
<1>15. ListInv(R, I, L)'
  <2>1. Length' = Length
    BY <1>2 DEF Length
  <2>2. \A u \in Threads : Ahead(u)' => Ahead(u)
    BY <1>2 DEF Ahead
  <2>3. /\ I < L
        /\ pc'[0] # "sync zero" => Length' = L
        /\ \A u \in Threads : Ahead(u)' => I + 1 = L
        /\ \A u \in Threads : pc'[u] = "sync keys" => I + 1 < L
    BY <1>2, <1>4, <1>5, <1>8, <2>1, <2>2, ListPlaces
  <2> QED
    BY <1>2, <1>4, <1>8, <1>10, <2>3, ListKept
<1>16. EmitInv(R, I)'
  <2>1. ASSUME NEW u \in Threads, pc'[u] = "emit"
        PROVE  /\ pc[u] = "emit" /\ todo'[u] \subseteq todo[u]
               /\ \A n \in Mine(u, Middle) : count'[n] = count[n]
    BY <1>2, <1>11, <2>1
  <2> QED
    BY <1>2, <1>4, <1>10, <2>1, EmitKept
<1>17. CountInv(R)' /\ MatchInv(R, I)' /\ TestInv(R, I)'
  BY <1>8 DEF CountInv, MatchInv, TestInv
<1>18. Body(R, I, L)'
  BY <1>14, <1>15, <1>16, <1>17 DEF Body
<1>19. /\ \A r, k, n : Suggestions(r, k)' = Suggestions(r, k) /\ Matches(r, k, n)' = Matches(r, k, n)
       /\ \A r, k, n : Due(r, k, n)' = Due(r, k, n)
  BY <1>2 DEF Suggestions, Matches, Due
<1>20. /\ \A r \in 1 .. Rounds, k \in Keys, n \in Middle :
            n % NumThreads = t => (Past(t, r, k, n)' <=>
              Past(t, r, k, n) \/ (r = R /\ k = K /\ n = m))
       /\ tau1 # Saturation + 1 => ~Past(t, R, K, m)
  <2>1. InLoop(t) /\ InLoop(t)'
    BY <1>2 DEF InLoop, AmongKeys
  <2>2. \A r, k, n : Past(t, r, k, n) <=>
          r < R \/ (r = R /\ \E a \in 0 .. MAX_KEYS - 1 :
                      keys[a] = k /\ (a < I \/ (a = I /\ n \notin todo[t])))
    BY <1>2, <1>5, <2>1, Zenon DEF Past
  <2>3. \A r, k, n : Past(t, r, k, n)' <=>
          r < R \/ (r = R /\ \E a \in 0 .. MAX_KEYS - 1 :
                      keys[a] = k /\ (a < I \/ (a = I /\ n \notin todo'[t])))
    BY <1>2, <1>5, <2>1, Zenon DEF Past
  <2>4. \A n : n \notin todo'[t] <=> n \notin todo[t] \/ n = m
    BY <1>11
  <2>5. \A a \in 0 .. MAX_KEYS - 1 : a < I \/ a = I => a \in 0 .. L - 1
    BY <1>5, <1>9, Positive
  <2>6. tau1 # Saturation + 1 => ~Past(t, R, K, m)
    <3>1. tau1 # Saturation + 1 => \A a \in 0 .. MAX_KEYS - 1 : keys[a] = K /\ (a < I \/ a = I) => a = I
      BY <1>9, <2>5 DEF K
    <3>2. ~(R < R) /\ ~(I < I)
      BY <1>5, Positive
    <3> QED
      BY <1>2, <2>2, <3>1, <3>2
  <2>7. ASSUME NEW r \in 1 .. Rounds, NEW k \in Keys, NEW n \in Middle
        PROVE  Past(t, r, k, n)' <=> Past(t, r, k, n) \/ (r = R /\ k = K /\ n = m)
    <3>1. ASSUME Past(t, r, k, n)', ~Past(t, r, k, n)
          PROVE  r = R /\ k = K /\ n = m
      <4>1. r = R /\ \E a \in 0 .. MAX_KEYS - 1 :
              keys[a] = k /\ (a < I \/ (a = I /\ n \notin todo'[t]))
        BY <2>2, <2>3, <3>1, Zenon
      <4>2. PICK a \in 0 .. MAX_KEYS - 1 : keys[a] = k /\ (a < I \/ (a = I /\ n \notin todo'[t]))
        BY <4>1
      <4>3. ~(a < I) /\ ~(a = I /\ n \notin todo[t])
        BY <2>2, <3>1, <4>1, <4>2, Zenon
      <4> QED
        BY <2>4, <4>1, <4>2, <4>3 DEF K
    <3>2. ASSUME Past(t, r, k, n)
          PROVE  Past(t, r, k, n)'
      <4>1. CASE r < R
        BY <2>3, <4>1, Zenon
      <4>2. CASE r = R /\ \E a \in 0 .. MAX_KEYS - 1 :
                   keys[a] = k /\ (a < I \/ (a = I /\ n \notin todo[t]))
        <5>1. PICK a \in 0 .. MAX_KEYS - 1 : keys[a] = k /\ (a < I \/ (a = I /\ n \notin todo[t]))
          BY <4>2
        <5>2. keys[a] = k /\ (a < I \/ (a = I /\ n \notin todo'[t]))
          BY <2>4, <5>1, Zenon
        <5> QED
          BY <2>3, <4>2, <5>2, Zenon
      <4> QED
        BY <2>2, <3>2, <4>1, <4>2, Zenon
    <3>3. r = R /\ k = K /\ n = m => Past(t, r, k, n)'
      BY <1>5, <2>3, <2>4, Zenon DEF K
    <3> QED
      BY <3>1, <3>2, <3>3
  <2> QED
    BY <2>6, <2>7
<1>21. \A u \in Threads : u # t => \A r, k, n : Past(u, r, k, n)' <=> Past(u, r, k, n)
  <2>1. ASSUME NEW u \in Threads, u # t
        PROVE  (InLoop(u)' <=> InLoop(u)) /\ (pc'[u] = "emit" <=> pc[u] = "emit") /\ todo'[u] = todo[u]
    BY <1>2, <1>11, <2>1 DEF InLoop, Matching, Testing, AmongKeys
  <2> QED
    BY <1>2, <2>1, PastKept
<1>22. /\ candidates \subseteq (1 .. Rounds) \X Keys \X Middle \X Nat
       /\ IsFiniteSet(candidates)
       /\ \A d \in candidates : Past(d[3] % NumThreads, d[1], d[2], d[3])
       /\ Complete =>
            \A r \in 1 .. Rounds, k \in Keys, n \in Middle :
              Past(n % NumThreads, r, k, n) /\ Due(r, k, n) =>
                <<r, k, n, Matches(r, k, n)>> \in candidates
  BY <1>3 DEF ResultInv
<1>23. /\ c \in (1 .. Rounds) \X Keys \X Middle \X Nat
       /\ tau1 # Saturation + 1 => c \notin candidates
  <2>1. c[1] = R /\ c[2] = K /\ c[3] = m
    BY DEF c
  <2> QED
    BY <1>5, <1>7, <1>20, <1>22, <2>1 DEF c
<1>24. \A n \in Middle : n % NumThreads \in Threads
  BY Owner, Positive DEF Middle
<1>25. \A r \in 1 .. Rounds, k \in Keys, n \in Middle :
         Past(n % NumThreads, r, k, n)' <=>
           Past(n % NumThreads, r, k, n) \/ (r = R /\ k = K /\ n = m)
  BY <1>7, <1>20, <1>21, <1>24, Zenon
<1>26. num_candidates \in Nat /\ MAX_CANDIDATES \in Nat
  BY <1>3, Positive DEF TypeOK
<1>27. CASE /\ flag /\ count[m] >= tau2
            /\ num_candidates' = num_candidates + 1 /\ num_candidates < MAX_CANDIDATES
            /\ candidates' = candidates \cup {<<round[t], keys[i[t]], m, count[m]>>}
            /\ UNCHANGED warn
  <2>1. candidates' = candidates \cup {c}
    BY <1>5, <1>27 DEF c, K
  <2>2. ResultInv'
    <3>1. candidates' \subseteq (1 .. Rounds) \X Keys \X Middle \X Nat /\ IsFiniteSet(candidates')
      BY <1>22, <1>23, <2>1, FS_AddElement
    <3>4. (Complete' <=> Complete) /\ (Complete => ~warn)
      BY <1>27 DEF Complete
    <3>2. ASSUME NEW d \in candidates'
          PROVE  Past(d[3] % NumThreads, d[1], d[2], d[3])'
      <4>1. d[1] \in 1 .. Rounds /\ d[2] \in Keys /\ d[3] \in Middle
        BY <3>1
      <4>2. d = c => d[1] = R /\ d[2] = K /\ d[3] = m
        BY DEF c
      <4> QED
        BY <1>22, <1>25, <2>1, <4>1, <4>2
    <3>3. ASSUME Complete', NEW r \in 1 .. Rounds, NEW k \in Keys, NEW n \in Middle,
                 Past(n % NumThreads, r, k, n)', Due(r, k, n)
          PROVE  <<r, k, n, Matches(r, k, n)>> \in candidates'
      <4>1. CASE Past(n % NumThreads, r, k, n)
        BY <1>22, <2>1, <3>3, <3>4, <4>1
      <4>2. CASE r = R /\ k = K /\ n = m
        <5>1. count[m] = Matches(R, K, m)
          BY <1>6, <1>7, <3>3, <3>4
        <5> QED
          BY <2>1, <4>2, <5>1 DEF c
      <4> QED
        BY <1>25, <3>3, <4>1, <4>2
    <3> QED
      BY <1>19, <3>1, <3>2, <3>3, Zenon DEF ResultInv
  <2>3. ReportsAreRight'
    <3>1. /\ Suggestions(R, K) >= tau1 /\ count[m] >= tau2 /\ count[m] <= Matches(R, K, m)
          /\ ~warn => count[m] = Matches(R, K, m)
      BY <1>6, <1>7, <1>9, <1>27 DEF K
    <3>2. c[1] = R /\ c[2] = K /\ c[3] = m /\ c[4] = count[m]
      BY DEF c
    <3> QED
      BY <1>3, <1>19, <1>27, <2>1, <3>1, <3>2 DEF ReportsAreRight
  <2>4. ReportedOnce'
    <3>1. ASSUME tau1 # Saturation + 1
          PROVE  Cardinality(candidates') = AtMost(num_candidates', MAX_CANDIDATES)
      <4>1. Cardinality(candidates') = Cardinality(candidates) + 1
        BY <1>22, <1>23, <2>1, <3>1, OneMore
      <4>2. Cardinality(candidates) = AtMost(num_candidates, MAX_CANDIDATES)
        BY <1>3, <3>1 DEF ReportedOnce
      <4> QED
        BY <1>27, <1>26, <4>1, <4>2, AtMostIs
    <3> QED
      BY <3>1 DEF ReportedOnce
  <2> QED
    BY <1>10, <1>12, <1>13, <1>18, <2>2, <2>3, <2>4 DEF IInv
<1>28. CASE /\ num_candidates' = num_candidates + 1 /\ num_candidates >= MAX_CANDIDATES
            /\ warn' = TRUE /\ UNCHANGED candidates
  <2>1. ~Complete'
    BY <1>28 DEF Complete
  <2>2. \A d \in candidates' : Past(d[3] % NumThreads, d[1], d[2], d[3])'
    <3>1. \A d \in candidates : d[1] \in 1 .. Rounds /\ d[2] \in Keys /\ d[3] \in Middle
      BY <1>22
    <3> QED
      BY <1>22, <1>25, <1>28, <3>1
  <2>3. ResultInv'
    BY <1>22, <1>28, <2>1, <2>2, Zenon DEF ResultInv
  <2>4. ReportsAreRight'
    BY <1>3, <1>10, <1>19, <1>28 DEF ReportsAreRight
  <2>5. ReportedOnce'
    <3>1. AtMost(num_candidates', MAX_CANDIDATES) = AtMost(num_candidates, MAX_CANDIDATES)
      BY <1>28, <1>26, AtMostIs
    <3> QED
      BY <1>3, <1>28, <3>1 DEF ReportedOnce
  <2> QED
    BY <1>10, <1>12, <1>13, <1>18, <2>3, <2>4, <2>5 DEF IInv
<1>29. CASE ~(flag /\ count[m] >= tau2) /\ UNCHANGED <<results, warn>>
  <2>1. ResultInv'
    <3>1. ~warn => ~Due(R, K, m)
      <4>1. ASSUME ~warn, Due(R, K, m)
            PROVE  flag /\ count[m] >= tau2
        <5>1. Matches(R, K, m) >= tau2 /\ \E n \in Middle : Matches(R, K, n) > tau2
          BY <4>1 DEF Due
        <5>2. flag
          BY <1>6, <4>1, <5>1
        <5>3. count[m] >= tau2
          BY <1>6, <1>7, <4>1, <5>1
        <5> QED
          BY <5>2, <5>3
      <4> QED
        BY <1>29, <4>1
    <3>2. ASSUME NEW u \in Threads, NEW r \in 1 .. Rounds, NEW k \in Keys, NEW n \in Middle,
                 n % NumThreads = u
          PROVE  /\ Past(u, r, k, n) => Past(u, r, k, n)'
                 /\ Complete /\ Past(u, r, k, n)' /\ Due(r, k, n) => Past(u, r, k, n)
      BY <1>25, <3>1, <3>2, Zenon DEF Complete
    <3> QED
      BY <1>2, <1>3, <1>29, <3>2, ResultKept
  <2> QED
    BY <1>2, <1>3, <1>10, <1>12, <1>13, <1>18, <1>29, <2>1, ResultsKept DEF IInv
<1> QED
  BY <1>2, <1>27, <1>28, <1>29

\* The end of a key: the thread goes on to the next one without a barrier.
LEMMA EndEmitStep ==
  ASSUME IInv, NEW t \in Threads, EndEmit(t)
  PROVE  IInv'
<1>1. PICK R \in 0 .. Rounds, I \in -1 .. MAX_KEYS - 1, L \in 0 .. MAX_KEYS : Body(R, I, L)
  BY DEF IInv
<1>2. /\ pc[t] = "emit" /\ todo[t] = {}
      /\ i' = [i EXCEPT ![t] = @ + 1]
      /\ pc' = [pc EXCEPT ![t] = "keys"]
      /\ UNCHANGED <<input, round, todo, count, keys, nkeys, matchp, nmatch, flag, warn, results>>
  BY DEF EndEmit, Goto
<1>3. TypeOK /\ TodoOK /\ PhaseInv /\ ZeroInv /\ ResultInv /\ ReportsAreRight /\ ReportedOnce
  BY DEF IInv
<1>4. /\ pc'[t] = "keys" /\ \A u \in Threads : u # t => pc'[u] = pc[u]
      /\ i'[t] = i[t] + 1 /\ \A u \in Threads : u # t => i'[u] = i[u]
  BY <1>2, <1>3 DEF TypeOK
<1>5. PlaceInv(R, I) /\ EmitInv(R, I) /\ ListInv(R, I, L)
  BY <1>1 DEF Body
<1>6. /\ R \in 1 .. Rounds /\ I \in 0 .. MAX_KEYS - 1
      /\ round[t] = R /\ i[t] = I
  BY <1>2, <1>3, <1>5, Place
<1>7. TypeOK' /\ TodoOK'
  <2>1. i' \in [Threads -> 0 .. MAX_KEYS]
    BY <1>2, <1>3, <1>6, Positive DEF TypeOK
  <2>2. pc' \in [Threads -> Labels]
    BY <1>2, <1>3 DEF TypeOK, Labels
  <2> QED
    BY <1>2, <1>3, <2>1, <2>2 DEF TypeOK, TodoOK, results
<1>8. PhaseInv'
  BY <1>2, <1>3, <1>4, PhaseKept DEF Counting, Matching, Testing, AmongKeys, Ahead
<1>9. ~Counting(0)' /\ ~Matching(0)' /\ ~Testing(0)' /\ ~Counting(0)
  BY <1>2, <1>3, <1>4, Owner, Phases DEF Counting, Matching, Testing, AmongKeys, Ahead
<1>10. ZeroInv'
  BY <1>2, <1>3, <1>4, Owner DEF ZeroInv, Mine
<1>11. ResultInv' /\ ReportsAreRight' /\ ReportedOnce'
  <2>1. ASSUME NEW u \in Threads, u # t
        PROVE  \A r, k, m : Past(u, r, k, m)' <=> Past(u, r, k, m)
    <3>1. /\ round'[u] = round[u] /\ i'[u] = i[u] /\ keys' = keys
          /\ (InLoop(u)' <=> InLoop(u)) /\ pc'[u] = pc[u] /\ todo'[u] = todo[u]
      BY <1>2, <1>4, <2>1 DEF InLoop, Matching, Testing, AmongKeys
    <3> QED
      BY <3>1, Zenon DEF Past
  <2>2. \A r, k, m : Past(t, r, k, m)' <=> Past(t, r, k, m)
    <3>1. InLoop(t) /\ InLoop(t)'
      BY <1>2, <1>4 DEF InLoop, AmongKeys
    <3>2. \A r, k, m : Past(t, r, k, m) <=>
            r < R \/ (r = R /\ \E n \in 0 .. MAX_KEYS - 1 : keys[n] = k /\ (n < I \/ n = I))
      BY <1>2, <1>6, <3>1, Zenon DEF Past
    <3>3. \A r, k, m : Past(t, r, k, m)' <=>
            r < R \/ (r = R /\ \E n \in 0 .. MAX_KEYS - 1 : keys[n] = k /\ n < I + 1)
      <4>1. pc'[t] # "emit"
        BY <1>4
      <4> QED
        BY <1>2, <1>4, <1>6, <3>1, <4>1, Zenon DEF Past
    <3>4. \A n \in 0 .. MAX_KEYS - 1 : n < I + 1 <=> n < I \/ n = I
      BY <1>6, Positive
    <3> QED
      BY <3>2, <3>3, <3>4, Zenon
  <2>3. \A u \in Threads : \A r, k, m : Past(u, r, k, m)' <=> Past(u, r, k, m)
    BY <2>1, <2>2
  <2>4. ResultInv'
    BY <1>2, <1>3, <2>3, ResultKept
  <2> QED
    BY <1>2, <1>3, <2>4, ResultsKept
<1>12. PlaceInv(R, I)'
  BY <1>2, <1>4, <1>5, <1>6 DEF PlaceInv, Counting, Matching, Testing, Ahead
<1>13. ListInv(R, I, L)'
  <2>1. Length' = Length
    BY <1>2 DEF Length
  <2>2. /\ \A u \in Threads : Ahead(u)' => Ahead(u)
        /\ \A u \in Threads : pc'[u] = "sync keys" => pc[u] = "sync keys"
        /\ pc'[0] # "sync zero" => pc[0] # "sync zero"
    BY <1>2, <1>4, Owner DEF Ahead
  <2>3. /\ I < L
        /\ pc'[0] # "sync zero" => Length' = L
        /\ \A u \in Threads : Ahead(u)' => I + 1 = L
        /\ \A u \in Threads : pc'[u] = "sync keys" => I + 1 < L
    <3>1. /\ I < L
          /\ pc[0] # "sync zero" => Length = L
          /\ \A u \in Threads : Ahead(u) => I + 1 = L
          /\ \A u \in Threads : pc[u] = "sync keys" => I + 1 < L
      BY <1>5, <1>6, <1>9, ListPlaces
    <3> QED
      BY <2>1, <2>2, <3>1
  <2> QED
    BY <1>2, <1>5, <1>9, <2>3, ListKept
<1>14. EmitInv(R, I)'
  <2>1. ASSUME NEW u \in Threads, pc'[u] = "emit"
        PROVE  /\ pc[u] = "emit" /\ todo'[u] \subseteq todo[u]
               /\ \A m \in Mine(u, Middle) : count'[m] = count[m]
    BY <1>2, <1>4, <2>1
  <2> QED
    BY <1>2, <1>5, <2>1, EmitKept
<1>15. CountInv(R)' /\ MatchInv(R, I)' /\ TestInv(R, I)'
  BY <1>9 DEF CountInv, MatchInv, TestInv
<1>16. Body(R, I, L)'
  BY <1>12, <1>13, <1>14, <1>15 DEF Body
<1> QED
  BY <1>7, <1>8, <1>10, <1>11, <1>16 DEF IInv

\* The barrier after clearing: counting begins in the next round.
LEMMA SyncZeroStep ==
  ASSUME IInv, SyncZero
  PROVE  IInv'
<1>1. PICK R \in 0 .. Rounds, I \in -1 .. MAX_KEYS - 1, L \in 0 .. MAX_KEYS : Body(R, I, L)
  BY DEF IInv
<1>2. /\ \A t \in Threads : pc[t] = "sync zero"
      /\ pc' = [t \in Threads |-> "count"]
      /\ todo' = [t \in Threads |->
           UNION {{<<p, k>> : k \in input.hits[round[t]][p]} : p \in Mine(t, Pairs)}]
      /\ UNCHANGED <<input, round, i, count, keys, nkeys, matchp, nmatch, flag, warn, results>>
  BY DEF SyncZero, AllAt, Release
<1>3. TypeOK /\ TodoOK /\ PhaseInv /\ ZeroInv /\ ResultInv /\ ReportsAreRight /\ ReportedOnce
  BY DEF IInv
<1> DEFINE Q == R + 1
<1>4. /\ Q \in 1 .. Rounds
      /\ \A t \in Threads : round[t] = Q
  <2>1. PlaceInv(R, I)
    BY <1>1 DEF Body
  <2>2. R < Rounds /\ \A t \in Threads : round[t] = R + 1
    BY <1>2, <2>1, Owner DEF PlaceInv, Ahead
  <2> QED
    BY <2>2, Positive
<1> HIDE DEF Q
<1>5. TypeOK' /\ TodoOK'
  BY <1>2, <1>3 DEF TypeOK, TodoOK, Labels, results
<1>6. \A t \in Threads : pc'[t] = "count" /\ Counting(t)'
  BY <1>2 DEF Counting
<1>7. PhaseInv'
  BY <1>6 DEF PhaseInv
<1>8. ZeroInv'
  BY <1>6, Owner DEF ZeroInv
<1>9. ResultInv' /\ ReportsAreRight' /\ ReportedOnce'
  <2>1. ASSUME NEW t \in Threads
        PROVE  /\ InLoop(t)' <=> InLoop(t)
               /\ pc'[t] = "emit" <=> pc[t] = "emit"
               /\ pc[t] = "emit" => todo'[t] = todo[t]
    BY <1>2, <1>6 DEF InLoop, Matching, Testing, AmongKeys
  <2> QED
    BY <1>2, <1>3, <2>1, ResultStays
<1>10. PlaceInv(Q, -1)'
  BY <1>2, <1>4, <1>6 DEF PlaceInv, Matching, Testing, Ahead
<1>11. CountInv(Q)'
  <2>1. ASSUME NEW t \in Threads
        PROVE  todo'[t] = UNION {{<<p, k>> : k \in input.hits[Q][p]} : p \in Mine(t, Pairs)}
    <3> DEFINE Work(r) == UNION {{<<p, k>> : k \in input.hits[r][p]} : p \in Mine(t, Pairs)}
    <3>1. todo'[t] = Work(round[t])
      BY <1>2, Zenon
    <3>2. round[t] = Q
      BY <1>4
    <3> HIDE DEF Work
    <3>3. todo'[t] = Work(Q)
      BY <3>1, <3>2
    <3> QED
      BY <3>3 DEF Work
  <2>2. ASSUME NEW t \in Threads, NEW h \in todo'[t]
        PROVE  /\ h \in Pairs \X Keys /\ h[1] % NumThreads = t
               /\ h[2] \in input.hits[Q][h[1]]
    <3>1. PICK p \in Mine(t, Pairs) : h \in {<<p, k>> : k \in input.hits[Q][p]}
      BY <2>1, <2>2
    <3>2. PICK k \in input.hits[Q][p] : h = <<p, k>>
      BY <3>1
    <3>3. p \in Pairs /\ p % NumThreads = t
      BY DEF Mine
    <3>4. k \in Keys
      BY <1>3, <1>4, <3>2, <3>3, InputType DEF TypeOK
    <3> QED
      BY <3>2, <3>3, <3>4
  <2>3. \A k \in Keys : Counted(Q, k)' = {}
    <3>1. ASSUME NEW k \in Keys, NEW p \in Pairs, k \in input.hits[Q][p]
          PROVE  <<p, k>> \in todo'[p % NumThreads]
      <4>1. p % NumThreads \in Threads
        BY Owner DEF Pairs
      <4>2. p \in Mine(p % NumThreads, Pairs)
        BY DEF Mine
      <4> QED
        BY <2>1, <3>1, <4>1, <4>2
    <3> QED
      BY <1>2, <3>1 DEF Counted
  <2>4. ASSUME NEW k \in Keys
        PROVE  count'[k] = 0
    <3>1. k % NumThreads \in Threads
      BY Owner DEF Keys
    <3>2. k \in Mine(k % NumThreads, Words)
      BY DEF Mine, Words
    <3> QED
      BY <1>2, <1>3, <3>1, <3>2 DEF ZeroInv
  <2>5. Length' = 0
    BY <1>2, <1>3, Owner, AtMostIs, Positive DEF Length, ZeroInv
  <2>6. /\ \A k \in Keys : Hits(Q, k)' = 0
        /\ \A k \in Keys : count'[k] = AtMost(Hits(Q, k)', Saturation)
    <3>1. \A k \in Keys : Hits(Q, k)' = 0
      BY <2>3, FS_EmptySet DEF Hits
    <3>2. AtMost(0, Saturation) = 0
      BY Positive, AtMostIs
    <3> QED
      BY <2>4, <3>1, <3>2
  <2>7. \A k \in Keys : ~(Hits(Q, k)' >= tau1)
    BY <2>6, Positive
  <2>8. 0 .. Length' - 1 = {}
    BY <2>5
  <2>9. Different(Length)'
    BY <2>8 DEF Different
  <2> QED
    BY <1>2, <1>6, <2>2, <2>5, <2>6, <2>7, <2>8, <2>9 DEF CountInv
<1>12. ListInv(Q, -1, 0)' /\ MatchInv(Q, -1)' /\ TestInv(Q, -1)' /\ EmitInv(Q, -1)'
  BY <1>6, Owner DEF ListInv, MatchInv, TestInv, EmitInv, Counting, Matching, Testing
<1>13. Body(Q, -1, 0)'
  BY <1>10, <1>11, <1>12 DEF Body
<1>14. Q \in 0 .. Rounds /\ -1 \in -1 .. MAX_KEYS - 1 /\ 0 \in 0 .. MAX_KEYS
  BY <1>4, Positive
<1> QED
  BY <1>5, <1>7, <1>8, <1>9, <1>13, <1>14 DEF IInv

\* The barrier after counting: the list is complete.
LEMMA SyncCountStep ==
  ASSUME IInv, SyncCount
  PROVE  IInv'
<1>1. PICK R \in 0 .. Rounds, I \in -1 .. MAX_KEYS - 1, L \in 0 .. MAX_KEYS : Body(R, I, L)
  BY DEF IInv
<1>2. /\ \A t \in Threads : pc[t] = "sync count"
      /\ pc' = [t \in Threads |-> "keys"]
      /\ todo' = [t \in Threads |-> {}]
      /\ i' = [t \in Threads |-> 0]
      /\ UNCHANGED <<input, round, count, keys, nkeys, matchp, nmatch, flag, warn, results>>
  BY DEF SyncCount, AllAt, Release
<1>3. TypeOK /\ TodoOK /\ PhaseInv /\ ZeroInv /\ ResultInv /\ ReportsAreRight /\ ReportedOnce
  BY DEF IInv
<1>4. PlaceInv(R, I) /\ CountInv(R) /\ Counting(0)
  BY <1>1, <1>2, Owner DEF Body, Counting
<1>5. R \in 1 .. Rounds /\ \A t \in Threads : round[t] = R
  <2>1. \A t \in Threads : round[t] = R
    BY <1>2, <1>4 DEF PlaceInv, Counting
  <2>2. round[0] \in 1 .. Rounds + 1
    BY <1>3, Owner DEF TypeOK
  <2> QED
    BY <2>1, <2>2, Owner, Positive
<1>6. \A t \in Threads : pc'[t] = "keys" /\ i'[t] = 0 /\ AmongKeys(t)'
  BY <1>2 DEF AmongKeys
<1>7. ~Counting(0)' /\ ~Matching(0)' /\ ~Testing(0)'
  BY <1>6, Owner DEF Counting, Matching, Testing
<1>8. TypeOK' /\ TodoOK'
  <2>1. i' \in [Threads -> 0 .. MAX_KEYS]
    <3>1. 0 \in 0 .. MAX_KEYS
      BY Positive
    <3> QED
      BY <1>2, <3>1, Zenon
  <2>2. pc' \in [Threads -> Labels]
    BY <1>2 DEF Labels
  <2> QED
    BY <1>2, <1>3, <2>1, <2>2 DEF TypeOK, TodoOK, results
<1>9. PhaseInv'
  BY <1>6 DEF PhaseInv
<1>10. ZeroInv'
  BY <1>6, Owner DEF ZeroInv
<1>11. ResultInv' /\ ReportsAreRight' /\ ReportedOnce'
  <2>1. ASSUME NEW t \in Threads
        PROVE  \A r, k, m : Past(t, r, k, m)' <=> Past(t, r, k, m)
    <3>1. \A r, k, m : Past(t, r, k, m) <=> r < round[t]
      BY <1>2 DEF Past, InLoop, Matching, Testing, AmongKeys
    <3>2. /\ pc'[t] # "emit" /\ round'[t] = round[t]
          /\ \A n \in 0 .. MAX_KEYS - 1 : ~(n < i'[t])
      <4>1. \A n \in 0 .. MAX_KEYS - 1 : ~(n < 0)
        BY Positive
      <4>2. i'[t] = 0 /\ pc'[t] = "keys" /\ round'[t] = round[t]
        BY <1>2, <1>6
      <4> QED
        BY <4>1, <4>2
    <3>3. \A r, k, m : Past(t, r, k, m)' <=> r < round[t]
      BY <3>2, Zenon DEF Past
    <3> QED
      BY <3>1, <3>3
  <2>2. ResultInv'
    BY <1>2, <1>3, <2>1, ResultKept
  <2> QED
    BY <1>2, <1>3, <2>2, ResultsKept
<1>12. PlaceInv(R, -1)'
  <2>1. \A t \in Threads : /\ ~Counting(t)' /\ ~Matching(t)' /\ ~Testing(t)' /\ ~Ahead(t)'
                          /\ pc'[t] # "emit" /\ pc'[t] # "zero" /\ pc'[t] # "sync zero" /\ pc'[t] # "exit"
    BY <1>6 DEF Counting, Matching, Testing, Ahead
  <2>2. \A t \in Threads : round'[t] = R /\ i'[t] = -1 + 1
    <3>1. -1 + 1 = 0
      OBVIOUS
    <3>2. \A t \in Threads : round'[t] = R /\ i'[t] = 0
      BY <1>2, <1>5, <1>6
    <3> QED
      BY <3>1, <3>2
  <2> QED
    BY <2>1, <2>2, Zenon DEF PlaceInv
<1>13. Length \in 0 .. MAX_KEYS /\ Length' = Length
  BY <1>2, <1>3, AtMostIs, Positive DEF Length, TypeOK
<1>14. ListInv(R, -1, Length)'
  <2>1. \A k \in Keys : Hits(R, k) = Suggestions(R, k)
    <3>1. ASSUME NEW k \in Keys, NEW p \in Pairs
          PROVE  <<p, k>> \notin todo[p % NumThreads]
      <4>1. p % NumThreads \in Threads
        BY Owner DEF Pairs
      <4> QED
        BY <1>2, <1>4, <4>1 DEF CountInv
    <3>2. \A k \in Keys : Counted(R, k) = {p \in Pairs : k \in input.hits[R][p]}
      BY <3>1 DEF Counted
    <3> QED
      BY <3>2 DEF Suggestions, Hits
  <2>2. /\ \A n \in 0 .. Length - 1 : Hits(R, keys[n]) >= tau1
        /\ Different(Length)
        /\ Complete => \A k \in Keys : Hits(R, k) >= tau1 => \E n \in 0 .. Length - 1 : keys[n] = k
        /\ tau1 > Saturation + 1 => Length = 0
    BY <1>4 DEF CountInv
  <2>3. \A n \in 0 .. Length - 1 : n \in 0 .. MAX_KEYS - 1 /\ keys[n] \in Keys
    <3>1. MAX_KEYS \in Nat
      BY Positive
    <3>2. \A n \in 0 .. Length - 1 : n \in 0 .. MAX_KEYS - 1
      BY <1>13, <3>1
    <3> QED
      BY <1>3, <3>2 DEF TypeOK
  <2>4. \A n \in 0 .. Length - 1 : Suggestions(R, keys[n]) >= tau1
    BY <2>1, <2>2, <2>3
  <2>5. \A r, k : Suggestions(r, k)' = Suggestions(r, k)
    BY <1>2 DEF Suggestions
  <2>6. Complete' => \A k \in Keys : Suggestions(R, k)' >= tau1 =>
                        \E n \in 0 .. Length - 1 : keys'[n] = k
    <3>1. Complete' => Complete
      BY <1>2 DEF Complete
    <3> QED
      BY <1>2, <2>1, <2>2, <2>5, <3>1
  <2>7. \A n \in 0 .. Length - 1 : Suggestions(R, keys[n])' >= tau1
    BY <1>2, <2>4 DEF Suggestions
  <2>8. tau1 # Saturation + 1 =>
          \A a, b \in 0 .. Length - 1 : keys'[a] = keys'[b] => a = b
    BY <1>2, <2>2 DEF Different
  <2>9. \A t \in Threads : ~Ahead(t)' /\ pc'[t] # "sync keys"
    BY <1>6 DEF Ahead
  <2>10. -1 < Length
    BY <1>13
  <2> QED
    BY <1>13, <2>2, <2>6, <2>7, <2>8, <2>9, <2>10 DEF ListInv, Different
<1>15. CountInv(R)' /\ MatchInv(R, -1)' /\ TestInv(R, -1)' /\ EmitInv(R, -1)'
  BY <1>6, <1>7 DEF CountInv, MatchInv, TestInv, EmitInv
<1>16. Body(R, -1, Length)'
  BY <1>12, <1>14, <1>15 DEF Body
<1>17. -1 \in -1 .. MAX_KEYS - 1
  BY Positive
<1> QED
  BY <1>8, <1>9, <1>10, <1>11, <1>13, <1>16, <1>17 DEF IInv

\* The barrier before matching: all threads are at the same, next key.
LEMMA SyncKeysStep ==
  ASSUME IInv, SyncKeys
  PROVE  IInv'
<1>1. PICK R \in 0 .. Rounds, I \in -1 .. MAX_KEYS - 1, L \in 0 .. MAX_KEYS : Body(R, I, L)
  BY DEF IInv
<1>2. /\ \A t \in Threads : pc[t] = "sync keys"
      /\ pc' = [t \in Threads |-> "match"]
      /\ todo' = [t \in Threads |-> Mine(t, input.match[round[t]][keys[i[t]]])]
      /\ UNCHANGED <<input, round, i, count, keys, nkeys, matchp, nmatch, flag, warn, results>>
  BY DEF SyncKeys, AllAt, Release
<1>3. TypeOK /\ TodoOK /\ PhaseInv /\ ZeroInv /\ ResultInv /\ ReportsAreRight /\ ReportedOnce
  BY DEF IInv
<1>4. PlaceInv(R, I) /\ ListInv(R, I, L)
  BY <1>1 DEF Body
<1> DEFINE J == I + 1
           K == keys[J]
<1>5. /\ R \in 1 .. Rounds
      /\ \A t \in Threads : round[t] = R /\ i[t] = J
  <2>1. \A t \in Threads : round[t] = R /\ i[t] = I + 1
    BY <1>2, <1>4 DEF PlaceInv
  <2>2. round[0] \in 1 .. Rounds + 1
    BY <1>3, Owner DEF TypeOK
  <2> QED
    BY <2>1, <2>2, Owner, Positive
<1>6. ~Counting(0) /\ pc[0] = "sync keys"
  BY <1>2, Owner DEF Counting
<1>7. J < L /\ Length = L
  <2>1. pc[0] # "sync zero"
    BY <1>6
  <2> QED
    BY <1>2, <1>4, <1>5, <1>6, <2>1, Owner, ListPlaces
<1>8. J \in 0 .. MAX_KEYS - 1 /\ K \in Keys
  <2>1. J \in 0 .. MAX_KEYS - 1
    BY <1>7, Positive
  <2> QED
    BY <1>3, <2>1 DEF TypeOK
<1> HIDE DEF J
<1>9. \A t \in Threads : pc'[t] = "match" /\ Matching(t)' /\ todo'[t] = Mine(t, input.match[R][K])
  BY <1>2, <1>5 DEF Matching
<1>10. TypeOK' /\ TodoOK'
  BY <1>2, <1>3 DEF TypeOK, TodoOK, Labels, results
<1>11. PhaseInv'
  BY <1>9 DEF PhaseInv
<1>12. ZeroInv'
  BY <1>9, Owner DEF ZeroInv
<1>13. ResultInv' /\ ReportsAreRight' /\ ReportedOnce'
  <2>1. ASSUME NEW t \in Threads
        PROVE  /\ InLoop(t)' <=> InLoop(t)
               /\ pc'[t] = "emit" <=> pc[t] = "emit"
               /\ pc[t] = "emit" => todo'[t] = todo[t]
    BY <1>2, <1>9 DEF InLoop, Matching, Testing, AmongKeys
  <2> QED
    BY <1>2, <1>3, <2>1, ResultStays
<1>14. PlaceInv(R, J)'
  <2>1. \A t \in Threads : /\ ~Counting(t)' /\ ~Ahead(t)'
                          /\ pc'[t] # "keys" /\ pc'[t] # "sync keys"
                          /\ pc'[t] # "zero" /\ pc'[t] # "sync zero" /\ pc'[t] # "exit"
    BY <1>9 DEF Counting, Ahead
  <2>2. \A t \in Threads : round'[t] = R /\ i'[t] = J
    BY <1>2, <1>5
  <2>3. J >= 0
    BY <1>8, Positive
  <2> QED
    BY <2>1, <2>2, <2>3 DEF PlaceInv
<1>15. ListInv(R, J, L)'
  <2>1. Length' = Length
    BY <1>2 DEF Length
  <2>2. /\ J < L
        /\ pc'[0] # "sync zero" => Length' = L
        /\ \A t \in Threads : Ahead(t)' => J + 1 = L
        /\ \A t \in Threads : pc'[t] = "sync keys" => J + 1 < L
    BY <1>7, <1>9, <2>1 DEF Ahead
  <2> QED
    BY <1>2, <1>4, <1>6, <2>2, ListKept
<1>16. MatchInv(R, J)'
  <2>1. /\ input.match[R][K] \subseteq Pairs
        /\ \A p \in Pairs : p % NumThreads \in Threads
    BY <1>3, <1>5, <1>8, InputType, Owner DEF TypeOK, Pairs
  <2>2. Matched(R, K)' = {}
    <3>1. ASSUME NEW p \in input.match[R][K]
          PROVE  p \in todo'[p % NumThreads]
      BY <1>9, <2>1 DEF Mine
    <3>2. \A p \in input'.match[R][keys'[J]] : p \in todo'[p % NumThreads]
      BY <1>2, <3>1
    <3> QED
      BY <3>2 DEF Matched
  <2>3. NumMatches' = 0
    BY <1>2, <1>3, <1>6, AtMostIs, Positive DEF NumMatches, ZeroInv
  <2>4. 0 .. NumMatches' - 1 = {}
    BY <2>3
  <2>5. ListsMatches(Matched(R, keys[J]))'
    BY <2>2, <2>4 DEF ListsMatches, IsInjectiveUpTo
  <2>6. \A t \in Threads : todo'[t] \subseteq Mine(t, input'.match[R][keys'[J]])
    BY <1>2, <1>9
  <2>7. \A t \in Threads : pc'[t] # "sync match"
    BY <1>9
  <2> QED
    BY <2>5, <2>6, <2>7 DEF MatchInv
<1>17. CountInv(R)' /\ TestInv(R, J)' /\ EmitInv(R, J)'
  BY <1>9, Owner DEF CountInv, TestInv, EmitInv, Counting, Testing
<1>18. Body(R, J, L)'
  BY <1>14, <1>15, <1>16, <1>17 DEF Body
<1>19. J \in -1 .. MAX_KEYS - 1
  BY <1>8, Positive
<1> QED
  BY <1>10, <1>11, <1>12, <1>13, <1>18, <1>19 DEF IInv

\* The barrier before testing: the list of matches is complete.
LEMMA SyncMatchStep ==
  ASSUME IInv, SyncMatch
  PROVE  IInv'
<1>1. PICK R \in 0 .. Rounds, I \in -1 .. MAX_KEYS - 1, L \in 0 .. MAX_KEYS : Body(R, I, L)
  BY DEF IInv
<1>2. /\ \A t \in Threads : pc[t] = "sync match"
      /\ pc' = [t \in Threads |-> "test"]
      /\ todo' = [t \in Threads |->
           UNION {{<<j, m>> : m \in input.middle[round[t]][keys[i[t]]][matchp[j]]} :
                    j \in Mine(t, 0 .. NumMatches - 1)}]
      /\ UNCHANGED <<input, round, i, count, keys, nkeys, matchp, nmatch, flag, warn, results>>
  BY DEF SyncMatch, AllAt, Release, NumMatches
<1>3. TypeOK /\ TodoOK /\ PhaseInv /\ ZeroInv /\ ResultInv /\ ReportsAreRight /\ ReportedOnce
  BY DEF IInv
<1>4. PlaceInv(R, I) /\ ListInv(R, I, L) /\ MatchInv(R, I)
  BY <1>1 DEF Body
<1> DEFINE K == keys[I]
<1>5. \A t \in Threads : Matching(t)
  BY <1>2 DEF Matching
<1>6. /\ R \in 1 .. Rounds /\ I \in 0 .. MAX_KEYS - 1 /\ K \in Keys
      /\ \A t \in Threads : round[t] = R /\ i[t] = I
  BY <1>3, <1>4, <1>5, Place, Owner
<1> HIDE DEF K
<1>7. \A t \in Threads : pc'[t] = "test" /\ Testing(t)'
  BY <1>2 DEF Testing
<1>8. TypeOK' /\ TodoOK'
  BY <1>2, <1>3 DEF TypeOK, TodoOK, Labels, results
<1>9. PhaseInv'
  BY <1>7 DEF PhaseInv
<1>10. ZeroInv'
  BY <1>7, Owner DEF ZeroInv
<1>11. ResultInv' /\ ReportsAreRight' /\ ReportedOnce'
  <2>1. ASSUME NEW t \in Threads
        PROVE  /\ InLoop(t)' <=> InLoop(t)
               /\ pc'[t] = "emit" <=> pc[t] = "emit"
               /\ pc[t] = "emit" => todo'[t] = todo[t]
    BY <1>2, <1>7 DEF InLoop, Matching, Testing, AmongKeys
  <2> QED
    BY <1>2, <1>3, <2>1, ResultStays
<1>12. PlaceInv(R, I)'
  <2>1. \A t \in Threads : /\ ~Counting(t)' /\ ~Ahead(t)'
                          /\ pc'[t] # "keys" /\ pc'[t] # "sync keys"
                          /\ pc'[t] # "zero" /\ pc'[t] # "sync zero" /\ pc'[t] # "exit"
    BY <1>7 DEF Counting, Ahead
  <2>2. \A t \in Threads : round'[t] = R /\ i'[t] = I
    BY <1>2, <1>6
  <2>3. I >= 0
    BY <1>6, Positive
  <2> QED
    BY <2>1, <2>2, <2>3 DEF PlaceInv
<1>13. ListInv(R, I, L)'
  <2>1. ~Counting(0) /\ ~Counting(0)' /\ pc[0] # "sync zero"
    BY <1>2, <1>7, Owner DEF Counting
  <2>2. Length' = Length
    BY <1>2 DEF Length
  <2>3. \A t \in Threads : ~Ahead(t)' /\ pc'[t] # "sync keys"
    BY <1>7 DEF Ahead
  <2>4. I < L /\ Length = L
    BY <1>4, <1>6, <2>1, ListPlaces
  <2> QED
    BY <1>2, <1>4, <2>1, <2>2, <2>3, <2>4, ListKept
<1>14. TestInv(R, I)'
  <2>1. /\ ListsMatches(Matched(R, keys[I]))
        /\ \A t \in Threads : todo[t] = {} /\ \A m \in Mine(t, Middle) : count[m] = 0
    BY <1>2, <1>4, <1>5, Owner DEF MatchInv
  <2>2. ListsMatches(input.match[R][K])
    <3>1. /\ input.match[R][K] \subseteq Pairs
          /\ \A p \in Pairs : p % NumThreads \in Threads
      BY <1>3, <1>6, InputType, Owner DEF TypeOK, Pairs
    <3>2. Matched(R, K) = input.match[R][K]
      BY <2>1, <3>1 DEF Matched
    <3> QED
      BY <2>1, <3>2 DEF K
  <2>3. NumMatches \in Nat /\ NumMatches' = NumMatches
    <3>1. nmatch \in Nat /\ MAX_MATCHES \in Nat
      BY <1>3, Positive DEF TypeOK
    <3>2. NumMatches \in 0 .. MAX_MATCHES
      BY <3>1, AtMostIs DEF NumMatches
    <3>3. NumMatches' = NumMatches
      BY <1>2 DEF NumMatches
    <3> QED
      BY <3>1, <3>2, <3>3
  <2>4. ListsMatches(input.match[R][keys[I]])'
    <3>1. /\ \A j \in 0 .. NumMatches - 1 : matchp[j] \in input.match[R][K]
          /\ \A a, b \in 0 .. NumMatches - 1 : matchp[a] = matchp[b] => a = b
          /\ ~warn => \A p \in input.match[R][K] : \E j \in 0 .. NumMatches - 1 : matchp[j] = p
      BY <2>2 DEF ListsMatches, IsInjectiveUpTo
    <3> QED
      BY <1>2, <2>3, <3>1 DEF ListsMatches, IsInjectiveUpTo, K
  <2>5. ASSUME NEW t \in Threads
        PROVE  todo'[t] = UNION {{<<j, m>> : m \in input.middle[R][K][matchp[j]]} :
                                   j \in Mine(t, 0 .. NumMatches - 1)}
    <3> DEFINE Work(r, k) == UNION {{<<j, m>> : m \in input.middle[r][k][matchp[j]]} :
                                      j \in Mine(t, 0 .. NumMatches - 1)}
    <3>1. todo'[t] = Work(round[t], keys[i[t]])
      BY <1>2, Zenon
    <3>2. round[t] = R /\ keys[i[t]] = K
      BY <1>6 DEF K
    <3> HIDE DEF Work
    <3>3. todo'[t] = Work(R, K)
      BY <3>1, <3>2
    <3> QED
      BY <3>3 DEF Work
  <2>6. ASSUME NEW t \in Threads, NEW h \in todo'[t]
        PROVE  /\ h \in (0 .. NumMatches - 1) \X Middle /\ h[1] % NumThreads = t
               /\ h[1] \in Suggesting(R, K, h[2])
    <3>1. PICK j \in Mine(t, 0 .. NumMatches - 1) :
            h \in {<<j, m>> : m \in input.middle[R][K][matchp[j]]}
      BY <2>5, <2>6
    <3>2. PICK m \in input.middle[R][K][matchp[j]] : h = <<j, m>>
      BY <3>1
    <3>3. j \in 0 .. NumMatches - 1 /\ j % NumThreads = t
      BY DEF Mine
    <3>4. matchp[j] \in Pairs
      BY <1>3, <1>6, <2>2, <3>3, InputType DEF ListsMatches, TypeOK
    <3>5. m \in Middle
      BY <1>3, <1>6, <3>2, <3>4, InputType DEF TypeOK
    <3>6. j \in Suggesting(R, keys[I], m)
      BY <3>2, <3>3 DEF Suggesting, K
    <3> QED
      BY <3>2, <3>3, <3>5, <3>6 DEF K
  <2>7. \A k, m : Suggesting(R, k, m)' = Suggesting(R, k, m)
    BY <1>2, <2>3 DEF Suggesting
  <2>8. \A m : Tested(R, keys[I], m)' = {}
    <3>1. ASSUME NEW m, NEW j \in Suggesting(R, K, m)
          PROVE  <<j, m>> \in todo'[j % NumThreads]
      <4>1. j \in 0 .. NumMatches - 1 /\ m \in input.middle[R][K][matchp[j]]
        BY DEF Suggesting, K
      <4>2. j % NumThreads \in Threads
        BY <2>3, <4>1, Owner
      <4>3. j \in Mine(j % NumThreads, 0 .. NumMatches - 1)
        BY <4>1 DEF Mine
      <4> QED
        BY <2>5, <4>1, <4>2, <4>3
    <3> QED
      BY <1>2, <2>7, <3>1 DEF Tested, K
  <2>9. \A m \in Middle : count'[m] = 0
    <3>1. ASSUME NEW m \in Middle
          PROVE  m % NumThreads \in Threads /\ m \in Mine(m % NumThreads, Middle)
      BY Owner DEF Middle, Mine
    <3> QED
      BY <1>2, <2>1, <3>1
  <2>10. \A m \in Middle : count'[m] = Cardinality(Tested(R, keys[I], m)')
    BY <2>8, <2>9, FS_EmptySet
  <2>11. flag' = (\E m \in Middle : count'[m] > tau2)
    <3>1. flag' = FALSE
      BY <1>2, <1>3, Owner DEF ZeroInv, TypeOK
    <3>2. ~(\E m \in Middle : count'[m] > tau2)
      BY <2>9, Positive
    <3> QED
      BY <3>1, <3>2
  <2>12. \A t \in Threads : \A h \in todo'[t] :
           /\ h \in (0 .. NumMatches' - 1) \X Middle /\ h[1] % NumThreads = t
           /\ h[1] \in Suggesting(R, keys[I], h[2])'
    <3>1. 0 .. NumMatches' - 1 = 0 .. NumMatches - 1
      BY <2>3
    <3>2. \A m : Suggesting(R, keys[I], m)' = Suggesting(R, K, m)
      BY <1>2, <2>7 DEF K
    <3> QED
      BY <2>6, <3>1, <3>2, Zenon
  <2> QED
    BY <1>7, <2>4, <2>10, <2>11, <2>12 DEF TestInv
<1>15. CountInv(R)' /\ MatchInv(R, I)' /\ EmitInv(R, I)'
  BY <1>7, Owner DEF CountInv, MatchInv, EmitInv, Counting, Matching
<1>16. Body(R, I, L)'
  BY <1>12, <1>13, <1>14, <1>15 DEF Body
<1> QED
  BY <1>8, <1>9, <1>10, <1>11, <1>16 DEF IInv

\* The barrier after testing: every counter has its final value.
LEMMA SyncTestStep ==
  ASSUME IInv, SyncTest
  PROVE  IInv'
<1>1. PICK R \in 0 .. Rounds, I \in -1 .. MAX_KEYS - 1, L \in 0 .. MAX_KEYS : Body(R, I, L)
  BY DEF IInv
<1>2. /\ \A t \in Threads : pc[t] = "sync test"
      /\ pc' = [t \in Threads |-> "emit"]
      /\ todo' = [t \in Threads |-> Mine(t, Middle)]
      /\ UNCHANGED <<input, round, i, count, keys, nkeys, matchp, nmatch, flag, warn, results>>
  BY DEF SyncTest, AllAt, Release
<1>3. TypeOK /\ TodoOK /\ PhaseInv /\ ZeroInv /\ ResultInv /\ ReportsAreRight /\ ReportedOnce
  BY DEF IInv
<1>4. PlaceInv(R, I) /\ ListInv(R, I, L) /\ TestInv(R, I)
  BY <1>1 DEF Body
<1> DEFINE K == keys[I]
<1>5. \A t \in Threads : Testing(t)
  BY <1>2 DEF Testing
<1>6. /\ R \in 1 .. Rounds /\ I \in 0 .. MAX_KEYS - 1 /\ K \in Keys
      /\ \A t \in Threads : round[t] = R /\ i[t] = I
      /\ input.match[R][K] \subseteq Pairs
  BY <1>3, <1>4, <1>5, Place, Owner
<1> HIDE DEF K
<1>7. \A t \in Threads : pc'[t] = "emit" /\ AmongKeys(t)' /\ todo'[t] = Mine(t, Middle)
  BY <1>2 DEF AmongKeys
<1>8. ~Counting(0)' /\ ~Matching(0)' /\ ~Testing(0)'
  BY <1>7, Owner DEF Counting, Matching, Testing
<1>9. TypeOK' /\ TodoOK'
  BY <1>2, <1>3 DEF TypeOK, TodoOK, Labels, results
<1>10. PhaseInv'
  BY <1>7 DEF PhaseInv
<1>11. ZeroInv'
  BY <1>7, Owner DEF ZeroInv
<1>12. ResultInv' /\ ReportsAreRight' /\ ReportedOnce'
  <2>1. ASSUME NEW t \in Threads, NEW r \in 1 .. Rounds, NEW k \in Keys, NEW m \in Middle,
               m % NumThreads = t
        PROVE  Past(t, r, k, m)' <=> Past(t, r, k, m)
    <3>1. InLoop(t) /\ InLoop(t)' /\ pc[t] # "emit" /\ pc'[t] = "emit"
      BY <1>2, <1>5, <1>7 DEF InLoop
    <3>2. m \in todo'[t]
      BY <1>7, <2>1 DEF Mine
    <3>3. round'[t] = round[t] /\ i'[t] = i[t] /\ keys' = keys
      BY <1>2
    <3> QED
      BY <3>1, <3>2, <3>3, Zenon DEF Past
  <2>2. ResultInv'
    BY <1>2, <1>3, <2>1, ResultKept
  <2> QED
    BY <1>2, <1>3, <2>2, ResultsKept
<1>13. PlaceInv(R, I)'
  <2>1. \A t \in Threads : /\ ~Counting(t)' /\ ~Ahead(t)'
                          /\ pc'[t] # "keys" /\ pc'[t] # "sync keys"
                          /\ pc'[t] # "zero" /\ pc'[t] # "sync zero" /\ pc'[t] # "exit"
    BY <1>7 DEF Counting, Ahead
  <2>2. \A t \in Threads : round'[t] = R /\ i'[t] = I
    BY <1>2, <1>6
  <2>3. I >= 0
    BY <1>6, Positive
  <2> QED
    BY <2>1, <2>2, <2>3 DEF PlaceInv
<1>14. ListInv(R, I, L)'
  <2>1. ~Counting(0) /\ pc[0] # "sync zero"
    BY <1>2, Owner DEF Counting
  <2>2. Length' = Length
    BY <1>2 DEF Length
  <2>3. \A t \in Threads : ~Ahead(t)' /\ pc'[t] # "sync keys"
    BY <1>7 DEF Ahead
  <2>4. I < L /\ Length = L
    BY <1>4, <1>6, <2>1, ListPlaces
  <2> QED
    BY <1>2, <1>4, <2>1, <2>2, <2>3, <2>4, ListKept
<1>15. EmitInv(R, I)'
  <2>1. /\ ListsMatches(input.match[R][K])
        /\ \A m \in Middle : count[m] = Cardinality(Tested(R, K, m))
        /\ flag = (\E m \in Middle : count[m] > tau2)
    BY <1>4, <1>5, Owner DEF TestInv, K
  <2>2. \A t \in Threads : todo[t] = {}
    BY <1>2, <1>4, <1>5, Owner DEF TestInv
  <2>3. NumMatches \in Nat
    <3>1. nmatch \in Nat /\ MAX_MATCHES \in Nat
      BY <1>3, Positive DEF TypeOK
    <3>2. NumMatches \in 0 .. MAX_MATCHES
      BY <3>1, AtMostIs DEF NumMatches
    <3> QED
      BY <3>1, <3>2
  <2>4. \A m : Tested(R, K, m) = Suggesting(R, K, m)
    <3>1. \A j \in 0 .. NumMatches - 1 : j % NumThreads \in Threads
      BY <2>3, Owner
    <3> QED
      BY <2>2, <3>1 DEF Tested, Suggesting
  <2>5. ASSUME NEW m \in Middle
        PROVE  /\ count[m] <= Matches(R, K, m)
               /\ ~warn => count[m] = Matches(R, K, m)
    <3> DEFINE S == {p \in input.match[R][K] : m \in input.middle[R][K][p]}
               J == Suggesting(R, K, m)
    <3>1. IsFiniteSet(S)
      BY <1>6, Finite
    <3>2. J \in SUBSET (0 .. NumMatches - 1)
      BY DEF Suggesting
    <3>3. \A j \in J : matchp[j] \in S
      BY <2>1 DEF Suggesting, ListsMatches
    <3>4. \A a, b \in J : matchp[a] = matchp[b] => a = b
      BY <2>1, <3>2 DEF ListsMatches, IsInjectiveUpTo
    <3>5. ~warn => \A p \in S : \E j \in J : matchp[j] = p
      <4>1. ASSUME ~warn, NEW p \in S
            PROVE  \E j \in J : matchp[j] = p
        <5>1. p \in input.match[R][K] /\ m \in input.middle[R][K][p]
          OBVIOUS
        <5>2. PICK j \in 0 .. NumMatches - 1 : matchp[j] = p
          BY <2>1, <4>1, <5>1 DEF ListsMatches
        <5>3. j \in J
          BY <5>1, <5>2 DEF Suggesting
        <5> QED
          BY <5>2, <5>3
      <4> QED
        BY <4>1
    <3>6. count[m] = Cardinality(J) /\ Matches(R, K, m) = Cardinality(S)
      BY <2>1, <2>4 DEF Matches
    <3> HIDE DEF S, J
    <3>7. /\ Cardinality(J) <= Cardinality(S)
          /\ (\A p \in S : \E j \in J : matchp[j] = p) => Cardinality(J) = Cardinality(S)
      BY <2>3, <3>1, <3>2, <3>3, <3>4, Listing
    <3> QED
      BY <3>5, <3>6, <3>7
  <2>6. \A m : Matches(R, keys[I], m)' = Matches(R, K, m)
    BY <1>2 DEF Matches, K
  <2>7. ~warn /\ (\E m \in Middle : Matches(R, K, m) > tau2) => flag
    BY <2>1, <2>5
  <2>8. \A t \in Threads : Mine(t, Middle) \subseteq Middle
    BY DEF Mine
  <2>9. /\ \A m \in Middle : count'[m] <= Matches(R, keys[I], m)'
        /\ ~warn' => \A m \in Middle : count'[m] = Matches(R, keys[I], m)'
        /\ ~warn' /\ (\E m \in Middle : Matches(R, keys[I], m)' > tau2) => flag'
    BY <1>2, <2>5, <2>6, <2>7, Zenon
  <2> QED
    BY <1>7, <2>8, <2>9 DEF EmitInv
<1>16. CountInv(R)' /\ MatchInv(R, I)' /\ TestInv(R, I)'
  BY <1>8 DEF CountInv, MatchInv, TestInv
<1>17. Body(R, I, L)'
  BY <1>13, <1>14, <1>15, <1>16 DEF Body
<1> QED
  BY <1>9, <1>10, <1>11, <1>12, <1>17 DEF IInv

-----------------------------------------------------------------------------
(* The theorems.                                                             *)

\* At the start all threads are ahead of a round 0 without keys.
LEMMA Start == Init => IInv
<1> SUFFICES ASSUME Init
             PROVE  IInv
  OBVIOUS
<1>1. \A t \in Threads : pc[t] = "zero" /\ round[t] = 1 /\ i[t] = 0 /\ todo[t] = {}
  BY DEF Init
<1>2. TypeOK
  <2>1. count \in [Words -> Nat]
    BY Positive DEF Init
  <2>2. keys \in [0 .. MAX_KEYS - 1 -> Keys] /\ matchp \in [0 .. MAX_MATCHES - 1 -> Pairs]
    BY Positive DEF Init, Keys, Pairs
  <2>3. round \in [Threads -> 1 .. Rounds + 1] /\ i \in [Threads -> 0 .. MAX_KEYS]
    BY Positive DEF Init
  <2>4. flag \in BOOLEAN /\ warn \in BOOLEAN
    BY Zenon DEF Init
  <2>5. input \in Inputs /\ pc \in [Threads -> Labels]
    BY DEF Init, Labels
  <2>6. nkeys \in Nat /\ nmatch \in Nat /\ num_candidates \in Nat
    BY DEF Init
  <2> QED
    BY <2>1, <2>2, <2>3, <2>4, <2>5, <2>6 DEF TypeOK
<1>3. TodoOK
  BY DEF Init, TodoOK
<1>4. \A t \in Threads : /\ Ahead(t) /\ ~Counting(t) /\ ~Matching(t) /\ ~Testing(t)
                        /\ ~AmongKeys(t) /\ ~InLoop(t)
  BY <1>1 DEF Ahead, Counting, Matching, Testing, AmongKeys, InLoop
<1>5. PhaseInv
  BY <1>4 DEF PhaseInv
<1>6. ZeroInv
  BY <1>1, Owner DEF ZeroInv
<1>7. candidates = {} /\ num_candidates = 0
  BY DEF Init
<1>8. ResultInv
  <2>1. \A m \in Middle : m % NumThreads \in Threads
    BY Owner DEF Middle
  <2>2. \A t \in Threads, r \in 1 .. Rounds : \A k, m : ~Past(t, r, k, m)
    BY <1>1, <1>4 DEF Past
  <2> QED
    BY <1>7, <2>1, <2>2, FS_EmptySet DEF ResultInv
<1>9. ReportsAreRight /\ ReportedOnce
  <2>1. Cardinality(candidates) = AtMost(num_candidates, MAX_CANDIDATES)
    BY <1>7, FS_EmptySet, AtMostIs, Positive
  <2> QED
    BY <1>7, <2>1 DEF ReportsAreRight, ReportedOnce
<1>10. Body(0, -1, 0)
  <2>1. PlaceInv(0, -1)
    <3>1. 0 < Rounds /\ 0 + 1 = 1 /\ -1 + 1 = 0
      BY Positive
    <3> QED
      BY <1>1, <1>4, <3>1 DEF PlaceInv
  <2>2. ListInv(0, -1, 0)
    <3>1. ~(0 >= 1)
      OBVIOUS
    <3> QED
      BY <3>1, Zenon DEF ListInv
  <2>3. CountInv(0) /\ MatchInv(0, -1) /\ TestInv(0, -1)
    BY <1>4, Owner DEF CountInv, MatchInv, TestInv
  <2>4. EmitInv(0, -1)
    BY <1>1 DEF EmitInv
  <2> QED
    BY <2>1, <2>2, <2>3, <2>4 DEF Body
<1>11. 0 \in 0 .. Rounds /\ -1 \in -1 .. MAX_KEYS - 1 /\ 0 \in 0 .. MAX_KEYS
  BY Positive
<1> QED
  BY <1>2, <1>3, <1>5, <1>6, <1>8, <1>9, <1>10, <1>11 DEF IInv

\* Nothing changes.
LEMMA StutterStep ==
  ASSUME IInv, UNCHANGED vars
  PROVE  IInv'
<1>1. PICK R \in 0 .. Rounds, I \in -1 .. MAX_KEYS - 1, L \in 0 .. MAX_KEYS : Body(R, I, L)
  BY DEF IInv
<1>2. /\ UNCHANGED <<input, pc, round, i, todo, count, keys, nkeys>>
      /\ UNCHANGED <<matchp, nmatch, flag, warn, candidates, num_candidates>>
  BY DEF vars, results
<1>3. TypeOK' /\ TodoOK' /\ PhaseInv' /\ ZeroInv' /\ ReportsAreRight' /\ ReportedOnce'
  <2>1. TypeOK' /\ TodoOK'
    BY <1>2 DEF IInv, TypeOK, TodoOK
  <2>2. PhaseInv'
    BY <1>2 DEF IInv, PhaseInv, Counting, Matching, Testing, AmongKeys, Ahead
  <2>3. ZeroInv'
    BY <1>2 DEF IInv, ZeroInv
  <2>4. ReportsAreRight' /\ ReportedOnce'
    BY <1>2 DEF IInv, ReportsAreRight, ReportedOnce, Suggestions, Matches
  <2> QED
    BY <2>1, <2>2, <2>3, <2>4
<1>4. ResultInv'
  <2>1. ASSUME NEW t \in Threads
        PROVE  \A r, k, m : Past(t, r, k, m)' <=> Past(t, r, k, m)
    <3>1. (InLoop(t)' <=> InLoop(t)) /\ pc'[t] = pc[t] /\ todo'[t] = todo[t]
      BY <1>2 DEF InLoop, Matching, Testing, AmongKeys
    <3> QED
      BY <1>2, <3>1, Zenon DEF Past
  <2> QED
    BY <1>2, <2>1, ResultKept DEF IInv, results
<1>5. Body(R, I, L)'
  <2>1. PlaceInv(R, I)'
    BY <1>1, <1>2 DEF Body, PlaceInv, Counting, Matching, Testing, Ahead
  <2>2. Length' = Length /\ NumMatches' = NumMatches
    BY <1>2 DEF Length, NumMatches
  <2>3. (Counting(0)' <=> Counting(0)) /\ (Matching(0)' <=> Matching(0)) /\ (Testing(0)' <=> Testing(0))
    BY <1>2 DEF Counting, Matching, Testing
  <2>4. CountInv(R)'
    <3>1. \A k : Counted(R, k)' = Counted(R, k)
      BY <1>2 DEF Counted
    <3> QED
      <4>1. \A k : Hits(R, k)' = Hits(R, k)
        BY <3>1 DEF Hits
      <4>2. \A n : Hits(R, keys[n])' = Hits(R, keys[n])
        BY <1>2, <3>1 DEF Hits, Counted
      <4>3. CountInv(R)
        BY <1>1 DEF Body
      <4>4. (Different(Length)' <=> Different(Length)) /\ (Complete' <=> Complete)
        BY <1>2, <2>2 DEF Different, Complete
      <4>5. SUFFICES ASSUME Counting(0)
                     PROVE  CountInv(R)'
        BY <2>3 DEF CountInv
      <4>6. /\ \A k \in Keys : count'[k] = AtMost(Hits(R, k)', Saturation)
            /\ tau1 > Saturation + 1 => Length' = 0
        <5>1. /\ \A k \in Keys : count[k] = AtMost(Hits(R, k), Saturation)
              /\ tau1 > Saturation + 1 => Length = 0
          BY <4>3, <4>5 DEF CountInv
        <5> QED
          BY <1>2, <2>2, <4>1, <5>1
      <4>7. \A n \in 0 .. Length' - 1 : Hits(R, keys[n])' >= tau1
        <5>1. \A n \in 0 .. Length - 1 : Hits(R, keys[n]) >= tau1
          BY <4>3, <4>5 DEF CountInv
        <5> QED
          BY <2>2, <4>2, <5>1
      <4>8. Complete' =>
              \A k \in Keys : Hits(R, k)' >= tau1 => \E n \in 0 .. Length' - 1 : keys'[n] = k
        BY <1>2, <2>2, <4>1, <4>3, <4>4, <4>5 DEF CountInv
      <4>9. /\ \A t \in Threads : \A h \in todo'[t] :
                 /\ h \in Pairs \X Keys /\ h[1] % NumThreads = t
                 /\ h[2] \in input'.hits[R][h[1]]
            /\ \A t \in Threads : pc'[t] = "sync count" => todo'[t] = {}
            /\ Different(Length)'
        BY <1>2, <4>3, <4>4, <4>5 DEF CountInv
      <4> QED
        BY <4>6, <4>7, <4>8, <4>9 DEF CountInv
  <2>5. ListInv(R, I, L)'
    <3>1. ListInv(R, I, L)
      BY <1>1 DEF Body
    <3>2. (Different(L)' <=> Different(L)) /\ (Complete' <=> Complete)
      BY <1>2 DEF Different, Complete
    <3> QED
      BY <1>2, <2>2, <2>3, <3>1, <3>2 DEF ListInv, Suggestions, Ahead
  <2>6. MatchInv(R, I)'
    <3>1. \A k : Matched(R, k)' = Matched(R, k)
      BY <1>2 DEF Matched
    <3>2. ListsMatches(Matched(R, keys[I]))' <=> ListsMatches(Matched(R, keys[I]))
      BY <1>2, <2>2, <3>1 DEF ListsMatches, IsInjectiveUpTo
    <3>3. MatchInv(R, I)
      BY <1>1 DEF Body
    <3>4. SUFFICES ASSUME Matching(0)
                   PROVE  MatchInv(R, I)'
      BY <2>3 DEF MatchInv
    <3>5. /\ ListsMatches(Matched(R, keys[I]))'
          /\ \A t \in Threads : todo'[t] \subseteq Mine(t, input'.match[R][keys'[I]])
          /\ \A t \in Threads : pc'[t] = "sync match" =>
               todo'[t] = {} /\ \A m \in Mine(t, Middle) : count'[m] = 0
      BY <1>2, <3>2, <3>3, <3>4 DEF MatchInv
    <3> QED
      BY <3>5 DEF MatchInv
  <2>7. TestInv(R, I)'
    <3>1. \A k, m : Suggesting(R, k, m)' = Suggesting(R, k, m)
      BY <1>2, <2>2 DEF Suggesting
    <3>2. \A k, m : Tested(R, k, m)' = Tested(R, k, m)
      BY <1>2, <3>1 DEF Tested
    <3>3. ListsMatches(input.match[R][keys[I]])' <=> ListsMatches(input.match[R][keys[I]])
      BY <1>2, <2>2 DEF ListsMatches, IsInjectiveUpTo
    <3>4. TestInv(R, I)
      BY <1>1 DEF Body
    <3>5. SUFFICES ASSUME Testing(0)
                   PROVE  TestInv(R, I)'
      BY <2>3 DEF TestInv
    <3>6. /\ ListsMatches(input.match[R][keys[I]])'
          /\ \A t \in Threads : pc'[t] = "sync test" => todo'[t] = {}
      BY <1>2, <3>3, <3>4, <3>5 DEF TestInv
    <3>7. \A t \in Threads : \A h \in todo'[t] :
            /\ h \in (0 .. NumMatches' - 1) \X Middle /\ h[1] % NumThreads = t
            /\ h[1] \in Suggesting(R, keys[I], h[2])'
      <4>1. \A t \in Threads : \A h \in todo[t] :
              /\ h \in (0 .. NumMatches - 1) \X Middle /\ h[1] % NumThreads = t
              /\ h[1] \in Suggesting(R, keys[I], h[2])
        BY <3>4, <3>5 DEF TestInv
      <4>2. \A m : Suggesting(R, keys[I], m)' = Suggesting(R, keys[I], m)
        BY <1>2, <3>1
      <4> QED
        BY <1>2, <2>2, <4>1, <4>2
    <3>8. \A m \in Middle : count'[m] = Cardinality(Tested(R, keys[I], m)')
      BY <1>2, <3>2, <3>4, <3>5 DEF TestInv
    <3>9. flag' = (\E m \in Middle : count'[m] > tau2)
      BY <1>2, <3>4, <3>5, Zenon DEF TestInv
    <3> QED
      BY <3>6, <3>7, <3>8, <3>9 DEF TestInv
  <2>8. EmitInv(R, I)'
    BY <1>1, <1>2 DEF Body, EmitInv, Matches
  <2> QED
    BY <2>1, <2>4, <2>5, <2>6, <2>7, <2>8 DEF Body
<1> QED
  BY <1>3, <1>4, <1>5 DEF IInv

\* The invariant holds in every state of the block.
THEOREM Invariance == Spec => []IInv
<1>1. IInv /\ [Next]_vars => IInv'
  <2> SUFFICES ASSUME IInv, [Next]_vars
               PROVE  IInv'
    OBVIOUS
  <2>1. ASSUME NEW t \in Threads, Thread(t)
        PROVE  IInv'
    BY <2>1, ZeroStep, CountStep, EndCountStep, NextKeyStep, NextRoundStep, MatchStep,
       EndMatchStep, TestStep, EndTestStep, EmitStep, EndEmitStep DEF Thread
  <2>2. CASE Sync
    BY <2>2, SyncZeroStep, SyncCountStep, SyncKeysStep, SyncMatchStep, SyncTestStep DEF Sync
  <2>3. CASE UNCHANGED vars
    BY <2>3, StutterStep
  <2> QED
    BY <2>1, <2>2, <2>3 DEF Next
<1> QED
  BY <1>1, Start, PTL DEF Spec

\* Every variable keeps its type, for any number of threads, pairs and keys: no
\* thread writes behind the end of the lists in shared memory.
THEOREM TypeCorrect == Spec => []TypeOK
<1>1. IInv => TypeOK
  BY DEF IInv
<1> QED
  BY <1>1, Invariance, PTL

\* What the block reports is right: the key has its tau1 suggestions, the middle
\* byte its tau2, and without a warning the count is the true one.
THEOREM ReportsCorrect == Spec => []ReportsAreRight
<1>1. IInv => ReportsAreRight
  BY DEF IInv
<1> QED
  BY <1>1, Invariance, PTL

\* No candidate is reported twice, whatever the threads' speeds, unless tau1 is
\* the one value that a saturated counter goes on returning; and every report
\* takes a slot of the buffer as long as there is one.
THEOREM NoneReportedTwice == Spec => []ReportedOnce
<1>1. IInv => ReportedOnce
  BY DEF IInv
<1> QED
  BY <1>1, Invariance, PTL

\* With tau1 above the saturation of the counters: no report and no warning.
Silent == tau1 > Saturation + 1 => ~warn /\ candidates = {}

\* Above the saturation of the counters a block reports nothing, whatever the
\* pairs suggest, and does not warn: atomicInc5 and atomicInc8 return at most
\* Saturation + 1, so that no increment compares equal to tau1.
THEOREM SilentAboveSaturation == Spec => []Silent
<1>1. Init => Silent
  BY Zenon DEF Init, Silent
<1>2. IInv /\ Silent /\ [Next]_vars => Silent'
  <2> SUFFICES ASSUME IInv, [Next]_vars, tau1 > Saturation + 1, ~warn /\ candidates = {}
               PROVE  ~warn' /\ candidates' = {}
    BY DEF Silent
  <2>1. PICK R \in 0 .. Rounds, I \in -1 .. MAX_KEYS - 1, L \in 0 .. MAX_KEYS : Body(R, I, L)
    BY DEF IInv
  <2>2. TypeOK /\ PhaseInv /\ PlaceInv(R, I) /\ CountInv(R) /\ ListInv(R, I, L)
    BY <2>1 DEF IInv, Body
  <2>3. \A t \in Threads : pc[t] # "match" /\ pc[t] # "emit"
    <3>1. ASSUME NEW t \in Threads, pc[t] \in {"match", "emit"}
          PROVE  FALSE
      <4>1. R \in 1 .. Rounds /\ I \in 0 .. MAX_KEYS - 1
        BY <2>2, <3>1, Place DEF Matching
      <4>2. ~Counting(0)
        BY <2>2, <3>1, Phases DEF Matching, Counting
      <4>3. I < L /\ L = 0
        <5>1. R >= 1
          BY <4>1, Positive
        <5> QED
          BY <2>2, <4>2, <5>1 DEF ListInv
      <4> QED
        BY <4>1, <4>3, Positive
    <3> QED
      BY <3>1
  <2>4. ASSUME NEW t \in Threads, Count(t)
        PROVE  UNCHANGED warn
    <3>1. PICK h \in todo[t] :
            \/ UNCHANGED warn
            \/ count[h[2]] + 1 = tau1
      BY <2>4, Zenon DEF Count
    <3>2. Counting(0)
      BY <2>2, <2>4, Phases DEF Count, Counting
    <3>3. h[2] \in Keys
      <4>1. h \in Pairs \X Keys
        BY <2>2, <3>2 DEF CountInv
      <4> QED
        BY <4>1
    <3>4. count[h[2]] = AtMost(Hits(R, h[2]), Saturation) /\ Hits(R, h[2]) \in Nat
      BY <2>2, <3>2, <3>3, Finite DEF CountInv, Hits, Counted
    <3>5. count[h[2]] \in 0 .. Saturation
      BY <3>4, AtMostIs, Positive
    <3> QED
      BY <3>1, <3>5, Positive
  <2>5. ASSUME NEW t \in Threads, Thread(t)
        PROVE  UNCHANGED <<warn, candidates>>
    <3>1. CASE Count(t)
      BY <2>4, <3>1 DEF Count, results
    <3>2. CASE Match(t) \/ Emit(t)
      BY <2>3, <3>2 DEF Match, Emit
    <3> QED
      BY <2>5, <3>1, <3>2 DEF Thread, Zero, EndCount, NextKey, NextRound, EndMatch, Test,
                             EndTest, EndEmit, results
  <2>6. CASE Sync
    <3>1. UNCHANGED <<warn, candidates>>
      BY <2>6 DEF Sync, SyncZero, SyncCount, SyncKeys, SyncMatch, SyncTest, results
    <3> QED
      BY <3>1
  <2>7. CASE UNCHANGED vars
    BY <2>7 DEF vars
  <2> QED
    BY <2>5, <2>6, <2>7 DEF Next
<1> QED
  BY <1>1, <1>2, Invariance, PTL DEF Spec

\* A block that is done and did not warn has reported all that is due if the
\* counters can return tau1, and none of it otherwise.
THEOREM NothingMissed == Spec => []NoneMissed
<1>1. IInv /\ Silent => NoneMissed
  <2> SUFFICES ASSUME IInv, Silent, Ended, ~warn,
                      NEW r \in 1 .. Rounds, NEW k \in Keys, NEW m \in Middle, Due(r, k, m)
               PROVE  (<<r, k, m, Matches(r, k, m)>> \in candidates) = (tau1 <= Saturation + 1)
    BY DEF NoneMissed
  <2>1. PICK R \in 0 .. Rounds, I \in -1 .. MAX_KEYS - 1, L \in 0 .. MAX_KEYS : Body(R, I, L)
    BY DEF IInv
  <2>2. m % NumThreads \in Threads
    BY Owner DEF Middle
  <2>3. pc[m % NumThreads] = "exit"
    BY <2>2 DEF Ended, AllAt
  <2>4. round[m % NumThreads] = Rounds + 1
    BY <2>1, <2>2, <2>3 DEF Body, PlaceInv, Ahead
  <2>5. r < Rounds + 1
    BY Positive
  <2>6. Past(m % NumThreads, r, k, m)
    BY <2>4, <2>5 DEF Past
  <2>7. CASE tau1 <= Saturation + 1
    BY <2>6, <2>7 DEF IInv, ResultInv, Complete
  <2>8. CASE tau1 > Saturation + 1
    <3>1. candidates = {}
      BY <2>8 DEF Silent
    <3> QED
      BY <2>8, <3>1, Positive
  <2> QED
    BY <2>7, <2>8, Positive
<1> QED
  BY <1>1, Invariance, SilentAboveSaturation, PTL

\* No barrier is diverged: threads that can wait together are in the same round
\* and at the same key.
THEOREM BarriersNotDiverged == Spec => []Agreement
<1>1. IInv => Agreement
  <2> SUFFICES ASSUME IInv, NEW t \in Threads, NEW u \in Threads
               PROVE  /\ pc[t] \in {"sync zero", "count", "sync count"} /\ pc[t] = pc[u] =>
                           round[t] = round[u]
                      /\ InKeyLoop(t) /\ pc[t] = pc[u] => round[t] = round[u] /\ i[t] = i[u]
                      /\ pc[t] \in {"count", "sync count"} => pc[u] \in {"count", "sync count"}
                      /\ pc[t] \in {"match", "sync match"} => pc[u] \in {"match", "sync match"}
                      /\ pc[t] \in {"test", "sync test"} => pc[u] \in {"test", "sync test"}
    BY DEF Agreement
  <2>1. PICK R \in 0 .. Rounds, I \in -1 .. MAX_KEYS - 1, L \in 0 .. MAX_KEYS : Body(R, I, L)
    BY DEF IInv
  <2>2. \A a \in {t, u} :
          /\ Counting(a) => round[a] = R
          /\ Matching(a) \/ Testing(a) => round[a] = R /\ i[a] = I
          /\ pc[a] = "sync keys" => round[a] = R /\ i[a] = I + 1
          /\ Ahead(a) => round[a] = R + 1
    BY <2>1 DEF Body, PlaceInv
  <2>3. /\ Counting(t) <=> Counting(u)
        /\ Matching(t) <=> Matching(u)
        /\ Testing(t) <=> Testing(u)
    BY Phases DEF IInv
  <2> QED
    BY <2>2, <2>3 DEF InKeyLoop, Counting, Matching, Testing, Ahead
<1> QED
  BY <1>1, Invariance, PTL
=============================================================================
