------------------------------ MODULE CtAttack3Kernel ------------------------------
(*****************************************************************************)
(* One block of the CUDA kernel ct_attack3.  Its threads go through the      *)
(* block's values of rk9; for each they count the partial keys that the      *)
(* pairs suggest, list those that reach tau1, and for every listed key count *)
(* the middle bytes of the pairs that match it and report those that reach   *)
(* tau2.  Phases are separated by __syncthreads, but not all of them: there  *)
(* is no barrier between reporting and what follows, and the middle-byte     *)
(* counters lie in the memory of the partial-key counters.                   *)
(*                                                                           *)
(* What a pair suggests is input: hits[r][p] are the partial keys of pair p  *)
(* in round r, match[r][k] the pairs with the right x7_0 and x7_2 for key k, *)
(* middle[r][k][p] the middle bytes pair p then suggests.  The increments    *)
(* are atomic (PackedCounters).  The counters of partial keys saturate, and  *)
(* nothing keeps tau1 below the value where they do.                         *)
(*                                                                           *)
(* Other blocks report into the same buffer.  What they leave of it to this  *)
(* block is a constant: the slots are taken in order.                        *)
(*****************************************************************************)
EXTENDS Integers, FiniteSets

CONSTANTS
  NumThreads,   \* blockDim.x
  Rounds,       \* values of rk9n01 the block goes through
  NumPairs,     \* num_pairs
  NumKeys,      \* partial keys, 0x10000 in the code
  NumMiddle,    \* middle bytes, 256 in the code
  Inputs,       \* the inputs to choose from, records with hits, match, middle
  tau1, tau2,
  Saturation,   \* where a counter stops: 31 (atomicInc5) or 255 (atomicInc8)
  MAX_KEYS, MAX_MATCHES,
  MAX_CANDIDATES  \* the slots of candidates that are left to the block

Threads == 0 .. NumThreads - 1
Pairs == 0 .. NumPairs - 1
Keys == 0 .. NumKeys - 1
Middle == 0 .. NumMiddle - 1
Words == Keys \cup Middle   \* the count array; k1count is its beginning

ASSUME KernelAssumption ==
  /\ {NumThreads, Rounds, NumPairs, NumKeys, NumMiddle, tau1, tau2,
      Saturation, MAX_KEYS, MAX_MATCHES} \subseteq Nat \ {0}
  /\ MAX_CANDIDATES \in Nat
  /\ \A in \in Inputs :
       /\ in.hits \in [1 .. Rounds -> [Pairs -> SUBSET Keys]]
       /\ in.match \in [1 .. Rounds -> [Keys -> SUBSET Pairs]]
       /\ in.middle \in [1 .. Rounds -> [Keys -> [Pairs -> SUBSET Middle]]]
       /\ \A r \in 1 .. Rounds, p \in Pairs :
            \A k \in in.hits[r][p] : p \in in.match[r][k]

VARIABLES
  input,       \* the suggestions of the pairs
  pc,          \* where each thread is
  round,       \* the round each thread is in
  i,           \* each thread's index into keys
  todo,        \* the iterations each thread has left in its phase
  count,       \* counters in shared memory
  keys, nkeys,      \* partial keys that reached tau1
  matchp, nmatch,   \* matching pairs for the current key
  flag,        \* shall the middle-byte counters be looked at?
  warn,
  candidates, num_candidates  \* <<round, key, middle byte, matching pairs>>

vars == <<input, pc, round, i, todo, count, keys, nkeys, matchp, nmatch, flag,
          warn, candidates, num_candidates>>
results == <<candidates, num_candidates>>

Goto(t, label) == pc' = [pc EXCEPT ![t] = label]

\* for (j = threadIdx.x; j < n; j += blockDim.x)
Mine(t, S) == {x \in S : x % NumThreads = t}
AtMost(n, bound) == IF n < bound THEN n ELSE bound

Init ==
  /\ input \in Inputs
  /\ pc = [t \in Threads |-> "zero"]
  /\ round = [t \in Threads |-> 1]
  /\ i = [t \in Threads |-> 0]
  /\ todo = [t \in Threads |-> {}]
  /\ count \in {[w \in Words |-> 0], [w \in Words |-> Saturation]}
  /\ keys = [n \in 0 .. MAX_KEYS - 1 |-> 0]
  /\ nkeys \in {0, 1}
  /\ matchp = [n \in 0 .. MAX_MATCHES - 1 |-> 0]
  /\ nmatch = 0
  /\ flag \in BOOLEAN
  /\ warn = FALSE
  /\ candidates = {}
  /\ num_candidates = 0

\* Fault: the counters are divided among the threads in runs, not in strides.
Zeroed_InRuns(t) ==
  {w \in Words : w \div ((Cardinality(Words) + NumThreads - 1) \div NumThreads) = t}

\* The counters a thread clears.
Zeroed(t) == Mine(t, Words)

\* A new round: clear the counters and the list; v8 is computed.
Zero(t) ==
  /\ pc[t] = "zero"
  /\ count' = [w \in Words |-> IF w \in Zeroed(t) THEN 0 ELSE count[w]]
  /\ nkeys' = IF t = 0 THEN 0 ELSE nkeys
  /\ Goto(t, "sync zero")
  /\ UNCHANGED <<input, round, i, todo, keys, matchp, nmatch, flag, warn, results>>

\* One suggestion of one of the thread's pairs, counted by atomicInc5 or
\* atomicInc8, which return the value before saturation, and compared.
Count(t) ==
  /\ pc[t] = "count"
  /\ \E h \in todo[t] :
       LET k == h[2] IN
       /\ todo' = [todo EXCEPT ![t] = @ \ {h}]
       /\ count' = [count EXCEPT ![k] = AtMost(@ + 1, Saturation)]
       /\ \/ /\ count[k] + 1 # tau1
             /\ UNCHANGED <<keys, nkeys, warn>>
          \/ /\ count[k] + 1 = tau1
             /\ nkeys' = nkeys + 1
             /\ \/ nkeys < MAX_KEYS /\ keys' = [keys EXCEPT ![nkeys] = k] /\ UNCHANGED warn
                \/ nkeys >= MAX_KEYS /\ warn' = TRUE /\ UNCHANGED keys
  /\ UNCHANGED <<input, pc, round, i, matchp, nmatch, flag, results>>

EndCount(t) ==
  /\ pc[t] = "count"
  /\ todo[t] = {}
  /\ Goto(t, "sync count")
  /\ UNCHANGED <<input, round, i, todo, count, keys, nkeys, matchp, nmatch, flag, warn, results>>

\* The loop over the listed keys: x702 is computed, thread 0 clears nmatch.
NextKey(t) ==
  /\ pc[t] = "keys"
  /\ i[t] < AtMost(nkeys, MAX_KEYS)
  /\ nmatch' = IF t = 0 THEN 0 ELSE nmatch
  /\ Goto(t, "sync keys")
  /\ UNCHANGED <<input, round, i, todo, count, keys, nkeys, matchp, flag, warn, results>>

NextRound(t) ==
  /\ pc[t] = "keys"
  /\ i[t] >= AtMost(nkeys, MAX_KEYS)
  /\ round' = [round EXCEPT ![t] = @ + 1]
  /\ Goto(t, IF round[t] < Rounds THEN "zero" ELSE "exit")
  /\ UNCHANGED <<input, i, todo, count, keys, nkeys, matchp, nmatch, flag, warn, results>>

\* Fault: the list of matches is written without looking at its length.
Match_Unbounded(t) ==
  /\ pc[t] = "match"
  /\ \E p \in todo[t] :
       /\ todo' = [todo EXCEPT ![t] = @ \ {p}]
       /\ nmatch' = nmatch + 1
       /\ matchp' = [n \in DOMAIN matchp \cup {nmatch} |->
                       IF n = nmatch THEN p ELSE matchp[n]]
  /\ UNCHANGED <<input, pc, round, i, count, keys, nkeys, flag, warn, results>>

\* One of the thread's pairs matches the key.
Match(t) ==
  /\ pc[t] = "match"
  /\ \E p \in todo[t] :
       /\ todo' = [todo EXCEPT ![t] = @ \ {p}]
       /\ nmatch' = nmatch + 1
       /\ \/ nmatch < MAX_MATCHES /\ matchp' = [matchp EXCEPT ![nmatch] = p] /\ UNCHANGED warn
          \/ nmatch >= MAX_MATCHES /\ warn' = TRUE /\ UNCHANGED matchp
  /\ UNCHANGED <<input, pc, round, i, count, keys, nkeys, flag, results>>

\* Fault: only the first key of a round finds the middle-byte counters cleared.
EndMatch_NoReset(t) ==
  /\ pc[t] = "match"
  /\ todo[t] = {}
  /\ count' = [w \in Words |-> IF i[t] = 0 /\ w \in Mine(t, Middle) THEN 0 ELSE count[w]]
  /\ flag' = IF t = 0 THEN FALSE ELSE flag
  /\ Goto(t, "sync match")
  /\ UNCHANGED <<input, round, i, todo, keys, nkeys, matchp, nmatch, warn, results>>

\* After its pairs a thread clears its middle-byte counters, thread 0 flag.
EndMatch(t) ==
  /\ pc[t] = "match"
  /\ todo[t] = {}
  /\ count' = [w \in Words |-> IF w \in Mine(t, Middle) THEN 0 ELSE count[w]]
  /\ flag' = IF t = 0 THEN FALSE ELSE flag
  /\ Goto(t, "sync match")
  /\ UNCHANGED <<input, round, i, todo, keys, nkeys, matchp, nmatch, warn, results>>

\* One middle byte of one match: the flag is raised when the value before the
\* increment is tau2.
Test(t) ==
  /\ pc[t] = "test"
  /\ \E h \in todo[t] :
       /\ todo' = [todo EXCEPT ![t] = @ \ {h}]
       /\ count' = [count EXCEPT ![h[2]] = @ + 1]
       /\ flag' = (flag \/ count[h[2]] = tau2)
  /\ UNCHANGED <<input, pc, round, i, keys, nkeys, matchp, nmatch, warn, results>>

EndTest(t) ==
  /\ pc[t] = "test"
  /\ todo[t] = {}
  /\ Goto(t, "sync test")
  /\ UNCHANGED <<input, round, i, todo, count, keys, nkeys, matchp, nmatch, flag, warn, results>>

\* One middle byte: reported if it reached tau2 and the flag is up.
Emit(t) ==
  /\ pc[t] = "emit"
  /\ \E m \in todo[t] :
       /\ todo' = [todo EXCEPT ![t] = @ \ {m}]
       /\ \/ /\ flag /\ count[m] >= tau2
             /\ num_candidates' = num_candidates + 1
             /\ \/ /\ num_candidates < MAX_CANDIDATES
                   /\ candidates' = candidates \cup {<<round[t], keys[i[t]], m, count[m]>>}
                   /\ UNCHANGED warn
                \/ /\ num_candidates >= MAX_CANDIDATES
                   /\ warn' = TRUE
                   /\ UNCHANGED candidates
          \/ /\ ~(flag /\ count[m] >= tau2)
             /\ UNCHANGED <<results, warn>>
  /\ UNCHANGED <<input, pc, round, i, count, keys, nkeys, matchp, nmatch, flag>>

\* The end of the loop body: no barrier.
EndEmit(t) ==
  /\ pc[t] = "emit"
  /\ todo[t] = {}
  /\ i' = [i EXCEPT ![t] = @ + 1]
  /\ Goto(t, "keys")
  /\ UNCHANGED <<input, round, todo, count, keys, nkeys, matchp, nmatch, flag, warn, results>>

-----------------------------------------------------------------------------
\* __syncthreads, once all threads wait at it; the work of the next phase.
AllAt(label) == \A t \in Threads : pc[t] = label
Release(label, work) ==
  /\ pc' = [t \in Threads |-> label]
  /\ todo' = work

SyncZero ==
  /\ AllAt("sync zero")
  /\ Release("count", [t \in Threads |->
       UNION {{<<p, k>> : k \in input.hits[round[t]][p]} : p \in Mine(t, Pairs)}])
  /\ UNCHANGED <<input, round, i, count, keys, nkeys, matchp, nmatch, flag, warn, results>>

\* Fault: no barrier after counting.
SyncCount_Missing ==
  /\ \E t \in Threads :
       /\ pc[t] = "sync count"
       /\ Goto(t, "keys")
       /\ i' = [i EXCEPT ![t] = 0]
  /\ UNCHANGED <<input, round, todo, count, keys, nkeys, matchp, nmatch, flag, warn, results>>

SyncCount ==
  /\ AllAt("sync count")
  /\ Release("keys", [t \in Threads |-> {}])
  /\ i' = [t \in Threads |-> 0]
  /\ UNCHANGED <<input, round, count, keys, nkeys, matchp, nmatch, flag, warn, results>>

SyncKeys ==
  /\ AllAt("sync keys")
  /\ Release("match", [t \in Threads |-> Mine(t, input.match[round[t]][keys[i[t]]])])
  /\ UNCHANGED <<input, round, i, count, keys, nkeys, matchp, nmatch, flag, warn, results>>

SyncMatch ==
  /\ AllAt("sync match")
  /\ Release("test", [t \in Threads |->
       UNION {{<<j, m>> : m \in input.middle[round[t]][keys[i[t]]][matchp[j]]} :
                j \in Mine(t, 0 .. AtMost(nmatch, MAX_MATCHES) - 1)}])
  /\ UNCHANGED <<input, round, i, count, keys, nkeys, matchp, nmatch, flag, warn, results>>

\* Fault: every thread goes over all middle bytes.
SyncTest_NoStride ==
  /\ AllAt("sync test")
  /\ Release("emit", [t \in Threads |-> Middle])
  /\ UNCHANGED <<input, round, i, count, keys, nkeys, matchp, nmatch, flag, warn, results>>

SyncTest ==
  /\ AllAt("sync test")
  /\ Release("emit", [t \in Threads |-> Mine(t, Middle)])
  /\ UNCHANGED <<input, round, i, count, keys, nkeys, matchp, nmatch, flag, warn, results>>

Thread(t) ==
  \/ Zero(t) \/ Count(t) \/ EndCount(t) \/ NextKey(t) \/ NextRound(t)
  \/ Match(t) \/ EndMatch(t) \/ Test(t) \/ EndTest(t) \/ Emit(t) \/ EndEmit(t)
Sync == SyncZero \/ SyncCount \/ SyncKeys \/ SyncMatch \/ SyncTest
Ended == AllAt("exit")
Next == (\E t \in Threads : Thread(t)) \/ Sync \/ (Ended /\ UNCHANGED vars)

Spec == Init /\ [][Next]_vars
-----------------------------------------------------------------------------
(* Properties.                                                               *)

Labels == {"zero", "sync zero", "count", "sync count", "keys", "sync keys",
           "match", "sync match", "test", "sync test", "emit", "exit"}

\* Every variable has its type; lists never grow past their arrays.
TypeOK ==
  /\ input \in Inputs
  /\ pc \in [Threads -> Labels]
  /\ round \in [Threads -> 1 .. Rounds + 1]
  /\ i \in [Threads -> 0 .. MAX_KEYS]
  /\ count \in [Words -> Nat]
  /\ keys \in [0 .. MAX_KEYS - 1 -> Keys]
  /\ nkeys \in Nat
  /\ matchp \in [0 .. MAX_MATCHES - 1 -> Pairs]
  /\ nmatch \in Nat
  /\ {flag, warn} \subseteq BOOLEAN
  /\ num_candidates \in Nat

\* The number of pairs that suggest a partial key, and a middle byte for it.
Suggestions(r, k) == Cardinality({p \in Pairs : k \in input.hits[r][p]})
Matches(r, k, m) == Cardinality({p \in input.match[r][k] : m \in input.middle[r][k][p]})

\* What is reported is right, though counters, lists and flag are reused from
\* round to round and key to key and the threads run apart: the partial key
\* reached tau1, and the number of matching pairs is the true one and at least
\* tau2 (unless matches were dropped, with the warning set).
ReportsAreRight ==
  \A c \in candidates :
    /\ Suggestions(c[1], c[2]) >= tau1
    /\ c[4] >= tau2
    /\ c[4] <= Matches(c[1], c[2], c[3])
    /\ ~warn => c[4] = Matches(c[1], c[2], c[3])

\* No candidate is reported twice, so the buffer fills no sooner than it must;
\* but with tau1 = Saturation + 1 a saturated counter lists its key again at
\* every further suggestion, and its candidates are reported as often.
ReportedOnce ==
  tau1 # Saturation + 1 => Cardinality(candidates) = AtMost(num_candidates, MAX_CANDIDATES)

\* What the block has to find: a partial key with tau1 suggestions that has a
\* middle byte with more than tau2 matching pairs, and all the middle bytes of
\* this key with at least tau2.
Due(r, k, m) ==
  /\ Suggestions(r, k) >= tau1
  /\ Matches(r, k, m) >= tau2
  /\ \E n \in Middle : Matches(r, k, n) > tau2

\* When the block is done and did not warn, all that is due is reported if the
\* counters can return tau1.  With a greater tau1, which get_tau and -t allow,
\* none of it is, and there is no warning.
NoneMissed ==
  Ended /\ ~warn =>
    \A r \in 1 .. Rounds, k \in Keys, m \in Middle :
      Due(r, k, m) =>
        (<<r, k, m, Matches(r, k, m)>> \in candidates) = (tau1 <= Saturation + 1)

\* Threads that could wait at a barrier together agree on where they are: all
\* threads that are between two barriers of a round are in the same round and,
\* in the loop over the keys, at the same key.  So no barrier is diverged.
InKeyLoop(t) == pc[t] \in {"sync keys", "match", "sync match", "test", "sync test"}
Agreement ==
  \A t, u \in Threads :
    /\ pc[t] \in {"sync zero", "count", "sync count"} /\ pc[t] = pc[u] => round[t] = round[u]
    /\ InKeyLoop(t) /\ pc[t] = pc[u] => round[t] = round[u] /\ i[t] = i[u]
    /\ pc[t] \in {"count", "sync count"} =>
         pc[u] \in {"count", "sync count"}
    /\ pc[t] \in {"match", "sync match"} => pc[u] \in {"match", "sync match"}
    /\ pc[t] \in {"test", "sync test"} => pc[u] \in {"test", "sync test"}

\* halfloop-cuda.cu:1005 says of flag: "True if at least one key reached the
\* tau2 threshold".  The code compares the value before the increment.
FlagMeansReached ==
  AllAt("sync test") => flag = (\E m \in Middle : count[m] >= tau2)

=============================================================================
