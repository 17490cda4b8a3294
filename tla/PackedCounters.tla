------------------------------ MODULE PackedCounters ------------------------------
(*****************************************************************************)
(* The counters of the GPU kernels: several saturating counters share one    *)
(* 32-bit word, and a kernel thread increases one with a compare-and-swap    *)
(* loop on the whole word (atomicInc4, atomicInc5, atomicInc8).  The caller, *)
(* a pass over the pairs in ct_attack2 or ct_attack3, lists a key when the   *)
(* value it gets back is exactly tau1.  No caller keeps tau1 below the value *)
(* where the counters stop, so it is any number here.                        *)
(*                                                                           *)
(* A word is the array with zero for the counters of other words; that the   *)
(* fields of a word do not overlap is a theorem of PackedCountersProofs.     *)
(*****************************************************************************)
EXTENDS Integers, Sequences, FiniteSets

CONSTANTS
  Threads,      \* the threads of one block
  NumCounters,  \* counters in the array
  PerWord,      \* counters in a word: 8 of 4 bits, 6 of 5 bits, 4 of 8 bits
  Saturation,   \* where a counter stops: 15, 31 or 255
  CallChoices,  \* the calls each thread makes, in order, as counter indexes
  Thresholds,   \* the values of tau1 to choose from
  MAX_KEYS      \* room in the list of keys

Counters == 0 .. NumCounters - 1

ASSUME CounterAssumption ==
  /\ IsFiniteSet(Threads)
  /\ NumCounters \in Nat \ {0}
  /\ PerWord \in Nat \ {0}
  /\ Saturation \in Nat \ {0}
  /\ CallChoices \subseteq [Threads -> Seq(Counters)]
  /\ Thresholds \subseteq Nat \ {0}
  /\ MAX_KEYS \in Nat \ {0}

VARIABLES
  tau1,     \* the threshold, an argument of the kernel
  calls,    \* the calls of each thread
  at,       \* the call a thread is at, from 1
  pc,       \* "load", "swap" or "test"
  count,    \* the counters
  compare,  \* the word a thread has read
  ret,      \* the value its last increment returned
  keys,     \* the list of keys
  nkeys,    \* its length, which counts on when the list is full
  warn

vars == <<tau1, calls, at, pc, count, compare, ret, keys, nkeys, warn>>

\* q, and the counters of word q.  atomicInc5 divides by multiplying.
WordOf(idx) == idx \div PerWord
DividedBySix(idx) == (idx * 43691) \div 262144
InWord(q) == {c \in Counters : WordOf(c) = q}

Active(t) == at[t] <= Len(calls[t])
Idx(t) == calls[t][at[t]]
Word(q) == [c \in Counters |-> IF c \in InWord(q) THEN count[c] ELSE 0]

Init ==
  /\ tau1 \in Thresholds
  /\ calls \in CallChoices
  /\ at = [t \in Threads |-> 1]
  /\ pc = [t \in Threads |-> "load"]
  /\ count = [c \in Counters |-> 0]
  /\ compare = [t \in Threads |-> [c \in Counters |-> 0]]
  /\ ret = [t \in Threads |-> 0]
  /\ keys = <<>>
  /\ nkeys = 0
  /\ warn = FALSE

\* compare = *r.
Load(t) ==
  /\ pc[t] = "load"
  /\ Active(t)
  /\ compare' = [compare EXCEPT ![t] = Word(WordOf(Idx(t)))]
  /\ pc' = [pc EXCEPT ![t] = "swap"]
  /\ UNCHANGED <<tau1, calls, at, count, ret, keys, nkeys, warn>>

\* Fault: the counter does not saturate.
Saturated_Not(n) == n

\* nval: the value that goes back into the field.
Saturated(n) == IF n > Saturation THEN Saturation ELSE n

\* Fault: the new word is stored without comparing.
Swap_Blind(t) ==
  /\ pc[t] = "swap"
  /\ LET c == Idx(t)  old == compare[t]  IN
       /\ ret' = [ret EXCEPT ![t] = old[c] + 1]
       /\ count' = [d \in Counters |->
            IF d \in InWord(WordOf(c))
            THEN [old EXCEPT ![c] = Saturated(old[c] + 1)][d] ELSE count[d]]
  /\ pc' = [pc EXCEPT ![t] = "test"]
  /\ UNCHANGED <<tau1, calls, at, compare, keys, nkeys, warn>>

\* atomicCAS finds the word as it was read and stores nr.
Swap(t) ==
  /\ pc[t] = "swap"
  /\ Word(WordOf(Idx(t))) = compare[t]
  /\ LET c == Idx(t)  old == compare[t]
         nr == [old EXCEPT ![c] = Saturated(old[c] + 1)]
     IN  /\ ret' = [ret EXCEPT ![t] = old[c] + 1]
         /\ count' = [d \in Counters |->
                        IF d \in InWord(WordOf(c)) THEN nr[d] ELSE count[d]]
  /\ pc' = [pc EXCEPT ![t] = "test"]
  /\ UNCHANGED <<tau1, calls, at, compare, keys, nkeys, warn>>

\* Fault: the loop tries again without reading the word again.
SwapFails_NoReload(t) ==
  /\ pc[t] = "swap"
  /\ Word(WordOf(Idx(t))) # compare[t]
  /\ UNCHANGED vars

\* atomicCAS finds another word and stores nothing.
SwapFails(t) ==
  /\ pc[t] = "swap"
  /\ Word(WordOf(Idx(t))) # compare[t]
  /\ pc' = [pc EXCEPT ![t] = "load"]
  /\ UNCHANGED <<tau1, calls, at, count, compare, ret, keys, nkeys, warn>>

\* Fault: every value from the threshold on lists the key.
Reached_AtLeast(t) == ret[t] >= tau1

\* Fault: the key is listed at the first value above the threshold.
Reached_Above(t) == ret[t] = tau1 + 1

Reached(t) == ret[t] = tau1

\* The caller: val == tau1 takes a place in the list, or warns.
Test(t) ==
  /\ pc[t] = "test"
  /\ \/ /\ ~Reached(t)
        /\ UNCHANGED <<keys, nkeys, warn>>
     \/ /\ Reached(t)
        /\ nkeys' = nkeys + 1
        /\ \/ nkeys < MAX_KEYS /\ keys' = Append(keys, Idx(t)) /\ UNCHANGED warn
           \/ nkeys >= MAX_KEYS /\ warn' = TRUE /\ UNCHANGED keys
  /\ at' = [at EXCEPT ![t] = @ + 1]
  /\ pc' = [pc EXCEPT ![t] = "load"]
  /\ UNCHANGED <<tau1, calls, count, compare, ret>>

Finished == \A t \in Threads : ~Active(t)
Thread(t) == Load(t) \/ Swap(t) \/ SwapFails(t) \/ Test(t)
Next == (\E t \in Threads : Thread(t)) \/ (Finished /\ UNCHANGED vars)

Spec == Init /\ [][Next]_vars

\* Every resident thread of a block is scheduled.
FairSpec == Spec /\ \A t \in Threads : WF_vars(Thread(t))
-----------------------------------------------------------------------------
(* Properties.                                                               *)

\* Every variable has its type; in particular no field exceeds its width.
TypeOK ==
  /\ tau1 \in Thresholds
  /\ calls \in [Threads -> Seq(Counters)]
  /\ at \in [Threads -> Nat \ {0}]
  /\ pc \in [Threads -> {"load", "swap", "test"}]
  /\ \A t \in Threads : pc[t] # "load" => Active(t)
  /\ count \in [Counters -> 0 .. Saturation]
  /\ compare \in [Threads -> [Counters -> 0 .. Saturation]]
  /\ ret \in [Threads -> 0 .. Saturation + 1]
  /\ keys \in Seq(Counters)
  /\ nkeys \in Nat
  /\ warn \in BOOLEAN

\* The calls whose increment has taken effect, for one counter.
Effective(t) == IF pc[t] = "test" THEN at[t] ELSE at[t] - 1
Hits(c) ==
  UNION {{<<t, i>> : i \in {n \in 1 .. Effective(t) : calls[t][n] = c}} : t \in Threads}

\* No increment is lost or counted twice, neither by other threads on the same
\* counter nor by their writes of the whole word for its neighbours.
NoLostHits == \A c \in Counters : count[c] = Saturated(Cardinality(Hits(c)))

\* A key is only listed if it reached tau1, and once, though its counter goes on
\* and saturates; but with tau1 = Saturation + 1 a saturated counter returns
\* tau1 at every hit, and the key is listed again.
ListedOnce ==
  \A i, j \in DOMAIN keys :
    /\ Cardinality(Hits(keys[i])) >= tau1
    /\ keys[i] = keys[j] /\ i # j =>
         tau1 = Saturation + 1 /\ Cardinality(Hits(keys[i])) > tau1

\* At the end of a pass that did not warn, the keys that were hit tau1 times
\* are in the list if the counters can return tau1.  With a greater tau1, which
\* get_tau and -t allow, none is, and there is no warning either.
NoneMissed ==
  Finished /\ ~warn =>
    \A c \in Counters : Cardinality(Hits(c)) >= tau1 =>
      (\E i \in DOMAIN keys : keys[i] = c) = (tau1 <= Saturation + 1)

\* The pass ends: an exchange fails only because another one succeeded.
Completion == <>Finished
=============================================================================
