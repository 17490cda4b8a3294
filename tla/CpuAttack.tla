--------------------------------- MODULE CpuAttack ---------------------------------
(*****************************************************************************)
(* The three CPU versions of the attack, ct_attack1 to ct_attack3.  They go  *)
(* through the values of one byte of rk9 and of rk10 that have the fixed     *)
(* bits of the job, and through the rest of rk9; for each guess they count   *)
(* the keys that the pairs suggest and validate those that reach tau1.       *)
(*                                                                           *)
(* A guess is the value of the outer loop and a number for the inner ones:   *)
(* rk9n01, and in ct_attack1 also kappa.  What the cipher computes under a   *)
(* guess is input: hits, the keys in the order in which they are counted;    *)
(* middle[k], the middle bytes that the second pass of ct_attack3 counts for *)
(* key k; indicated[k, m], the bytes of rk7 that the pairs indicate in       *)
(* validate_rk8 for the key k with middle byte m (0 in ct_attack1 and 2,     *)
(* whose keys have no second part).                                          *)
(*                                                                           *)
(* Two writes can go past the end of an array: keys has room for 512 keys    *)
(* and is not guarded, and the candidate list gets eight bytes for each      *)
(* candidate of twenty.  What the program does then is not defined; it may   *)
(* go on or be in the state "undefined", of which nothing is said.           *)
(*****************************************************************************)
EXTENDS Integers, Sequences, SequencesExt

CONSTANTS
  Algorithms,    \* the attacks to choose from, a subset of 1 .. 3
  Span,          \* 1ULL << (32 - num_fixed), turns of the outer loop
  Stride,        \* 1ULL << num_fixed
  FixedBits,     \* fixed_bits
  NumInner,      \* turns of the inner loops
  CounterSize,   \* values of a counter, 256
  NumKeys,       \* counters
  NumMiddle,     \* middle bytes, 256
  NumRk7,        \* bytes of rk7, 256
  Inputs,        \* the inputs to choose from, records as above
  tau1, tau2,
  MAX_KEYS,      \* length of the array keys, 512
  SlotSize, CandidateSize  \* sizeof(u64) and sizeof(candidate_key_t)

Keys == 0 .. NumKeys - 1
Middle == 0 .. NumMiddle - 1
Rk7 == 0 .. NumRk7 - 1

ASSUME AttackAssumption ==
  /\ Algorithms \subseteq 1 .. 3
  /\ {Span, Stride, NumInner, NumKeys, NumMiddle, NumRk7, MAX_KEYS, SlotSize,
      CandidateSize} \subseteq Nat \ {0}
  /\ FixedBits \in 0 .. Stride - 1
  /\ CounterSize \in Nat /\ {tau1, tau2} \subseteq 1 .. CounterSize - 1
  /\ \A in \in Inputs :
       /\ in.hits \in Seq(Keys)
       /\ in.middle \in [Keys -> Seq(Middle)]
       /\ in.indicated \in [Keys \X Middle -> Seq(Rk7)]

VARIABLES
  alg,         \* the attack
  pc,          \* "guess", "count", "scan", "done", "error" or "undefined"
  bits,        \* outer loop
  inner,       \* inner loops
  input,       \* what the cipher computes under the guess
  hit,         \* number of hits counted
  count,       \* the counters
  flag,        \* ct_attack1 and 2: did one reach tau1?
  keys,        \* ct_attack3: the keys that reached tau1, nkeys is their number
  scan,        \* index into count or keys
  todo,        \* keys found at that index and not yet validated
  candidates,  \* *candidates, *num_candidates is their number
  searched     \* history: the values of the outer loop and guesses searched

vars == <<alg, pc, bits, inner, input, hit, count, flag, keys, scan, todo,
          candidates, searched>>
guessVars == <<alg, bits, inner, input>>

\* Fault: the free bits are not shifted.
JobOf_Unshifted(n) == n + FixedBits

\* (bits << num_fixed) | fixed_bits, rk9_2 above rk10.
JobOf(n) == n * Stride + FixedBits

Init ==
  /\ alg \in Algorithms
  /\ pc = "guess"
  /\ bits = 0
  /\ inner = 0
  /\ input \in Inputs
  /\ hit = 0
  /\ count = [k \in Keys |-> 0]
  /\ flag = FALSE
  /\ keys = <<>>
  /\ scan = 0
  /\ todo = {}
  /\ candidates = <<>>
  /\ searched = <<>>

\* Fault: the list of keys is not emptied.
Begin_KeepsKeys ==
  /\ pc = "guess"
  /\ pc' = "count"
  /\ hit' = 0
  /\ count' = [k \in Keys |-> 0]
  /\ flag' = FALSE
  /\ UNCHANGED <<guessVars, keys, scan, todo, candidates, searched>>

\* The tables for the guess are computed, counters and flags reset.
Begin ==
  /\ pc = "guess"
  /\ pc' = "count"
  /\ hit' = 0
  /\ count' = [k \in Keys |-> 0]
  /\ flag' = FALSE
  /\ keys' = <<>>
  /\ UNCHANGED <<guessVars, scan, todo, candidates, searched>>

Counting == pc = "count" /\ hit < Len(input.hits)
Hit == input.hits[hit + 1]
Counted == (count[Hit] + 1) % CounterSize

\* count[k] += 1; if (count[k] >= tau1) flag = true;
CountAndFlag ==
  /\ Counting
  /\ alg \in {1, 2}
  /\ count' = [count EXCEPT ![Hit] = Counted]
  /\ flag' = (flag \/ Counted >= tau1)
  /\ hit' = hit + 1
  /\ UNCHANGED <<guessVars, pc, keys, scan, todo, candidates, searched>>

\* Fault: a key is listed whenever its counter is at or above the threshold.
Listed_AtLeast == Counted >= tau1

\* Fault: a key is listed when its counter is above the threshold.
Listed_Above == Counted = tau1 + 1

\* if (count[k] == tau1)
Listed == Counted = tau1

\* keys[nkeys++] = k, as long as the array has room.
CountAndList ==
  /\ Counting
  /\ alg = 3
  /\ Listed => Len(keys) < MAX_KEYS
  /\ count' = [count EXCEPT ![Hit] = Counted]
  /\ keys' = IF Listed THEN Append(keys, Hit) ELSE keys
  /\ hit' = hit + 1
  /\ UNCHANGED <<guessVars, pc, flag, scan, todo, candidates, searched>>

KeysOverrun ==
  /\ Counting
  /\ alg = 3
  /\ Listed /\ Len(keys) = MAX_KEYS
  /\ pc' = "undefined"
  /\ UNCHANGED <<guessVars, hit, count, flag, keys, scan, todo, candidates, searched>>

EndCount ==
  /\ pc = "count"
  /\ hit = Len(input.hits)
  /\ pc' = "scan"
  /\ scan' = 0
  /\ UNCHANGED <<guessVars, hit, count, flag, keys, todo, candidates, searched>>

-----------------------------------------------------------------------------
(* The second half of a guess: validating what reached the threshold.        *)

Occurrences(x, seq) == Cardinality({n \in 1 .. Len(seq) : seq[n] = x})

\* The middle bytes flagged for key k: k1count reaches tau2 at some hit, even
\* if it wraps around later.
Flagged(k) == {m \in Middle : Occurrences(m, input.middle[k]) >= tau2}

\* How far the loop over count or keys goes.
ScanEnd == IF alg = 3 THEN Len(keys) ELSE IF flag THEN NumKeys ELSE 0

\* What one turn of that loop hands to validate_rk8.
Suggested ==
  IF alg = 3 THEN {keys[scan + 1]} \X Flagged(keys[scan + 1])
  ELSE IF count[scan] >= tau1 THEN {<<scan, 0>>} ELSE {}

Scanning == pc = "scan" /\ todo = {}

Scan ==
  /\ Scanning
  /\ scan < ScanEnd
  /\ todo' = Suggested
  /\ scan' = scan + 1
  /\ UNCHANGED <<guessVars, pc, hit, count, flag, keys, candidates, searched>>

\* One byte that a pair indicates: count it and keep the most common one.
Indicate(v, k) ==
  LET n == v.count[k] + 1 IN
  [count |-> [v.count EXCEPT ![k] = n],
   num |-> IF n > v.num THEN n ELSE v.num,
   key |-> IF n > v.num THEN k ELSE v.key]

\* validate_rk8, called with *num = 0 and *key = 0; v[n] is what it has after n
\* of the bytes.
ValidateRk8(indicated) ==
  LET v[n \in 0 .. Len(indicated)] ==
        IF n = 0 THEN [count |-> [k \in Rk7 |-> 0], num |-> 0, key |-> 0]
        ELSE Indicate(v[n - 1], indicated[n])
  IN  v[Len(indicated)]

\* ct_attack3 takes the middle bytes in ascending order.
Current == CHOOSE k \in todo : \A other \in todo : k[2] <= other[2]
Result == ValidateRk8(input.indicated[Current])
Validating == pc = "scan" /\ todo # {}

Entry == [bits |-> bits, inner |-> inner, key |-> Current,
          rk7 |-> Result.key, pairs |-> Result.num]

Report ==
  /\ Validating
  /\ Result.num >= tau2
  /\ candidates' = Append(candidates, Entry)
  /\ todo' = todo \ {Current}
  /\ UNCHANGED <<guessVars, pc, hit, count, flag, keys, scan, searched>>

\* The list was not given enough memory for the candidate.
ListOverrun ==
  /\ Validating
  /\ Result.num >= tau2
  /\ SlotSize * (Len(candidates) + 1) < CandidateSize * (Len(candidates) + 1)
  /\ pc' = "undefined"
  /\ UNCHANGED <<guessVars, hit, count, flag, keys, scan, todo, candidates, searched>>

\* Fault: the list is not freed.
OutOfMemory_KeepsList ==
  /\ Validating
  /\ pc' = "error"
  /\ UNCHANGED <<guessVars, hit, count, flag, keys, scan, todo, candidates, searched>>

\* The malloc of validate_rk8 fails, whatever the key is worth, or the realloc for
\* a key that is reported: all is freed and HALFLOOP_MEMORY_ERROR returned.
OutOfMemory ==
  /\ Validating
  /\ pc' = "error"
  /\ candidates' = <<>>
  /\ UNCHANGED <<guessVars, hit, count, flag, keys, scan, todo, searched>>

Reject ==
  /\ Validating
  /\ Result.num < tau2
  /\ todo' = todo \ {Current}
  /\ UNCHANGED <<guessVars, pc, hit, count, flag, keys, scan, candidates, searched>>

\* The next guess: the inner loops, then the outer one.
EndGuess ==
  /\ Scanning
  /\ scan >= ScanEnd
  /\ searched' = Append(searched, <<JobOf(bits), inner>>)
  /\ inner' = (inner + 1) % NumInner
  /\ bits' = IF inner + 1 < NumInner THEN bits ELSE bits + 1
  /\ pc' = IF bits' < Span THEN "guess" ELSE "done"
  /\ input' \in Inputs
  /\ UNCHANGED <<alg, hit, count, flag, keys, scan, todo, candidates>>

Next ==
  \/ Begin
  \/ CountAndFlag \/ CountAndList \/ KeysOverrun \/ EndCount
  \/ Scan \/ Report \/ ListOverrun \/ OutOfMemory \/ Reject
  \/ EndGuess

Spec == Init /\ [][Next]_vars

-----------------------------------------------------------------------------
(* Properties.                                                               *)

\* The variables keep their types and counters their width; a failed attack
\* returns no candidates.
TypeOK ==
  /\ alg \in Algorithms
  /\ pc \in {"guess", "count", "scan", "done", "error", "undefined"}
  /\ bits \in 0 .. Span /\ inner \in 0 .. NumInner - 1
  /\ input \in Inputs
  /\ hit \in Nat /\ scan \in Nat
  /\ count \in [Keys -> 0 .. CounterSize - 1]
  /\ flag \in BOOLEAN
  /\ keys \in Seq(Keys) /\ Len(keys) <= MAX_KEYS
  /\ todo \subseteq Keys \X Middle
  /\ pc = "error" => candidates = <<>>

Total(k) == Occurrences(k, input.hits)

\* The candidates of the guess at hand: their numbers in the list.
OfGuess == {n \in 1 .. Len(candidates) : candidates[n].bits = bits /\ candidates[n].inner = inner}

\* A reported key was suggested tau1 times under the guess it is reported for
\* and passed the second pass of ct_attack3; its pairs are the most that any
\* byte of rk7 explains, and its rk7 is such a byte.
ReportsAreRight ==
  pc = "scan" =>
    \A n \in OfGuess :
      LET c == candidates[n]
          indicated == input.indicated[c.key]
      IN /\ Total(c.key[1]) >= tau1
         /\ alg = 3 => Occurrences(c.key[2], input.middle[c.key[1]]) >= tau2
         /\ c.pairs >= tau2
         /\ c.pairs = Occurrences(c.rk7, indicated)
         /\ \A b \in Rk7 : Occurrences(b, indicated) <= c.pairs

\* The keys that a guess must report.  The byte counters of ct_attack1 and 2
\* are only looked at in the end: a key suggested as often as a counter has
\* values may be lost.  ct_attack3 sees it pass the threshold.
MustReport ==
  {k \in Keys \X Middle :
     /\ Total(k[1]) >= tau1
     /\ IF alg = 3 THEN k[2] \in Flagged(k[1]) ELSE k[2] = 0 /\ Total(k[1]) < CounterSize
     /\ \E b \in Rk7 : Occurrences(b, input.indicated[k]) >= tau2}

\* When a guess is done, every key that must be reported is in the list.
NoneMissed ==
  Scanning /\ scan >= ScanEnd =>
    MustReport \subseteq {candidates[n].key : n \in OfGuess}

\* A key is in the list once for a guess, in ct_attack3 unless its counter
\* wrapped around and reached the threshold again.
ReportedOnce ==
  pc = "scan" =>
    \A m, n \in OfGuess :
      candidates[m].key = candidates[n].key =>
        m = n \/ (alg = 3 /\ Total(candidates[m].key[1]) >= CounterSize + tau1)

\* The search covers the values with the given low bits, each with all inner
\* values, in order and once: the jobs of different fixed bits are disjoint.  The
\* comments on fixed_bits (halfloop-coa.c:50 and 303, halfloop-cuda.h:169) say
\* that they are filled from the MSB down; it is the low bits that they fix, as
\* README.md says of the chunk argument.
Covered ==
  pc = "done" =>
    /\ ToSet(searched) = {v \in 0 .. Span * Stride - 1 : v % Stride = FixedBits} \X (0 .. NumInner - 1)
    /\ Len(searched) = Span * NumInner
=============================================================================
