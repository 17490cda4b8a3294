-------------------------------- MODULE TuplePairs --------------------------------
(*****************************************************************************)
(* The input of the attack: read_input_pairs reads ciphertext-tweak tuples   *)
(* from a file, sorts them and removes duplicates; generate_pairs lists the  *)
(* pairs of tuples whose tweaks differ in the byte at bits 40 to 47 and      *)
(* nowhere else.                                                             *)
(*                                                                           *)
(* A tweak is a number of three digits: the 16 bits above that byte, the     *)
(* byte, and the 40 bits below it, with the bases as parameters; an exclusive*)
(* or of two tweaks is zero in a field iff the digits are equal.  A line of  *)
(* the file is a tuple or does not parse.  Indexes count from 0, as in C.    *)
(*****************************************************************************)
EXTENDS Integers, Sequences, SequencesExt

CONSTANTS
  NumHigh, NumByte, NumLow,  \* values of the three parts of a tweak
  NumCt,      \* ciphertexts
  MaxLines,   \* bound: lines in the file
  AllocStep   \* tuples and pairs that a realloc adds, 1000 in the code

ASSUME TupleAssumption ==
  {NumHigh, NumByte, NumLow, NumCt, MaxLines, AllocStep} \subseteq Nat \ {0}

Tuples == [tweak : 0 .. NumHigh * NumByte * NumLow - 1, ct : 0 .. NumCt - 1]

High(tweak) == tweak \div (NumByte * NumLow)
Byte(tweak) == (tweak \div NumLow) % NumByte
Low(tweak) == tweak % NumLow

VARIABLES
  pc,          \* "read", "dedup", "pair", "done" or "error"
  lines,       \* lines read
  tuples,      \* the tuples, num_tuples is their number
  alloc,       \* tuples, later pairs, there is memory for
  i, j,        \* loop indexes
  pairs,       \* indexes <<a, b>> into tuples
  sorted       \* history: the list that qsort returned

vars == <<pc, lines, tuples, alloc, i, j, pairs, sorted>>

Init ==
  /\ pc = "read"
  /\ lines = 0
  /\ tuples = <<>>
  /\ alloc = 0
  /\ i = 0
  /\ j = 0
  /\ pairs = <<>>
  /\ sorted = <<>>

\* Fault: the list is enlarged when it has overflowed.
Enlarged_Late(list) == IF Len(list) > alloc THEN alloc + AllocStep ELSE alloc

\* The capacity before one more element is stored.
Enlarged(list) == IF Len(list) = alloc THEN alloc + AllocStep ELSE alloc

\* if (*num == num_alloc) realloc, which may fail; the lists are then freed.
AllocationFails(list) == Enlarged(list) # alloc

ReadTuple ==
  /\ pc = "read"
  /\ lines < MaxLines
  /\ \E t \in Tuples : tuples' = Append(tuples, t)
  /\ alloc' = Enlarged(tuples)
  /\ lines' = lines + 1
  /\ UNCHANGED <<pc, i, j, pairs, sorted>>

ReadFails ==
  /\ pc = "read"
  /\ lines < MaxLines
  /\ AllocationFails(tuples)
  /\ pc' = "error"
  /\ tuples' = <<>>
  /\ UNCHANGED <<lines, alloc, i, j, pairs, sorted>>

SkipLine ==
  /\ pc = "read"
  /\ lines < MaxLines
  /\ lines' = lines + 1
  /\ UNCHANGED <<pc, tuples, alloc, i, j, pairs, sorted>>

\* compare_tuples
Precedes(s, t) == s.tweak < t.tweak \/ (s.tweak = t.tweak /\ s.ct < t.ct)

\* qsort, with a comparison in which only equal elements are equal: the place of
\* an element is one more than the number of those that come before it.
QSort(list, Before(_, _)) ==
  LET place == [n \in 1 .. Len(list) |-> 1 + Cardinality({m \in 1 .. Len(list) :
                  Before(list[m], list[n]) \/ (list[m] = list[n] /\ m < n)})]
  IN  [k \in 1 .. Len(list) |-> list[CHOOSE n \in 1 .. Len(list) : place[n] = k]]

\* The end of the file: the list is cut to its size and sorted.
Sort ==
  /\ pc = "read"
  /\ sorted' = QSort(tuples, Precedes)
  /\ tuples' = sorted'
  /\ alloc' = Len(tuples)
  /\ i' = 1
  /\ pc' = "dedup"
  /\ UNCHANGED <<lines, j, pairs>>

\* Fault: only the tweaks are compared.
Same_Tweak(n) == tuples[n].tweak = tuples[n + 1].tweak

\* compare_tuples(*tuples + n - 1, *tuples + n) == 0
Same(n) == tuples[n] = tuples[n + 1]

\* The list after the memmove that closes the gap at index n.
WithoutNext(n) == RemoveAt(tuples, n + 1)

Dedup ==
  /\ pc = "dedup"
  /\ i < Len(tuples)
  /\ tuples' = IF Same(i) THEN WithoutNext(i) ELSE tuples
  /\ i' = i + 1
  /\ UNCHANGED <<pc, lines, alloc, j, pairs, sorted>>

\* read_input_pairs returns; generate_pairs checks its arguments and begins.
EndDedup ==
  /\ pc = "dedup"
  /\ i >= Len(tuples)
  /\ pc' = IF Len(tuples) <= 2 THEN "error" ELSE "pair"
  /\ alloc' = 0
  /\ i' = 0
  /\ j' = 1
  /\ UNCHANGED <<lines, tuples, pairs, sorted>>

Tweak(n) == tuples[n + 1].tweak

\* Fault: the end is seen in the byte as well, dtw >> 40.
PastEnd_Byte == High(Tweak(i)) # High(Tweak(j)) \/ Byte(Tweak(i)) # Byte(Tweak(j))

\* dtw >> 48: no later tuple can match tuple i.
PastEnd == High(Tweak(i)) # High(Tweak(j))

\* The difference of two tweaks is in the byte alone.
Viable(a, b) ==
  /\ Byte(Tweak(a)) # Byte(Tweak(b))
  /\ High(Tweak(a)) = High(Tweak(b))
  /\ Low(Tweak(a)) = Low(Tweak(b))

Comparing == pc = "pair" /\ i < Len(tuples) /\ j < Len(tuples)

\* One iteration of the inner loop.
Pair ==
  /\ Comparing
  /\ Viable(i, j)
  /\ pairs' = Append(pairs, <<i, j>>)
  /\ alloc' = Enlarged(pairs)
  /\ j' = j + 1
  /\ UNCHANGED <<pc, lines, tuples, i, sorted>>

PairFails ==
  /\ Comparing
  /\ Viable(i, j)
  /\ AllocationFails(pairs)
  /\ pc' = "error"
  /\ pairs' = <<>>
  /\ UNCHANGED <<lines, tuples, alloc, i, j, sorted>>

NoPair ==
  /\ Comparing
  /\ ~Viable(i, j) /\ ~PastEnd
  /\ j' = j + 1
  /\ UNCHANGED <<pc, lines, tuples, alloc, i, pairs, sorted>>

NextFirst ==
  /\ pc = "pair"
  /\ i < Len(tuples)
  /\ j < Len(tuples) => PastEnd
  /\ i' = i + 1
  /\ j' = i + 2
  /\ UNCHANGED <<pc, lines, tuples, alloc, pairs, sorted>>

EndPairs ==
  /\ pc = "pair"
  /\ i = Len(tuples)
  /\ pc' = "done"
  /\ UNCHANGED <<lines, tuples, alloc, i, j, pairs, sorted>>

Next ==
  \/ ReadTuple \/ ReadFails \/ SkipLine \/ Sort
  \/ Dedup \/ EndDedup
  \/ Pair \/ PairFails \/ NoPair \/ NextFirst \/ EndPairs

Spec == Init /\ [][Next]_vars

-----------------------------------------------------------------------------
(* Properties.                                                               *)

\* The variables keep their types, and no list outgrows its memory.
TypeOK ==
  /\ pc \in {"read", "dedup", "pair", "done", "error"}
  /\ lines \in 0 .. MaxLines
  /\ tuples \in Seq(Tuples) /\ sorted \in Seq(Tuples)
  /\ alloc \in Nat /\ i \in Nat /\ j \in Nat
  /\ pairs \in Seq(Nat \X Nat)
  /\ pc \in {"read", "dedup"} => Len(tuples) <= alloc
  /\ pc \in {"pair", "done"} => Len(pairs) <= alloc

Indexes == 0 .. Len(tuples) - 1

\* generate_pairs leaves an inner loop early, trusting that the list is sorted,
\* and still lists every viable pair, once, the smaller index first, in an
\* order that keeps the pairs of a tuple together.
PairsAreRight ==
  pc = "done" =>
    /\ ToSet(pairs) = {p \in Indexes \X Indexes : p[1] < p[2] /\ Viable(p[1], p[2])}
    /\ \A m, n \in 1 .. Len(pairs) :
         m < n => \/ pairs[m][1] < pairs[n][1]
                  \/ pairs[m][1] = pairs[n][1] /\ pairs[m][2] < pairs[n][2]

Copies(t, list) == {n \in 1 .. Len(list) : list[n] = t}

\* Removing duplicates while the index moves on loses no tuple, not even the
\* last, leaves none twice that was there twice, and keeps the order.  It does
\* not do what the comment at the sort says, "Remove duplicates.": of three
\* equal tuples two are left.
DuplicatesThinned ==
  pc \in {"pair", "done"} =>
    /\ \A t \in ToSet(sorted) : Cardinality(Copies(t, tuples)) = (Cardinality(Copies(t, sorted)) + 1) \div 2
    /\ ToSet(tuples) = ToSet(sorted)
    /\ \A n \in 1 .. Len(tuples) - 1 : ~Precedes(tuples[n + 1], tuples[n])
=============================================================================
