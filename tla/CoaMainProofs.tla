------------------------------- MODULE CoaMainProofs -------------------------------
(*****************************************************************************)
(* Proofs about the input, the command line and the phases of main.  There   *)
(* is no induction on the steps of a loop here that is not a step of the     *)
(* specification, but for the loop of get_tau and the places that a sort     *)
(* gives to the elements of a list.                                          *)
(*****************************************************************************)
EXTENDS CoaMain, FiniteSetTheorems, SequenceTheorems, TLAPS

-----------------------------------------------------------------------------
(* Sorting.                                                                  *)

\* The places of N elements, from the relation R that says which comes first.
Places(N, R) == [n \in 1 .. N |-> 1 + Cardinality({m \in 1 .. N : <<m, n>> \in R})]

\* R puts the elements in one order.
Orders(R, N) ==
  /\ \A m \in 1 .. N : <<m, m>> \notin R
  /\ \A m, n, p \in 1 .. N : <<m, n>> \in R /\ <<n, p>> \in R => <<m, p>> \in R
  /\ \A m, n \in 1 .. N : m # n => <<m, n>> \in R \/ <<n, m>> \in R

\* The number of elements, and the number of the others.
LEMMA NumberOfElements ==
  ASSUME NEW N \in Nat
  PROVE  /\ IsFiniteSet(1 .. N) /\ Cardinality(1 .. N) = N
         /\ \A n \in 1 .. N : IsFiniteSet((1 .. N) \ {n}) /\ Cardinality((1 .. N) \ {n}) = N - 1
<1>1. IsFiniteSet(1 .. N) /\ Cardinality(1 .. N) = N
  BY FS_Interval
<1>2. ASSUME NEW n \in 1 .. N
      PROVE  IsFiniteSet((1 .. N) \ {n}) /\ Cardinality((1 .. N) \ {n}) = N - 1
  <2> DEFINE S == 1 .. N
  <2>1. IsFiniteSet(S) /\ Cardinality(S) = N /\ n \in S
    BY <1>1, <1>2
  <2> HIDE DEF S
  <2>2. IsFiniteSet(S \ {n}) /\ Cardinality(S \ {n}) = N - 1
    BY <2>1, FS_RemoveElement, Zenon
  <2> QED BY <2>2 DEF S
<1> QED BY <1>1, <1>2

\* The places are in order: an element that comes first has the lower place.
LEMMA PlacesInOrder ==
  ASSUME NEW N \in Nat, NEW R, Orders(R, N)
  PROVE  /\ Places(N, R) \in [1 .. N -> 1 .. N]
         /\ \A m, n \in 1 .. N : <<m, n>> \in R => Places(N, R)[m] < Places(N, R)[n]
<1> DEFINE Below(n) == {m \in 1 .. N : <<m, n>> \in R}
<1>1. \A n \in 1 .. N : IsFiniteSet(Below(n)) /\ Cardinality(Below(n)) \in Nat
  <2>1. IsFiniteSet(1 .. N)
    BY FS_Interval
  <2> QED BY <2>1, FS_Subset, FS_CardinalityType
<1>2. \A m, n \in 1 .. N : <<m, n>> \in R => Cardinality(Below(m)) < Cardinality(Below(n))
  <2> TAKE m, n \in 1 .. N
  <2> HAVE <<m, n>> \in R
  <2>1. Below(m) \cup {m} \subseteq Below(n) /\ m \notin Below(m)
    BY DEF Orders
  <2> HIDE DEF Below
  <2>2. Cardinality(Below(m) \cup {m}) = Cardinality(Below(m)) + 1
    BY <1>1, <2>1, FS_AddElement, Zenon
  <2>3. Cardinality(Below(m) \cup {m}) <= Cardinality(Below(n))
    BY <1>1, <2>1, FS_Subset, Zenon
  <2> QED BY <1>1, <2>2, <2>3
<1>3. \A n \in 1 .. N : 1 + Cardinality(Below(n)) \in 1 .. N
  <2> TAKE n \in 1 .. N
  <2>1. Below(n) \subseteq (1 .. N) \ {n}
    BY DEF Orders
  <2>2. IsFiniteSet((1 .. N) \ {n}) /\ Cardinality((1 .. N) \ {n}) = N - 1
    BY NumberOfElements
  <2> HIDE DEF Below
  <2>3. Cardinality(Below(n)) <= N - 1
    BY <2>1, <2>2, FS_Subset
  <2>4. Cardinality(Below(n)) \in Nat
    BY <1>1
  <2> QED BY <2>3, <2>4
<1>4. \A n \in 1 .. N : Places(N, R)[n] = 1 + Cardinality(Below(n))
  BY DEF Places
<1>5. Places(N, R) \in [1 .. N -> 1 .. N]
  BY <1>3 DEF Places
<1>6. ASSUME NEW m \in 1 .. N, NEW n \in 1 .. N, <<m, n>> \in R
      PROVE  Places(N, R)[m] < Places(N, R)[n]
  <2> HIDE DEF Below
  <2> QED BY <1>1, <1>2, <1>4, <1>6
<1> QED BY <1>5, <1>6

\* Every place is taken, by one element: as many places as elements, and no two
\* elements have one place.
LEMMA PlacesTaken ==
  ASSUME NEW N \in Nat, NEW R, Orders(R, N)
  PROVE  /\ \A k \in 1 .. N : \E n \in 1 .. N : Places(N, R)[n] = k
         /\ \A m, n \in 1 .. N : Places(N, R)[m] = Places(N, R)[n] => m = n
         /\ \A m, n \in 1 .. N : Places(N, R)[m] < Places(N, R)[n] => <<m, n>> \in R
<1> DEFINE place == Places(N, R)
<1>1. /\ place \in [1 .. N -> 1 .. N]
      /\ \A m, n \in 1 .. N : <<m, n>> \in R => place[m] < place[n]
  BY PlacesInOrder
<1> HIDE DEF place
<1>a. \A n \in 1 .. N : place[n] \in Int
  BY <1>1
<1>b. \A m, n \in 1 .. N : m # n => place[m] < place[n] \/ place[n] < place[m]
  BY <1>1 DEF Orders
<1>2. \A m, n \in 1 .. N : place[m] = place[n] => m = n
  BY <1>a, <1>b
<1>3. \A m, n \in 1 .. N : place[m] < place[n] => <<m, n>> \in R
  <2> TAKE m, n \in 1 .. N
  <2> HAVE place[m] < place[n]
  <2>1. place[m] \in Int /\ place[n] \in Int
    BY <1>a
  <2>2. m # n
    BY <2>1
  <2>3. ~(place[n] < place[m])
    BY <2>1
  <2> QED BY <1>1, <2>2, <2>3 DEF Orders
<1>4. ASSUME NEW k \in 1 .. N, \A n \in 1 .. N : place[n] # k
      PROVE  FALSE
  <2>1. place \in [1 .. N -> (1 .. N) \ {k}]
    BY <1>1, <1>4
  <2>2. IsFiniteSet(1 .. N) /\ Cardinality(1 .. N) = N
    BY NumberOfElements
  <2>3. IsFiniteSet((1 .. N) \ {k}) /\ Cardinality((1 .. N) \ {k}) = N - 1
    BY NumberOfElements
  <2>5. N - 1 < N
    OBVIOUS
  <2>4. \E m, n \in 1 .. N : m # n /\ place[m] = place[n]
    BY <2>1, <2>2, <2>3, <2>5, FS_PigeonHole, Zenon
  <2> QED BY <1>2, <2>4
<1> QED BY <1>2, <1>3, <1>4 DEF place

\* The list that a sort makes of the elements of a list, each at its place.
Arranged(list, place) ==
  [k \in 1 .. Len(list) |-> list[CHOOSE n \in 1 .. Len(list) : place[n] = k]]

\* s has the elements of list, each as often, in the order of R.
IsSortOf(s, list, R) ==
  /\ Len(s) = Len(list)
  /\ \A t : Cardinality(Copies(t, s)) = Cardinality(Copies(t, list))
  /\ \A k, l \in 1 .. Len(list) : k < l =>
       \E m, n \in 1 .. Len(list) : s[k] = list[m] /\ s[l] = list[n] /\ <<m, n>> \in R

\* A sort loses no element and adds none, and what stands later in the list does
\* not come first.
LEMMA ArrangedInOrder ==
  ASSUME NEW S, NEW list \in Seq(S), NEW R, Orders(R, Len(list)),
         NEW s, s = Arranged(list, Places(Len(list), R))
  PROVE  s \in Seq(S) /\ IsSortOf(s, list, R)
<1> DEFINE N == Len(list)
           place == Places(N, R)
           at(k) == CHOOSE n \in 1 .. N : place[n] = k
<1>1. N \in Nat /\ list \in [1 .. N -> S]
  OBVIOUS
<1>2. \A k \in 1 .. N : \E n \in 1 .. N : place[n] = k
  BY <1>1, PlacesTaken
<1>3. \A m, n \in 1 .. N : place[m] < place[n] => <<m, n>> \in R
  BY <1>1, PlacesTaken
<1>4. \A k \in 1 .. N : at(k) \in 1 .. N /\ place[at(k)] = k
  <2> HIDE DEF place
  <2> QED BY <1>2
<1>5. s = [k \in 1 .. N |-> list[at(k)]]
  BY DEF Arranged
<1> HIDE DEF N, place, at
<1>6. s \in Seq(S) /\ Len(s) = N
  <2>1. s \in [1 .. N -> S]
    BY <1>1, <1>4, <1>5
  <2> QED BY <1>1, <2>1, SeqDef
<1>7. ASSUME NEW k \in 1 .. N, NEW l \in 1 .. N, k < l
      PROVE  \E m, n \in 1 .. N : s[k] = list[m] /\ s[l] = list[n] /\ <<m, n>> \in R
  <2>1. s[k] = list[at(k)] /\ s[l] = list[at(l)]
    BY <1>5
  <2>2. at(k) \in 1 .. N /\ at(l) \in 1 .. N /\ <<at(k), at(l)>> \in R
    BY <1>3, <1>4, <1>7
  <2> QED BY <2>1, <2>2
<1>8. \A n \in 1 .. N : place[n] \in 1 .. N /\ s[place[n]] = list[n]
  <2>1. place \in [1 .. N -> 1 .. N]
    BY <1>1, PlacesInOrder DEF N, place
  <2>2. \A m, n \in 1 .. N : place[m] = place[n] => m = n
    BY <1>1, PlacesTaken DEF N, place
  <2> QED BY <1>4, <1>5, <2>1, <2>2
<1>9. \A m, n \in 1 .. N : place[m] = place[n] => m = n
  BY <1>1, PlacesTaken DEF N, place
<1>10. ASSUME NEW t
       PROVE  Cardinality(Copies(t, s)) = Cardinality(Copies(t, list))
  <2> DEFINE A == {n \in 1 .. N : list[n] = t}
             B == {k \in 1 .. N : s[k] = t}
             f == [n \in A |-> place[n]]
  <2>1. f \in Bijection(A, B)
    <3>1. f \in [A -> B]
      BY <1>8
    <3>2. \A m, n \in A : f[m] = f[n] => m = n
      BY <1>9
    <3>3. \A k \in B : \E n \in A : f[n] = k
      <4> TAKE k \in B
      <4>1. at(k) \in 1 .. N /\ place[at(k)] = k /\ s[k] = list[at(k)]
        BY <1>4, <1>5
      <4>2. at(k) \in A /\ f[at(k)] = k
        BY <4>1
      <4> QED BY <4>2
    <3> HIDE DEF A, B, f
    <3> QED BY <3>1, <3>2, <3>3 DEF Bijection, Injection, Surjection, IsInjective
  <2>2. IsFiniteSet(A)
    <3>1. IsFiniteSet(1 .. N) /\ A \in SUBSET (1 .. N)
      BY <1>1, NumberOfElements
    <3> QED BY <3>1, FS_Subset
  <2>3. Cardinality(B) = Cardinality(A)
    <3> HIDE DEF A, B, f
    <3> QED BY <2>1, <2>2, FS_Bijection DEF ExistsBijection
  <2> QED BY <1>6, <2>3 DEF Copies, N
<1> QED BY <1>6, <1>7, <1>10 DEF N, IsSortOf

\* No tuple comes after one that it precedes.
InOrder(list) == \A m, n \in 1 .. Len(list) : m < n => ~Precedes(list[n], list[m])

\* compare_tuples compares all of a tuple: there is one order.
LEMMA PrecedesOrders ==
  /\ \A s, t \in Tuples : ~(Precedes(s, t) /\ Precedes(t, s))
  /\ \A s, t \in Tuples : s # t => Precedes(s, t) \/ Precedes(t, s)
  /\ \A s, t, u \in Tuples : Precedes(s, t) /\ Precedes(t, u) => Precedes(s, u)
<1>1. \A s \in Tuples : s.tweak \in Int /\ s.ct \in Int
  BY TupleAssumption DEF Tuples
<1>2. \A s, t \in Tuples : s.tweak = t.tweak /\ s.ct = t.ct => s = t
  BY DEF Tuples
<1> QED BY <1>1, <1>2 DEF Precedes

\* What read_input_pairs makes of the tuples it has read.
LEMMA TuplesSorted ==
  ASSUME NEW list \in Seq(Tuples)
  PROVE  /\ QSort(list, Precedes) \in Seq(Tuples)
         /\ Len(QSort(list, Precedes)) = Len(list)
         /\ \A t : Cardinality(Copies(t, QSort(list, Precedes))) = Cardinality(Copies(t, list))
         /\ InOrder(QSort(list, Precedes))
<1> DEFINE N == Len(list)
           R == {p \in (1 .. N) \X (1 .. N) :
                   \/ Precedes(list[p[1]], list[p[2]])
                   \/ list[p[1]] = list[p[2]] /\ p[1] < p[2]}
           s == QSort(list, Precedes)
<1>1. N \in Nat /\ \A n \in 1 .. N : list[n] \in Tuples
  OBVIOUS
<1>2. \A m, n \in 1 .. N : <<m, n>> \in R <=>
        \/ Precedes(list[m], list[n])
        \/ list[m] = list[n] /\ m < n
  OBVIOUS
<1> HIDE DEF R
<1>3. Orders(R, N)
  <2>1. \A m \in 1 .. N : <<m, m>> \notin R
    BY <1>1, <1>2, PrecedesOrders
  <2>2. ASSUME NEW m \in 1 .. N, NEW n \in 1 .. N, NEW p \in 1 .. N,
               <<m, n>> \in R, <<n, p>> \in R
        PROVE  <<m, p>> \in R
    BY <1>1, <1>2, <2>2, PrecedesOrders
  <2>3. \A m, n \in 1 .. N : m # n => <<m, n>> \in R \/ <<n, m>> \in R
    BY <1>1, <1>2, PrecedesOrders
  <2> QED BY <2>1, <2>2, <2>3 DEF Orders
<1>4. s = Arranged(list, Places(N, R))
  <2> DEFINE B(n) == {m \in 1 .. N : Precedes(list[m], list[n]) \/ (list[m] = list[n] /\ m < n)}
             place == [n \in 1 .. N |-> 1 + Cardinality(B(n))]
  <2>1. s = Arranged(list, place)
    BY DEF QSort, Arranged
  <2>2. \A n \in 1 .. N : B(n) = {m \in 1 .. N : <<m, n>> \in R}
    BY <1>2
  <2>3. place = Places(N, R)
    <3> HIDE DEF B
    <3> QED BY <2>2 DEF Places
  <2> QED BY <2>1, <2>3
<1>5. s \in Seq(Tuples) /\ IsSortOf(s, list, R)
  <2> HIDE DEF s
  <2> QED BY <1>3, <1>4, ArrangedInOrder
<1>6. InOrder(s)
  <2> SUFFICES ASSUME NEW k \in 1 .. N, NEW l \in 1 .. N, k < l
               PROVE  ~Precedes(s[l], s[k])
    BY <1>5 DEF InOrder, IsSortOf
  <2>1. PICK m \in 1 .. N, n \in 1 .. N : s[k] = list[m] /\ s[l] = list[n] /\ <<m, n>> \in R
    BY <1>5, ZenonT(30) DEF IsSortOf
  <2> QED BY <1>1, <1>2, <2>1, PrecedesOrders
<1> QED BY <1>5, <1>6 DEF IsSortOf

\* compare_candidates, for the numbers of pairs of the candidates.
LEMMA CandidatesSorted ==
  ASSUME NEW list \in Seq(Nat)
  PROVE  /\ QSort(list, CompareCandidates) \in Seq(Nat)
         /\ Len(QSort(list, CompareCandidates)) = Len(list)
         /\ \A t : Cardinality(Copies(t, QSort(list, CompareCandidates)))
                    = Cardinality(Copies(t, list))
         /\ \A m, n \in 1 .. Len(list) : m < n =>
              QSort(list, CompareCandidates)[n] <= QSort(list, CompareCandidates)[m]
<1> DEFINE N == Len(list)
           R == {p \in (1 .. N) \X (1 .. N) :
                   list[p[1]] > list[p[2]] \/ (list[p[1]] = list[p[2]] /\ p[1] < p[2])}
           s == QSort(list, CompareCandidates)
<1>1. N \in Nat /\ \A n \in 1 .. N : list[n] \in Nat
  OBVIOUS
<1>2. \A m, n \in 1 .. N : <<m, n>> \in R <=> list[m] > list[n] \/ (list[m] = list[n] /\ m < n)
  OBVIOUS
<1> HIDE DEF R
<1>3. Orders(R, N)
  <2>1. \A m \in 1 .. N : <<m, m>> \notin R
    BY <1>1, <1>2
  <2>2. ASSUME NEW m \in 1 .. N, NEW n \in 1 .. N, NEW p \in 1 .. N,
               <<m, n>> \in R, <<n, p>> \in R
        PROVE  <<m, p>> \in R
    BY <1>1, <1>2, <2>2, SMTT(20)
  <2>3. ASSUME NEW m \in 1 .. N, NEW n \in 1 .. N, m # n
        PROVE  <<m, n>> \in R \/ <<n, m>> \in R
    <3>1. list[m] \in Nat /\ list[n] \in Nat
      BY <1>1
    <3>2. \/ list[m] > list[n] \/ (list[m] = list[n] /\ m < n)
          \/ list[n] > list[m] \/ (list[n] = list[m] /\ n < m)
      BY <2>3, <3>1
    <3> HIDE DEF N
    <3> QED BY <1>2, <3>2
  <2> QED BY <2>1, <2>2, <2>3 DEF Orders
<1>4. s = Arranged(list, Places(N, R))
  <2> DEFINE B(n) == {m \in 1 .. N : list[m] > list[n] \/ (list[m] = list[n] /\ m < n)}
             place == [n \in 1 .. N |-> 1 + Cardinality(B(n))]
  <2>1. s = Arranged(list, place)
    BY DEF QSort, Arranged, CompareCandidates
  <2>2. \A n \in 1 .. N : B(n) = {m \in 1 .. N : <<m, n>> \in R}
    BY <1>2
  <2>3. place = Places(N, R)
    <3> HIDE DEF B
    <3> QED BY <2>2 DEF Places
  <2> QED BY <2>1, <2>3
<1>5. s \in Seq(Nat) /\ IsSortOf(s, list, R)
  <2> HIDE DEF s
  <2> QED BY <1>3, <1>4, ArrangedInOrder
<1>6. ASSUME NEW k \in 1 .. N, NEW l \in 1 .. N, k < l
      PROVE  s[l] <= s[k]
  <2>1. PICK m \in 1 .. N, n \in 1 .. N : s[k] = list[m] /\ s[l] = list[n] /\ <<m, n>> \in R
    BY <1>5, <1>6 DEF IsSortOf
  <2> HIDE DEF s
  <2> QED BY <1>1, <1>2, <2>1
<1> QED BY <1>5, <1>6 DEF IsSortOf

-----------------------------------------------------------------------------
(* The input.                                                                *)

\* How many tuples the removal of duplicates has dropped, the places of t among
\* the tuples it is done with, and among those it has not reached.
Removed == Len(sorted) - Len(tuples)
Settled(t) == {n \in 1 .. i - 1 : tuples[n] = t}
Pending(t) == {n \in i + Removed .. Len(sorted) : sorted[n] = t}

\* Of two copies one is kept, and the last of an odd number.
Halved(t) ==
  LET kept == Cardinality(Settled(t))
      left == Cardinality(Pending(t))
      all == Cardinality(Copies(t, sorted))
  IN  2 * kept + left = all \/ (left = 0 /\ 2 * kept = all + 1)

DedupInv ==
  pc = "dedup" =>
    /\ i \in 1 .. Len(tuples) + 1
    /\ Len(tuples) <= Len(sorted)
    /\ InOrder(tuples)
    /\ ToSet(tuples) = ToSet(sorted)
    /\ \A n \in i .. Len(tuples) : tuples[n] = sorted[n + Removed]
    /\ \A t \in Tuples : Halved(t)

\* The viable pairs that the loops have come past when they come to a and b.
Passed(a, b) == {p \in Indexes \X Indexes :
                   /\ p[1] < p[2] /\ Viable(p[1], p[2])
                   /\ p[1] < a \/ (p[1] = a /\ p[2] < b)}

PairsInOrder ==
  \A m, n \in 1 .. Len(pairs) :
    m < n => \/ pairs[m][1] < pairs[n][1]
             \/ pairs[m][1] = pairs[n][1] /\ pairs[m][2] < pairs[n][2]

PairInv ==
  /\ pc \in {"read", "dedup"} => pairs = <<>>
  /\ pc \in {"pair", "done"} =>
       /\ InOrder(tuples)
       /\ i \in 0 .. Len(tuples)
       /\ i < Len(tuples) => j \in i + 1 .. Len(tuples)
       /\ ToSet(pairs) = Passed(i, j)
       /\ PairsInOrder
  /\ pc = "done" => i = Len(tuples)

InputInv == TypeOK /\ DedupInv /\ DuplicatesThinned /\ PairInv

-----------------------------------------------------------------------------
(* The steps of reading.                                                     *)

\* The list without the element after index n.
LEMMA RemoveNext ==
  ASSUME NEW S, NEW list \in Seq(S), NEW n \in Nat \ {0}, n < Len(list)
  PROVE  /\ RemoveAt(list, n + 1) \in Seq(S)
         /\ Len(RemoveAt(list, n + 1)) = Len(list) - 1
         /\ \A m \in 1 .. Len(list) - 1 :
              RemoveAt(list, n + 1)[m] = IF m <= n THEN list[m] ELSE list[m + 1]
<1> DEFINE N == Len(list)
           a == SubSeq(list, 1, n)
           b == SubSeq(list, n + 2, N)
<1>1. RemoveAt(list, n + 1) = a \o b
  <2>1. (n + 1) - 1 = n /\ (n + 1) + 1 = n + 2
    OBVIOUS
  <2> QED BY <2>1 DEF RemoveAt
<1>2. a \in Seq(S) /\ Len(a) = n /\ \A m \in 1 .. n : a[m] = list[m]
  BY SubSeqProperties
<1>3. b \in Seq(S) /\ Len(b) = N - n - 1 /\ \A m \in 1 .. N - n - 1 : b[m] = list[m + n + 1]
  BY SubSeqProperties
<1>4. /\ a \o b \in Seq(S) /\ Len(a \o b) = N - 1
      /\ \A m \in 1 .. N - 1 : (a \o b)[m] = IF m <= n THEN a[m] ELSE b[m - n]
  <2>1. N \in Nat /\ n < N
    OBVIOUS
  <2> HIDE DEF a, b, N
  <2>2. Len(a) + Len(b) = N - 1
    BY <1>2, <1>3, <2>1
  <2>3. a \in Seq(S) /\ b \in Seq(S)
    BY <1>2, <1>3
  <2>4. /\ a \o b \in Seq(S)
        /\ Len(a \o b) = Len(a) + Len(b)
        /\ \A m \in 1 .. Len(a) + Len(b) :
             (a \o b)[m] = IF m <= Len(a) THEN a[m] ELSE b[m - Len(a)]
    BY <2>3, ConcatProperties, Zenon
  <2>5. Len(a) = n
    BY <1>2
  <2> QED BY <2>2, <2>4, <2>5
<1>5. \A m \in 1 .. N - 1 : (a \o b)[m] = IF m <= n THEN list[m] ELSE list[m + 1]
  <2> TAKE m \in 1 .. N - 1
  <2>1. CASE m <= n
    <3>1. m \in 1 .. n
      BY <2>1
    <3> HIDE DEF a, b
    <3> QED BY <1>2, <1>4, <2>1, <3>1
  <2>2. CASE ~(m <= n)
    <3>1. m - n \in 1 .. N - n - 1 /\ (m - n) + n + 1 = m + 1
      BY <2>2
    <3>2. b[m - n] = list[m + 1]
      BY <1>3, <3>1
    <3> QED BY <1>4, <2>2, <3>2
  <2> QED BY <2>1, <2>2
<1> QED BY <1>1, <1>4, <1>5

\* The variables keep their types: the memory for a list is enlarged in time.
LEMMA InputType ==
  ASSUME InputInv, [Next]_vars
  PROVE  TypeOK'
<1> USE DEF InputInv, TypeOK, vars
<1>1. CASE ReadTuple
  <2>1. PICK t \in Tuples : tuples' = Append(tuples, t)
    BY <1>1 DEF ReadTuple
  <2>2. tuples' \in Seq(Tuples) /\ Len(tuples') = Len(tuples) + 1
    BY <2>1
  <2>3. alloc' \in Nat /\ Len(tuples') <= alloc'
    BY <1>1, <2>2, TupleAssumption DEF ReadTuple, Enlarged
  <2> QED BY <1>1, <2>2, <2>3, TupleAssumption DEF ReadTuple
<1>2. CASE ReadFails
  BY <1>2 DEF ReadFails
<1>3. CASE SkipLine
  BY <1>3, TupleAssumption DEF SkipLine
<1>4. CASE Sort
  <2>1. /\ QSort(tuples, Precedes) \in Seq(Tuples)
        /\ Len(QSort(tuples, Precedes)) = Len(tuples)
    BY TuplesSorted
  <2>2. sorted' = QSort(tuples, Precedes) /\ tuples' = QSort(tuples, Precedes)
    BY <1>4 DEF Sort
  <2>3. Len(tuples) \in Nat
    OBVIOUS
  <2>4. tuples' \in Seq(Tuples) /\ sorted' \in Seq(Tuples) /\ Len(tuples') = Len(tuples)
    BY <2>1, <2>2
  <2> QED BY <1>4, <2>3, <2>4 DEF Sort
<1>5. CASE Dedup
  <2>1. i \in Nat \ {0} /\ i < Len(tuples)
    BY <1>5 DEF Dedup, DedupInv
  <2>2. /\ RemoveAt(tuples, i + 1) \in Seq(Tuples)
        /\ Len(RemoveAt(tuples, i + 1)) = Len(tuples) - 1
    BY <2>1, RemoveNext
  <2>3. tuples' \in Seq(Tuples) /\ Len(tuples') <= Len(tuples)
    BY <1>5, <2>2 DEF Dedup, WithoutNext
  <2> QED BY <1>5, <2>1, <2>3 DEF Dedup
<1>6. CASE EndDedup
  BY <1>6 DEF EndDedup, PairInv
<1>7. CASE Pair
  <2>1. pairs' = Append(pairs, <<i, j>>)
    BY <1>7 DEF Pair
  <2>2. pairs' \in Seq(Nat \X Nat) /\ Len(pairs') = Len(pairs) + 1
    BY <2>1
  <2>3. alloc' \in Nat /\ Len(pairs') <= alloc'
    BY <1>7, <2>2, TupleAssumption, SMTT(20) DEF Pair, Comparing, Enlarged
  <2> QED BY <1>7, <2>2, <2>3 DEF Pair, Comparing
<1>8. CASE PairFails
  BY <1>8 DEF PairFails
<1>9. CASE NoPair
  BY <1>9 DEF NoPair
<1>10. CASE NextFirst
  BY <1>10 DEF NextFirst
<1>11. CASE EndPairs
  BY <1>11 DEF EndPairs
<1>12. CASE UNCHANGED vars
  BY <1>12
<1> QED BY <1>1, <1>2, <1>3, <1>4, <1>5, <1>6, <1>7, <1>8, <1>9, <1>10, <1>11, <1>12 DEF Next

\* After the sort, no tuple is settled and all are pending.
LEMMA SortStep ==
  ASSUME InputInv, Sort
  PROVE  DedupInv'
<1>1. /\ sorted' \in Seq(Tuples) /\ tuples' = sorted' /\ i' = 1 /\ Len(sorted') \in Nat
      /\ InOrder(sorted')
  BY TuplesSorted DEF Sort, InputInv, TypeOK
<1>2. Removed' = 0
  BY <1>1 DEF Removed
<1>3. ASSUME NEW t
      PROVE  Halved(t)'
  <2>1. Settled(t)' = {}
    BY <1>1 DEF Settled
  <2>2. Pending(t)' = Copies(t, sorted')
    <3>1. i' + Removed' = 1
      BY <1>1, <1>2
    <3> QED BY <3>1 DEF Pending, Copies
  <2>3. IsFiniteSet(Copies(t, sorted'))
    <3>1. IsFiniteSet(1 .. Len(sorted')) /\ Copies(t, sorted') \in SUBSET (1 .. Len(sorted'))
      BY <1>1, NumberOfElements DEF Copies
    <3> QED BY <3>1, FS_Subset
  <2>4. Cardinality(Settled(t)') = 0 /\ Cardinality(Copies(t, sorted')) \in Nat
    BY <2>1, <2>3, FS_EmptySet, FS_CardinalityType
  <2> QED BY <2>2, <2>4 DEF Halved
<1>4. \A n \in 1 .. Len(sorted') : n + Removed' = n
  BY <1>2
<1> QED BY <1>1, <1>3, <1>4 DEF DedupInv, InOrder

\* The sets of places are finite.
LEMMA PlacesFinite ==
  ASSUME InputInv, i \in Nat, Len(tuples) <= Len(sorted), NEW t
  PROVE  /\ IsFiniteSet(Settled(t)) /\ Cardinality(Settled(t)) \in Nat
         /\ IsFiniteSet(Pending(t)) /\ Cardinality(Pending(t)) \in Nat
         /\ IsFiniteSet(Copies(t, sorted)) /\ Cardinality(Copies(t, sorted)) \in Nat
         /\ IsFiniteSet(Copies(t, tuples)) /\ Cardinality(Copies(t, tuples)) \in Nat
<1>1. Len(sorted) \in Nat /\ Len(tuples) \in Nat
  BY DEF InputInv, TypeOK
<1>2. Removed \in Nat
  BY <1>1 DEF Removed
<1>3. IsFiniteSet(1 .. i - 1) /\ Settled(t) \in SUBSET (1 .. i - 1)
  BY FS_Interval DEF Settled
<1>4. IsFiniteSet(i + Removed .. Len(sorted)) /\ Pending(t) \in SUBSET (i + Removed .. Len(sorted))
  <2>1. i + Removed \in Int /\ Len(sorted) \in Int
    BY <1>1, <1>2
  <2> QED BY <2>1, FS_Interval DEF Pending
<1>5. IsFiniteSet(1 .. Len(sorted)) /\ Copies(t, sorted) \in SUBSET (1 .. Len(sorted))
  BY <1>1, NumberOfElements DEF Copies
<1>6. IsFiniteSet(1 .. Len(tuples)) /\ Copies(t, tuples) \in SUBSET (1 .. Len(tuples))
  BY <1>1, NumberOfElements DEF Copies
<1>7. /\ IsFiniteSet(Settled(t)) /\ IsFiniteSet(Pending(t))
      /\ IsFiniteSet(Copies(t, sorted)) /\ IsFiniteSet(Copies(t, tuples))
  BY <1>3, <1>4, <1>5, <1>6, FS_Subset
<1> QED BY <1>7, FS_CardinalityType

\* The index goes on from a tuple with the next one removed: of two copies, one
\* is settled.
LEMMA DedupSame ==
  ASSUME InputInv, Dedup, Same(i)
  PROVE  DedupInv'
<1> DEFINE N == Len(tuples)
<1>1. /\ tuples \in Seq(Tuples) /\ sorted \in Seq(Tuples) /\ N \in Nat /\ Len(sorted) \in Nat
      /\ i \in Nat \ {0} /\ i < N /\ N <= Len(sorted) /\ tuples[i] = tuples[i + 1]
      /\ InOrder(tuples) /\ ToSet(tuples) = ToSet(sorted)
      /\ \A n \in i .. N : tuples[n] = sorted[n + Removed]
      /\ \A t \in Tuples : Halved(t)
  BY DEF InputInv, TypeOK, DedupInv, Dedup, Same
<1>2. /\ tuples' \in Seq(Tuples) /\ Len(tuples') = N - 1
      /\ \A m \in 1 .. N - 1 : tuples'[m] = IF m <= i THEN tuples[m] ELSE tuples[m + 1]
  BY <1>1, RemoveNext DEF Dedup, WithoutNext
<1>3. i' = i + 1 /\ sorted' = sorted /\ pc' = "dedup"
  BY DEF Dedup
<1>4. Removed' = Removed + 1 /\ Removed \in Nat
  BY <1>1, <1>2, <1>3 DEF Removed
<1> HIDE DEF N
<1>5. InOrder(tuples')
  <2> SUFFICES ASSUME NEW m \in 1 .. N - 1, NEW n \in 1 .. N - 1, m < n
               PROVE  ~Precedes(tuples'[n], tuples'[m])
    BY <1>2 DEF InOrder
  <2> DEFINE g(k) == IF k <= i THEN k ELSE k + 1
  <2>1. tuples'[m] = tuples[g(m)] /\ tuples'[n] = tuples[g(n)]
    BY <1>2
  <2>2. g(m) \in 1 .. N /\ g(n) \in 1 .. N /\ g(m) < g(n)
    BY <1>1
  <2> HIDE DEF g
  <2> QED BY <1>1, <2>1, <2>2 DEF InOrder, N
<1>6. ToSet(tuples') = ToSet(tuples)
  <2>1. ASSUME NEW m \in 1 .. N - 1
        PROVE  \E n \in 1 .. N : tuples'[m] = tuples[n]
    <3>1. m \in 1 .. N /\ m + 1 \in 1 .. N
      BY <1>1
    <3> QED BY <1>2, <3>1
  <2>2. ASSUME NEW n \in 1 .. N
        PROVE  \E m \in 1 .. N - 1 : tuples'[m] = tuples[n]
    <3>1. CASE n <= i
      <4>1. n \in 1 .. N - 1 /\ tuples'[n] = tuples[n]
        BY <1>1, <1>2, <3>1
      <4> QED BY <4>1
    <3>2. CASE n = i + 1
      <4>1. i \in 1 .. N - 1 /\ tuples'[i] = tuples[i]
        BY <1>1, <1>2
      <4> QED BY <1>1, <3>2, <4>1
    <3>3. CASE n > i + 1
      <4>1. n - 1 \in 1 .. N - 1 /\ ~(n - 1 <= i) /\ (n - 1) + 1 = n
        BY <1>1, <3>3
      <4>2. tuples'[n - 1] = tuples[n]
        BY <1>2, <4>1
      <4> QED BY <4>1, <4>2
    <3> QED BY <1>1, <3>1, <3>2, <3>3
  <2>3. /\ ToSet(tuples) = {tuples[n] : n \in 1 .. N}
        /\ ToSet(tuples') = {tuples'[n] : n \in 1 .. N - 1}
    BY <1>1, <1>2, SMTT(20) DEF ToSet, N
  <2> QED BY <2>1, <2>2, <2>3
<1>7. ASSUME NEW n \in i + 1 .. N - 1
      PROVE  tuples'[n] = sorted[n + Removed']
  <2>1. n \in 1 .. N - 1 /\ ~(n <= i) /\ n + 1 \in i .. N
    BY <1>1
  <2>2. tuples'[n] = sorted[(n + 1) + Removed]
    BY <1>1, <1>2, <2>1
  <2> QED BY <1>4, <2>2
<1>8. ASSUME NEW t \in Tuples
      PROVE  Halved(t)'
  <2> DEFINE p == i + Removed
  <2>1. p \in Nat /\ p + 1 <= Len(sorted) /\ sorted[p] = tuples[i] /\ sorted[p + 1] = tuples[i]
    <3>1. i \in i .. N /\ i + 1 \in i .. N
      BY <1>1
    <3>2. (i + 1) + Removed = p + 1 /\ p \in Nat
      BY <1>1, <1>4
    <3>3. p + 1 <= Len(sorted)
      BY <1>1 DEF Removed, N
    <3> QED BY <1>1, <3>1, <3>2, <3>3
  <2>2. Pending(t) = {n \in p .. Len(sorted) : sorted[n] = t}
    BY DEF Pending
  <2>3. Pending(t)' = {n \in p + 2 .. Len(sorted) : sorted[n] = t}
    <3>1. i' + Removed' = p + 2
      BY <1>1, <1>3, <1>4
    <3> QED BY <1>3, <3>1 DEF Pending
  <2>4. Settled(t)' = {n \in 1 .. i : tuples[n] = t}
    <3>1. \A n \in 1 .. i : tuples'[n] = tuples[n]
      BY <1>1, <1>2
    <3>2. i' - 1 = i
      BY <1>1, <1>3
    <3> QED BY <3>1, <3>2 DEF Settled
  <2>5. Settled(t) = {n \in 1 .. i - 1 : tuples[n] = t}
    BY DEF Settled
  <2>6. Copies(t, sorted)' = Copies(t, sorted)
    BY <1>3 DEF Copies
  <2>7. /\ IsFiniteSet(Settled(t)) /\ Cardinality(Settled(t)) \in Nat
        /\ IsFiniteSet(Pending(t)) /\ Cardinality(Pending(t)) \in Nat
        /\ Cardinality(Copies(t, sorted)) \in Nat
    BY <1>1, PlacesFinite DEF N
  <2> HIDE DEF p
  <2>8. CASE tuples[i] # t
    <3>1. Pending(t)' = Pending(t)
      BY <2>1, <2>2, <2>3, <2>8
    <3>2. Settled(t)' = Settled(t)
      BY <1>1, <2>4, <2>5, <2>8
    <3> QED BY <1>1, <2>6, <3>1, <3>2 DEF Halved
  <2>9. CASE tuples[i] = t
    <3>1. Settled(t)' = Settled(t) \cup {i} /\ i \notin Settled(t)
      BY <1>1, <2>4, <2>5, <2>9
    <3>2. Cardinality(Settled(t)') = Cardinality(Settled(t)) + 1
      BY <2>7, <3>1, FS_AddElement
    <3>3. Pending(t)' = (Pending(t) \ {p}) \ {p + 1} /\ p \in Pending(t) /\ p + 1 \in Pending(t) \ {p}
      BY <2>1, <2>2, <2>3, <2>9
    <3>4. IsFiniteSet(Pending(t) \ {p}) /\ Cardinality(Pending(t) \ {p}) = Cardinality(Pending(t)) - 1
      BY <2>7, <3>3, FS_RemoveElement
    <3>5. Cardinality(Pending(t)') = Cardinality(Pending(t)) - 2
      <4>1. Cardinality((Pending(t) \ {p}) \ {p + 1}) = Cardinality(Pending(t) \ {p}) - 1
        BY <3>3, <3>4, FS_RemoveElement
      <4> QED BY <2>7, <3>3, <3>4, <4>1
    <3>6. Cardinality(Pending(t)) # 0
      BY <2>7, <3>3, FS_EmptySet
    <3> QED BY <1>1, <2>6, <2>7, <3>2, <3>5, <3>6 DEF Halved
  <2> QED BY <2>8, <2>9
<1>9. i' \in 1 .. Len(tuples') + 1 /\ Len(tuples') <= Len(sorted')
  BY <1>1, <1>2, <1>3
<1> QED BY <1>1, <1>2, <1>3, <1>5, <1>6, <1>7, <1>8, <1>9 DEF DedupInv, N

\* The index goes on from a tuple that differs from the next one: no copy of it
\* is pending after it, because the tuples are in order.
LEMMA DedupOther ==
  ASSUME InputInv, Dedup, ~Same(i)
  PROVE  DedupInv'
<1> DEFINE N == Len(tuples)
<1>1. /\ tuples \in Seq(Tuples) /\ sorted \in Seq(Tuples) /\ N \in Nat /\ Len(sorted) \in Nat
      /\ i \in Nat \ {0} /\ i < N /\ N <= Len(sorted) /\ tuples[i] # tuples[i + 1]
      /\ InOrder(tuples) /\ ToSet(tuples) = ToSet(sorted)
      /\ \A n \in i .. N : tuples[n] = sorted[n + Removed]
      /\ \A t \in Tuples : Halved(t)
  BY DEF InputInv, TypeOK, DedupInv, Dedup, Same
<1>2. tuples' = tuples /\ i' = i + 1 /\ sorted' = sorted /\ pc' = "dedup"
  BY DEF Dedup
<1>3. Removed' = Removed /\ Removed \in Nat /\ Removed = Len(sorted) - N
  BY <1>1, <1>2 DEF Removed
<1>4. \A n \in 1 .. N : tuples[n] \in Tuples
  BY <1>1
<1>5. ASSUME NEW n \in i + 1 .. N
      PROVE  tuples[n] # tuples[i]
  <2>1. i \in 1 .. N /\ i + 1 \in 1 .. N /\ n \in 1 .. N
    BY <1>1
  <2>2. Precedes(tuples[i], tuples[i + 1])
    <3>1. ~Precedes(tuples[i + 1], tuples[i])
      BY <1>1, <2>1 DEF InOrder
    <3> QED BY <1>1, <1>4, <2>1, <3>1, PrecedesOrders
  <2>3. n = i + 1 \/ ~Precedes(tuples[n], tuples[i + 1])
    BY <1>1, <2>1 DEF InOrder
  <2> QED BY <1>1, <1>4, <2>1, <2>2, <2>3
<1>6. ASSUME NEW t \in Tuples
      PROVE  Halved(t)'
  <2> DEFINE p == i + Removed
  <2>1. p \in Nat /\ p <= Len(sorted) /\ sorted[p] = tuples[i]
    <3>1. i \in i .. N
      BY <1>1
    <3> QED BY <1>1, <1>3, <3>1
  <2>2. Pending(t) = {n \in p .. Len(sorted) : sorted[n] = t}
    BY DEF Pending
  <2>3. Pending(t)' = {n \in p + 1 .. Len(sorted) : sorted[n] = t}
    <3>1. i' + Removed' = p + 1
      BY <1>1, <1>2, <1>3
    <3> QED BY <1>2, <3>1 DEF Pending
  <2>4. Settled(t)' = {n \in 1 .. i : tuples[n] = t}
    <3>1. i' - 1 = i
      BY <1>1, <1>2
    <3> QED BY <1>2, <3>1 DEF Settled
  <2>5. Settled(t) = {n \in 1 .. i - 1 : tuples[n] = t}
    BY DEF Settled
  <2>6. Copies(t, sorted)' = Copies(t, sorted)
    BY <1>2 DEF Copies
  <2>7. /\ IsFiniteSet(Settled(t)) /\ Cardinality(Settled(t)) \in Nat
        /\ IsFiniteSet(Pending(t)) /\ Cardinality(Pending(t)) \in Nat
        /\ Cardinality(Copies(t, sorted)) \in Nat
    BY <1>1, PlacesFinite DEF N
  <2>8. CASE tuples[i] # t
    <3> HIDE DEF p
    <3>1. Pending(t)' = Pending(t)
      BY <2>1, <2>2, <2>3, <2>8
    <3>2. Settled(t)' = Settled(t)
      BY <1>1, <2>4, <2>5, <2>8
    <3> QED BY <1>1, <2>6, <3>1, <3>2 DEF Halved
  <2>9. CASE tuples[i] = t
    <3>1. Settled(t)' = Settled(t) \cup {i} /\ i \notin Settled(t)
      BY <1>1, <2>4, <2>5, <2>9
    <3>2. Cardinality(Settled(t)') = Cardinality(Settled(t)) + 1
      BY <2>7, <3>1, FS_AddElement
    <3>3. ASSUME NEW n \in p + 1 .. Len(sorted)
          PROVE  sorted[n] # t
      <4>1. n - Removed \in i + 1 .. N /\ n - Removed \in i .. N /\ (n - Removed) + Removed = n
        BY <1>1, <1>3
      <4> HIDE DEF N, p
      <4>2. tuples[n - Removed] = sorted[n] /\ tuples[n - Removed] # tuples[i]
        BY <1>1, <1>5, <4>1
      <4> QED BY <2>9, <4>2
    <3> HIDE DEF p
    <3>4. Pending(t) = {p} /\ Pending(t)' = {}
      BY <2>1, <2>2, <2>3, <2>9, <3>3
    <3>5. Cardinality(Pending(t)) = 1 /\ Cardinality(Pending(t)') = 0
      BY <3>4, FS_Singleton, FS_EmptySet
    <3> QED BY <1>1, <2>6, <2>7, <3>2, <3>5 DEF Halved
  <2> QED BY <2>8, <2>9
<1>7. i' \in 1 .. Len(tuples') + 1
  BY <1>1, <1>2
<1>8. \A n \in i' .. N : n \in i .. N
  BY <1>1, <1>2
<1> QED BY <1>1, <1>2, <1>3, <1>6, <1>7, <1>8 DEF DedupInv, InOrder

\* At the end no two copies are pending: an even number was halved, and of an odd
\* number one more was kept.
LEMMA Thinned ==
  ASSUME InputInv, pc = "dedup", i >= Len(tuples), NEW t \in Tuples
  PROVE  Cardinality(Copies(t, tuples)) = (Cardinality(Copies(t, sorted)) + 1) \div 2
<1> DEFINE N == Len(tuples)
           p == i + Removed
<1>1. /\ tuples \in Seq(Tuples) /\ sorted \in Seq(Tuples) /\ N \in Nat /\ Len(sorted) \in Nat
      /\ i \in Nat \ {0} /\ (i = N \/ i = N + 1) /\ N <= Len(sorted)
      /\ \A n \in i .. N : tuples[n] = sorted[n + Removed]
      /\ Halved(t)
  BY DEF InputInv, TypeOK, DedupInv
<1>2. Removed \in Nat /\ N + Removed = Len(sorted)
  BY <1>1 DEF Removed
<1>3. /\ IsFiniteSet(Settled(t)) /\ Cardinality(Settled(t)) \in Nat
      /\ IsFiniteSet(Pending(t)) /\ Cardinality(Pending(t)) \in Nat
      /\ Cardinality(Copies(t, sorted)) \in Nat
  BY <1>1, PlacesFinite DEF N
<1>4. Pending(t) = {n \in p .. Len(sorted) : sorted[n] = t}
  BY DEF Pending
<1>5. Settled(t) = {n \in 1 .. i - 1 : tuples[n] = t}
  BY DEF Settled
<1>6. Copies(t, tuples) = {n \in 1 .. N : tuples[n] = t}
  BY DEF Copies
<1> HIDE DEF N, p
<1>7. CASE i = N /\ tuples[N] = t
  <2>1. p = Len(sorted) /\ p \in Nat /\ sorted[p] = t
    <3>1. p = N + Removed /\ i \in i .. N
      BY <1>1, <1>7 DEF p
    <3> QED BY <1>1, <1>2, <1>7, <3>1
  <2>2. Pending(t) = {p}
    BY <1>4, <2>1
  <2>3. Copies(t, tuples) = Settled(t) \cup {N} /\ N \notin Settled(t)
    BY <1>1, <1>5, <1>6, <1>7
  <2>4. Cardinality(Pending(t)) = 1
    BY <2>2, FS_Singleton
  <2>5. Cardinality(Copies(t, tuples)) = Cardinality(Settled(t)) + 1
    BY <1>3, <2>3, FS_AddElement
  <2> QED BY <1>1, <1>3, <2>4, <2>5 DEF Halved
<1>8. CASE i = N + 1 \/ tuples[N] # t
  <2>1. Pending(t) = {}
    <3>1. CASE i = N + 1
      <4>1. p = Len(sorted) + 1
        BY <1>1, <1>2, <3>1 DEF p
      <4> QED BY <1>1, <1>4, <4>1
    <3>2. CASE i = N /\ tuples[N] # t
      <4>1. p = Len(sorted) /\ sorted[p] # t
        <5>1. p = N + Removed /\ i \in i .. N
          BY <1>1, <3>2 DEF p
        <5> QED BY <1>1, <1>2, <3>2, <5>1
      <4> QED BY <1>1, <1>4, <4>1
    <3> QED BY <1>1, <1>8, <3>1, <3>2
  <2>2. Copies(t, tuples) = Settled(t)
    BY <1>1, <1>5, <1>6, <1>8
  <2>3. Cardinality(Pending(t)) = 0
    BY <2>1, FS_EmptySet
  <2> QED BY <1>1, <1>3, <2>2, <2>3 DEF Halved
<1> QED BY <1>1, <1>7, <1>8

\* The steps that find the end of the list of tuples, or an error.
LEMMA EndDedupStep ==
  ASSUME InputInv, EndDedup
  PROVE  DuplicatesThinned' /\ PairInv'
<1>1. /\ tuples \in Seq(Tuples) /\ sorted \in Seq(Tuples)
      /\ InOrder(tuples) /\ ToSet(tuples) = ToSet(sorted) /\ pairs = <<>>
      /\ pc = "dedup" /\ i >= Len(tuples)
  BY DEF InputInv, TypeOK, DedupInv, PairInv, EndDedup
<1>2. tuples' = tuples /\ sorted' = sorted /\ pairs' = pairs /\ i' = 0 /\ j' = 1
  BY DEF EndDedup
<1>3. pc' = "error" \/ (pc' = "pair" /\ Len(tuples) > 2)
  BY <1>1 DEF EndDedup
<1>4. DuplicatesThinned'
  <2>1. \A t \in ToSet(sorted) :
          Cardinality(Copies(t, tuples)) = (Cardinality(Copies(t, sorted)) + 1) \div 2
    <3>1. ToSet(sorted) \subseteq Tuples
      BY <1>1 DEF ToSet
    <3> QED BY <1>1, <3>1, Thinned
  <2>2. \A n \in 1 .. Len(tuples) - 1 : ~Precedes(tuples[n + 1], tuples[n])
    <3> TAKE n \in 1 .. Len(tuples) - 1
    <3>1. n \in 1 .. Len(tuples) /\ n + 1 \in 1 .. Len(tuples) /\ n < n + 1
      BY <1>1
    <3> QED BY <1>1, <3>1 DEF InOrder
  <2> QED BY <1>1, <1>2, <2>1, <2>2 DEF DuplicatesThinned
<1>5. PairInv'
  <2>1. Passed(i, j)' = {}
    BY <1>1, <1>2 DEF Passed, Indexes
  <2>2. ToSet(pairs)' = {}
    BY <1>1, <1>2 DEF ToSet
  <2>3. PairsInOrder'
    BY <1>1, <1>2 DEF PairsInOrder
  <2>4. InOrder(tuples)' /\ Len(tuples') \in Nat
    BY <1>1, <1>2
  <2>5. ToSet(pairs') = Passed(i, j)'
    BY <2>1, <2>2
  <2>6. i' \in 0 .. Len(tuples') /\ (pc' = "pair" => j' \in i' + 1 .. Len(tuples'))
    BY <1>1, <1>2, <1>3
  <2>7. pc' # "read" /\ pc' # "dedup" /\ pc' # "done"
    BY <1>3
  <2>8. pc' \in {"pair", "done"} => pc' = "pair"
    BY <2>7
  <2> QED BY <2>3, <2>4, <2>5, <2>6, <2>7, <2>8 DEF PairInv
<1> QED BY <1>4, <1>5

\* What the loops come past in one step, over a list that stays.
LEMMA Passing ==
  ASSUME tuples \in Seq(Tuples), NEW a \in Nat, NEW b \in Nat, a < b, b < Len(tuples)
  PROVE  /\ tuples' = tuples => Passed(i, j)' = Passed(i', j')
         /\ Viable(a, b) => Passed(a, b + 1) = Passed(a, b) \cup {<<a, b>>}
         /\ ~Viable(a, b) => Passed(a, b + 1) = Passed(a, b)
<1>1. tuples' = tuples => Passed(i, j)' = Passed(i', j')
  BY DEF Passed, Indexes, Viable, Tweak
<1>2. \A p : p \in Passed(a, b) <=>
         /\ p \in Indexes \X Indexes /\ p[1] < p[2] /\ Viable(p[1], p[2])
         /\ p[1] < a \/ (p[1] = a /\ p[2] < b)
  BY DEF Passed
<1>3. \A p : p \in Passed(a, b + 1) <=>
         /\ p \in Indexes \X Indexes /\ p[1] < p[2] /\ Viable(p[1], p[2])
         /\ p[1] < a \/ (p[1] = a /\ p[2] < b + 1)
  BY DEF Passed
<1>4. Indexes \subseteq Nat /\ a \in Indexes /\ b \in Indexes
  BY DEF Indexes
<1>5. ASSUME NEW p \in Indexes \X Indexes
      PROVE  p[2] < b + 1 <=> p[2] < b \/ p[2] = b
  <2>1. p[2] \in Nat
    BY <1>4
  <2> QED BY <2>1
<1>6. \A p \in Indexes \X Indexes : p = <<p[1], p[2]>>
  OBVIOUS
<1> HIDE DEF Passed
<1>7. ASSUME Viable(a, b)
      PROVE  Passed(a, b + 1) = Passed(a, b) \cup {<<a, b>>}
  <2>1. ASSUME NEW p
        PROVE  p \in Passed(a, b + 1) <=> p \in Passed(a, b) \/ p = <<a, b>>
    BY <1>2, <1>3, <1>4, <1>5, <1>6, <1>7
  <2> QED BY <2>1
<1>8. ASSUME ~Viable(a, b)
      PROVE  Passed(a, b + 1) = Passed(a, b)
  <2>1. ASSUME NEW p
        PROVE  p \in Passed(a, b + 1) <=> p \in Passed(a, b)
    BY <1>2, <1>3, <1>4, <1>5, <1>6, <1>8
  <2> QED BY <2>1
<1> QED BY <1>1, <1>7, <1>8

\* A tweak that is not smaller does not have a smaller high part.
LEMMA HighMonotone ==
  ASSUME NEW s \in Nat, NEW t \in Nat, s <= t
  PROVE  High(s) <= High(t) /\ High(s) \in Int /\ High(t) \in Int
<1> DEFINE c == NumByte * NumLow
<1>1. c \in Nat \ {0}
  BY TupleAssumption
<1>2. High(s) = s \div c /\ High(t) = t \div c
  BY DEF High
<1> HIDE DEF c
<1> QED BY <1>1, <1>2

\* A step of the inner loop: the viable pair is the next one in the order.
LEMMA PairStep ==
  ASSUME InputInv, Pair
  PROVE  PairInv'
<1>1. /\ tuples \in Seq(Tuples) /\ pairs \in Seq(Nat \X Nat) /\ i \in Nat /\ j \in Nat
      /\ i < Len(tuples) /\ i < j /\ j < Len(tuples) /\ Viable(i, j)
      /\ InOrder(tuples) /\ ToSet(pairs) = Passed(i, j) /\ PairsInOrder /\ pc = "pair"
  BY DEF InputInv, TypeOK, PairInv, Pair, Comparing
<1>2. /\ tuples' = tuples /\ i' = i /\ j' = j + 1 /\ pc' = "pair"
      /\ pairs' = Append(pairs, <<i, j>>)
  BY <1>1 DEF Pair
<1> DEFINE N == Len(pairs)
<1>3. /\ N \in Nat /\ Len(pairs') = N + 1 /\ pairs'[N + 1] = <<i, j>>
      /\ \A n \in 1 .. N : pairs'[n] = pairs[n]
  BY <1>1, <1>2
<1>4. Passed(i, j)' = Passed(i, j) \cup {<<i, j>>}
  BY <1>1, <1>2, Passing
<1>5. ToSet(pairs') = ToSet(pairs) \cup {<<i, j>>}
  <2>1. /\ ToSet(pairs) = {pairs[n] : n \in 1 .. N}
        /\ ToSet(pairs') = {pairs'[n] : n \in 1 .. N + 1}
    <3>1. pairs' \in Seq(Nat \X Nat) /\ DOMAIN pairs' = 1 .. N + 1 /\ DOMAIN pairs = 1 .. N
      BY <1>1, <1>2, <1>3
    <3> QED BY <3>1 DEF ToSet
  <2> HIDE DEF N
  <2>2. 1 .. N + 1 = (1 .. N) \cup {N + 1}
    BY <1>3
  <2> QED BY <1>3, <2>1, <2>2
<1>6. PairsInOrder'
  <2> SUFFICES ASSUME NEW m \in 1 .. N + 1, NEW n \in 1 .. N + 1, m < n
               PROVE  \/ pairs'[m][1] < pairs'[n][1]
                      \/ pairs'[m][1] = pairs'[n][1] /\ pairs'[m][2] < pairs'[n][2]
    BY <1>3 DEF PairsInOrder
  <2>1. m \in 1 .. N
    BY <1>3
  <2>2. CASE n \in 1 .. N
    <3>1. pairs'[m] = pairs[m] /\ pairs'[n] = pairs[n]
      BY <1>3, <2>1, <2>2
    <3>2. \/ pairs[m][1] < pairs[n][1]
          \/ pairs[m][1] = pairs[n][1] /\ pairs[m][2] < pairs[n][2]
      BY <1>1, <2>1, <2>2 DEF PairsInOrder
    <3> QED BY <3>1, <3>2
  <2>3. CASE n = N + 1
    <3>1. pairs[m] \in Passed(i, j)
      BY <1>1, <2>1 DEF ToSet
    <3>2. pairs[m][1] < i \/ (pairs[m][1] = i /\ pairs[m][2] < j)
      BY <3>1 DEF Passed
    <3> QED BY <1>3, <2>1, <2>3, <3>2
  <2> QED BY <1>3, <2>2, <2>3
<1> HIDE DEF N
<1>7. j' \in i' + 1 .. Len(tuples') /\ i' \in 0 .. Len(tuples')
  BY <1>1, <1>2
<1> QED BY <1>1, <1>2, <1>4, <1>5, <1>6, <1>7 DEF PairInv

\* A step of the inner loop past two tuples that are not a pair.
LEMMA NoPairStep ==
  ASSUME InputInv, NoPair
  PROVE  PairInv'
<1>1. /\ tuples \in Seq(Tuples) /\ i \in Nat /\ j \in Nat
      /\ i < Len(tuples) /\ i < j /\ j < Len(tuples) /\ ~Viable(i, j)
      /\ InOrder(tuples) /\ ToSet(pairs) = Passed(i, j) /\ PairsInOrder /\ pc = "pair"
  BY DEF InputInv, TypeOK, PairInv, NoPair, Comparing
<1>2. /\ tuples' = tuples /\ i' = i /\ j' = j + 1 /\ pc' = "pair" /\ pairs' = pairs
  BY <1>1 DEF NoPair
<1>3. Passed(i, j)' = Passed(i, j)
  BY <1>1, <1>2, Passing
<1>4. j' \in i' + 1 .. Len(tuples') /\ i' \in 0 .. Len(tuples')
  BY <1>1, <1>2
<1>5. PairsInOrder'
  BY <1>1, <1>2 DEF PairsInOrder
<1> QED BY <1>1, <1>2, <1>3, <1>4, <1>5 DEF PairInv

\* The end of the inner loop, for want of tuples or because the high parts
\* differ: tuple i has no partner after j, because the tuples are in order.
LEMMA NextFirstStep ==
  ASSUME InputInv, NextFirst
  PROVE  PairInv'
<1>1. /\ tuples \in Seq(Tuples) /\ i \in Nat /\ j \in Nat
      /\ i < Len(tuples) /\ i < j /\ j <= Len(tuples)
      /\ j < Len(tuples) => High(Tweak(i)) # High(Tweak(j))
      /\ InOrder(tuples) /\ ToSet(pairs) = Passed(i, j) /\ PairsInOrder /\ pc = "pair"
  BY DEF InputInv, TypeOK, PairInv, NextFirst, PastEnd
<1>2. /\ tuples' = tuples /\ i' = i + 1 /\ j' = i + 2 /\ pc' = "pair" /\ pairs' = pairs
  BY <1>1 DEF NextFirst
<1>3. ASSUME NEW a \in Indexes
      PROVE  Tweak(a) \in Nat
  <2>1. \A t \in Tuples : t.tweak \in Nat
    BY TupleAssumption DEF Tuples
  <2>2. a + 1 \in 1 .. Len(tuples)
    BY <1>1 DEF Indexes
  <2> QED BY <1>1, <2>1, <2>2 DEF Tweak
<1>4. \A a, b \in Indexes : a <= b => Tweak(a) <= Tweak(b)
  <2> SUFFICES ASSUME NEW a \in Indexes, NEW b \in Indexes, a < b
               PROVE  Tweak(a) <= Tweak(b)
    BY <1>1, <1>3 DEF Indexes
  <2>1. a + 1 \in 1 .. Len(tuples) /\ b + 1 \in 1 .. Len(tuples) /\ a + 1 < b + 1
    BY <1>1 DEF Indexes
  <2>2. ~Precedes(tuples[b + 1], tuples[a + 1])
    BY <1>1, <2>1 DEF InOrder
  <2> QED BY <1>3, <2>2 DEF Precedes, Tweak
<1>5. ASSUME NEW b \in Indexes, j <= b
      PROVE  ~Viable(i, b)
  <2>1. i \in Indexes /\ j \in Indexes /\ j < Len(tuples)
    BY <1>1, <1>5 DEF Indexes
  <2>2. Tweak(i) <= Tweak(j) /\ Tweak(j) <= Tweak(b)
    BY <1>1, <1>4, <1>5, <2>1
  <2>3. High(Tweak(i)) <= High(Tweak(j)) /\ High(Tweak(j)) <= High(Tweak(b))
    BY <1>3, <2>1, <2>2, HighMonotone
  <2>4. /\ High(Tweak(i)) \in Int /\ High(Tweak(j)) \in Int /\ High(Tweak(b)) \in Int
    BY <1>3, <2>1, HighMonotone
  <2> QED BY <1>1, <2>1, <2>3, <2>4 DEF Viable
<1>6. Passed(i + 1, i + 2) = Passed(i, j)
  <2> SUFFICES ASSUME NEW p \in Indexes \X Indexes, p[1] < p[2], Viable(p[1], p[2])
               PROVE  p[1] < i + 1 \/ (p[1] = i + 1 /\ p[2] < i + 2)
                        <=> p[1] < i \/ (p[1] = i /\ p[2] < j)
    BY DEF Passed
  <2>1. p[1] \in Nat /\ p[2] \in Nat /\ p[2] \in Indexes
    BY DEF Indexes
  <2>2. p[1] = i => p[2] < j
    BY <1>1, <1>5, <2>1
  <2> QED BY <1>1, <2>1, <2>2
<1>7. Passed(i, j)' = Passed(i, j)
  BY <1>1, <1>2, <1>6 DEF Passed, Indexes, Viable, Tweak
<1>8. i' \in 0 .. Len(tuples') /\ (i' < Len(tuples') => j' \in i' + 1 .. Len(tuples'))
  BY <1>1, <1>2
<1>9. PairsInOrder'
  BY <1>1, <1>2 DEF PairsInOrder
<1> QED BY <1>1, <1>2, <1>7, <1>8, <1>9 DEF PairInv

\* Nothing is read yet.
LEMMA InputInitially == Init => InputInv
<1> SUFFICES ASSUME Init
             PROVE  InputInv
  OBVIOUS
<1>1. TypeOK
  BY TupleAssumption DEF Init, TypeOK
<1> QED BY <1>1 DEF Init, InputInv, DedupInv, DuplicatesThinned, PairInv

\* Every step of the input keeps its invariant.
LEMMA InputStep ==
  ASSUME InputInv, [Next]_vars
  PROVE  InputInv'
<1>1. TypeOK'
  BY InputType
<1> SUFFICES DedupInv' /\ DuplicatesThinned' /\ PairInv'
  BY <1>1 DEF InputInv
<1>2. ASSUME UNCHANGED <<tuples, sorted>>, pc \in {"pair", "done"}, pc' \in {"pair", "done"}
      PROVE  DuplicatesThinned'
  BY <1>2 DEF InputInv, DuplicatesThinned
<1>3. pc' # "dedup" => DedupInv'
  BY DEF DedupInv
<1>4. pc' # "pair" /\ pc' # "done" => DuplicatesThinned'
  BY DEF DuplicatesThinned
<1>5. /\ pc' # "pair" /\ pc' # "done"
      /\ pc' # "error" => pairs' = <<>>
      => PairInv'
  <2>1. pc' \in {"read", "dedup"} => pc' # "error"
    OBVIOUS
  <2> QED BY <2>1 DEF PairInv
<1>6. pc \in {"read", "dedup"} => pairs = <<>>
  BY DEF InputInv, PairInv
<1>7. CASE ReadTuple \/ SkipLine
  <2>1. pc' = "read" /\ pairs' = <<>>
    BY <1>6, <1>7 DEF ReadTuple, SkipLine
  <2> QED BY <1>3, <1>4, <1>5, <2>1
<1>8. CASE ReadFails \/ PairFails
  <2>1. pc' = "error"
    BY <1>8 DEF ReadFails, PairFails
  <2> QED BY <1>3, <1>4, <1>5, <2>1
<1>9. CASE Sort
  <2>1. pc' = "dedup" /\ pairs' = <<>>
    BY <1>6, <1>9 DEF Sort
  <2> QED BY <1>4, <1>5, <1>9, <2>1, SortStep
<1>10. CASE Dedup
  <2>1. pc' = "dedup" /\ pairs' = <<>>
    BY <1>6, <1>10 DEF Dedup
  <2> QED BY <1>4, <1>5, <1>10, <2>1, DedupSame, DedupOther
<1>11. CASE EndDedup
  <2>1. pc' # "dedup"
    BY <1>11 DEF EndDedup
  <2> QED BY <1>3, <1>11, <2>1, EndDedupStep
<1>12. CASE Pair \/ NoPair \/ NextFirst
  <2>1. UNCHANGED <<tuples, sorted>> /\ pc = "pair" /\ pc' = "pair"
    BY <1>12 DEF Pair, NoPair, NextFirst, Comparing
  <2> QED BY <1>2, <1>3, <1>12, <2>1, PairStep, NoPairStep, NextFirstStep
<1>13. CASE EndPairs
  <2>1. /\ UNCHANGED <<tuples, sorted, i, j, pairs>> /\ pc = "pair" /\ pc' = "done"
        /\ i = Len(tuples)
    BY <1>13 DEF EndPairs
  <2>2. Passed(i, j)' = Passed(i, j)
    BY <2>1 DEF Passed, Indexes, Viable, Tweak
  <2>3. PairInv'
    BY <2>1, <2>2 DEF InputInv, PairInv, PairsInOrder, InOrder
  <2> QED BY <1>2, <1>3, <2>1, <2>3
<1>14. CASE UNCHANGED vars
  <2>1. UNCHANGED <<pc, tuples, sorted, i, j, pairs>>
    BY <1>14 DEF vars
  <2>2. Passed(i, j)' = Passed(i, j)
    BY <2>1 DEF Passed, Indexes, Viable, Tweak
  <2>3. PairInv'
    BY <2>1, <2>2 DEF InputInv, PairInv, PairsInOrder, InOrder
  <2>4. ASSUME NEW t
        PROVE  Halved(t)' <=> Halved(t)
    BY <2>1 DEF Halved, Settled, Pending, Copies, Removed
  <2>5. DedupInv'
    <3>1. Removed' = Removed
      BY <2>1 DEF Removed
    <3> QED BY <2>1, <2>4, <3>1 DEF InputInv, DedupInv, InOrder
  <2>6. DuplicatesThinned'
    BY <2>1 DEF InputInv, DuplicatesThinned
  <2> QED BY <2>3, <2>5, <2>6
<1> QED BY <1>1, <1>7, <1>8, <1>9, <1>10, <1>11, <1>12, <1>13, <1>14 DEF Next

\* When the loops have ended they have come past every viable pair.
LEMMA AllPairs == InputInv => PairsAreRight
<1> SUFFICES ASSUME InputInv, pc = "done"
             PROVE  PairsAreRight
  BY DEF PairsAreRight
<1>1. tuples \in Seq(Tuples) /\ i = Len(tuples) /\ ToSet(pairs) = Passed(i, j) /\ PairsInOrder
  BY DEF InputInv, TypeOK, PairInv
<1>2. \A a \in Indexes : a < i
  BY <1>1 DEF Indexes
<1>3. Passed(i, j) = {p \in Indexes \X Indexes : p[1] < p[2] /\ Viable(p[1], p[2])}
  BY <1>2 DEF Passed
<1> QED BY <1>1, <1>3 DEF PairsAreRight, PairsInOrder

-----------------------------------------------------------------------------
(* The thresholds.                                                           *)

\* The natural numbers are well ordered, and so a set of them with zero and with
\* the successors of its elements is all of them: induction, for a set.
LEMMA SmallestElement ==
  ASSUME NEW S \in SUBSET Nat, S # {}
  PROVE  \E n \in S : \A m \in S : n <= m
<1> DEFINE R == {p \in Nat \X Nat : p[1] < p[2]}
<1>1. IsWellFoundedOn(R, Nat)
  BY NatLessThanWellFounded DEF OpToRel
<1>2. \A m, n \in Nat : <<m, n>> \notin R => n <= m
  OBVIOUS
<1> HIDE DEF R
<1>3. \E n \in S : \A m \in S : <<m, n>> \notin R
  BY <1>1, WFMin
<1> QED BY <1>2, <1>3

\* A set with zero and with the successors of its elements has all of them:
\* induction, for a set.
LEMMA InductionOnSet ==
  ASSUME NEW P, 0 \in P, \A n \in Nat : n \in P => n + 1 \in P
  PROVE  Nat \subseteq P
<1> SUFFICES ASSUME Nat \ P # {}
             PROVE  FALSE
  OBVIOUS
<1>1. Nat \ P \in SUBSET Nat
  OBVIOUS
<1>2. PICK n \in Nat \ P : \A m \in Nat \ P : n <= m
  BY <1>1, SmallestElement
<1>3. n - 1 \in Nat /\ ~(n <= n - 1) /\ (n - 1) + 1 = n
  BY <1>2
<1>4. n - 1 \in P
  BY <1>2, <1>3
<1> QED BY <1>2, <1>3, <1>4

\* What the loop of get_tau leaves when it starts with tau: one less than the
\* largest tau that reaches the probability, or zero.
IsStop(reach, tau, v) ==
  \/ v = 0 /\ \A t \in 1 .. tau : ~reach[t]
  \/ /\ v + 1 \in 1 .. tau /\ reach[v + 1]
     /\ \A t \in v + 2 .. tau : ~reach[t]

\* There is such a number, and it is what the step of the loop gives.
LEMMA StopExists ==
  ASSUME NEW reach \in Chances
  PROVE  \A tau \in Nat : tau <= MaxTau =>
           /\ \E v \in 0 .. MaxTau : IsStop(reach, tau, v)
           /\ \A v, w \in 0 .. MaxTau : IsStop(reach, tau, v) /\ IsStop(reach, tau, w) => v = w
<1> DEFINE P == {tau \in Nat : tau <= MaxTau => \E v \in 0 .. MaxTau : IsStop(reach, tau, v)}
<1>1. 0 \in P
  BY MainAssumption DEF IsStop
<1>2. ASSUME NEW tau \in Nat, tau \in P
      PROVE  tau + 1 \in P
  <2> SUFFICES ASSUME tau + 1 <= MaxTau
               PROVE  \E v \in 0 .. MaxTau : IsStop(reach, tau + 1, v)
    OBVIOUS
  <2>1. PICK v \in 0 .. MaxTau : IsStop(reach, tau, v)
    BY <1>2, MainAssumption
  <2>2. CASE reach[tau + 1]
    <3>1. IsStop(reach, tau + 1, tau)
      BY <2>2 DEF IsStop
    <3>2. tau \in 0 .. MaxTau
      BY MainAssumption
    <3> QED BY <3>1, <3>2
  <2>3. CASE ~reach[tau + 1]
    <3>1. \A t \in 1 .. tau + 1 : t \in 1 .. tau \/ t = tau + 1
      OBVIOUS
    <3>2. \A t \in v + 2 .. tau + 1 : t \in v + 2 .. tau \/ t = tau + 1
      OBVIOUS
    <3>3. v + 1 \in 1 .. tau => v + 1 \in 1 .. tau + 1
      OBVIOUS
    <3>4. IsStop(reach, tau + 1, v)
      BY <2>1, <2>3, <3>1, <3>2, <3>3 DEF IsStop
    <3> QED BY <3>4
  <2> QED BY <2>2, <2>3
<1>3. Nat \subseteq P
  <2> HIDE DEF P
  <2> QED BY <1>1, <1>2, InductionOnSet
<1>4. ASSUME NEW tau \in Nat, NEW v \in 0 .. MaxTau, NEW w \in 0 .. MaxTau,
             IsStop(reach, tau, v), IsStop(reach, tau, w)
      PROVE  v = w
  <2>1. v + 1 \in 1 .. tau /\ reach[v + 1] => ~(\A t \in 1 .. tau : ~reach[t])
    OBVIOUS
  <2>2. w + 1 \in 1 .. tau /\ reach[w + 1] => ~(\A t \in 1 .. tau : ~reach[t])
    OBVIOUS
  <2>3. ASSUME v + 1 \in 1 .. tau, reach[v + 1], \A t \in v + 2 .. tau : ~reach[t],
               w + 1 \in 1 .. tau, reach[w + 1], \A t \in w + 2 .. tau : ~reach[t]
        PROVE  v = w
    <3>1. ~(w + 1 \in v + 2 .. tau) /\ ~(v + 1 \in w + 2 .. tau)
      BY <2>3
    <3> QED BY <2>3, <3>1
  <2> QED BY <1>4, <2>1, <2>2, <2>3 DEF IsStop
<1> QED BY <1>3, <1>4

\* The recursive function is defined, because a function as it describes exists.
LEMMA StopsDefined ==
  Stops = [tau \in 0 .. MaxTau |->
            [reach \in Chances |->
               IF tau = 0 THEN 0 ELSE IF reach[tau] THEN tau - 1 ELSE Stops[tau - 1][reach]]]
<1> DEFINE best(reach, tau) == CHOOSE v \in 0 .. MaxTau : IsStop(reach, tau, v)
           f == [tau \in 0 .. MaxTau |-> [reach \in Chances |-> best(reach, tau)]]
           step(tau, reach) ==
             IF tau = 0 THEN 0 ELSE IF reach[tau] THEN tau - 1 ELSE f[tau - 1][reach]
<1>1. MaxTau \in Nat
  BY MainAssumption
<1>2. \A reach \in Chances : \A tau \in 0 .. MaxTau :
        best(reach, tau) \in 0 .. MaxTau /\ IsStop(reach, tau, best(reach, tau))
  <2> TAKE reach \in Chances
  <2> TAKE tau \in 0 .. MaxTau
  <2>1. \E v \in 0 .. MaxTau : IsStop(reach, tau, v)
    BY <1>1, StopExists
  <2> QED BY <2>1
<1>3. ASSUME NEW reach \in Chances, NEW tau \in 0 .. MaxTau
      PROVE  best(reach, tau) = step(tau, reach)
  <2>1. ASSUME NEW v \in 0 .. MaxTau, IsStop(reach, tau, v)
        PROVE  best(reach, tau) = v
    <3>1. best(reach, tau) \in 0 .. MaxTau /\ IsStop(reach, tau, best(reach, tau))
      BY <1>2
    <3> HIDE DEF best
    <3> QED BY <1>1, <2>1, <3>1, StopExists
  <2> HIDE DEF best
  <2>2. CASE tau = 0
    <3>1. IsStop(reach, tau, 0)
      BY <2>2 DEF IsStop
    <3> QED BY <1>1, <2>1, <2>2, <3>1
  <2>3. CASE tau # 0 /\ reach[tau]
    <3>1. IsStop(reach, tau, tau - 1) /\ tau - 1 \in 0 .. MaxTau
      BY <1>1, <2>3 DEF IsStop
    <3> QED BY <2>1, <2>3, <3>1
  <2>4. CASE tau # 0 /\ ~reach[tau]
    <3>1. tau - 1 \in 0 .. MaxTau
      BY <1>1, <2>4
    <3> DEFINE v == best(reach, tau - 1)
    <3>2. v \in 0 .. MaxTau /\ IsStop(reach, tau - 1, v)
      BY <1>2, <3>1
    <3> HIDE DEF v
    <3>3. \A t \in 1 .. tau : t \in 1 .. tau - 1 \/ t = tau
      OBVIOUS
    <3>4. \A t \in v + 2 .. tau : t \in v + 2 .. tau - 1 \/ t = tau
      BY <1>1, <3>2
    <3>5. v + 1 \in 1 .. tau - 1 => v + 1 \in 1 .. tau
      BY <1>1, <3>2
    <3>6. IsStop(reach, tau, v)
      BY <2>4, <3>2, <3>3, <3>4, <3>5 DEF IsStop
    <3>7. step(tau, reach) = v
      BY <2>4, <3>1 DEF v
    <3> QED BY <2>1, <3>2, <3>6, <3>7
  <2> QED BY <2>2, <2>3, <2>4
<1>4. f = [tau \in 0 .. MaxTau |-> [reach \in Chances |-> step(tau, reach)]]
  <2> DEFINE g == [tau \in 0 .. MaxTau |-> [reach \in Chances |-> step(tau, reach)]]
  <2>1. ASSUME NEW tau \in 0 .. MaxTau
        PROVE  [reach \in Chances |-> best(reach, tau)] = [reach \in Chances |-> step(tau, reach)]
    <3> HIDE DEF best, step
    <3> QED BY <1>3
  <2> HIDE DEF best, step
  <2> QED BY <2>1
<1>5. \E h : h = [tau \in 0 .. MaxTau |->
                  [reach \in Chances |->
                     IF tau = 0 THEN 0 ELSE IF reach[tau] THEN tau - 1 ELSE h[tau - 1][reach]]]
  <2> HIDE DEF f
  <2> QED BY <1>4
<1> HIDE DEF f
<1> QED BY <1>5 DEF Stops

\* The loop of get_tau stops where it should, from every tau.
LEMMA StopsRight ==
  ASSUME NEW reach \in Chances
  PROVE  Stops[MaxTau][reach] \in 0 .. MaxTau /\ IsStop(reach, MaxTau, Stops[MaxTau][reach])
<1>1. MaxTau \in Nat
  BY MainAssumption
<1>2. \A tau \in 0 .. MaxTau :
        Stops[tau][reach] =
          IF tau = 0 THEN 0 ELSE IF reach[tau] THEN tau - 1 ELSE Stops[tau - 1][reach]
  <2> TAKE tau \in 0 .. MaxTau
  <2>1. Stops[tau] = [r \in Chances |->
                       IF tau = 0 THEN 0 ELSE IF r[tau] THEN tau - 1 ELSE Stops[tau - 1][r]]
    BY StopsDefined
  <2> QED BY <2>1
<1> DEFINE P == {tau \in Nat : tau <= MaxTau =>
                  Stops[tau][reach] \in 0 .. MaxTau /\ IsStop(reach, tau, Stops[tau][reach])}
<1>3. 0 \in P
  BY <1>1, <1>2 DEF IsStop
<1>4. ASSUME NEW n \in Nat, n \in P
      PROVE  n + 1 \in P
  <2> DEFINE tau == n + 1
             v == Stops[n][reach]
  <2> SUFFICES ASSUME tau <= MaxTau
               PROVE  Stops[tau][reach] \in 0 .. MaxTau /\ IsStop(reach, tau, Stops[tau][reach])
    OBVIOUS
  <2>1. v \in 0 .. MaxTau /\ IsStop(reach, n, v)
    BY <1>1, <1>4
  <2>2. Stops[tau][reach] = IF reach[tau] THEN n ELSE v
    <3>1. tau \in 0 .. MaxTau /\ tau # 0 /\ tau - 1 = n
      BY <1>1
    <3> QED BY <1>2, <3>1
  <2> HIDE DEF v
  <2>3. CASE reach[tau]
    BY <1>1, <2>2, <2>3 DEF IsStop
  <2>4. CASE ~reach[tau]
    <3>1. \A t \in 1 .. tau : t \in 1 .. n \/ t = tau
      OBVIOUS
    <3>2. \A t \in v + 2 .. tau : t \in v + 2 .. n \/ t = tau
      BY <1>1, <2>1
    <3>3. v + 1 \in 1 .. n => v + 1 \in 1 .. tau
      BY <1>1, <2>1
    <3> QED BY <2>1, <2>2, <2>4, <3>1, <3>2, <3>3 DEF IsStop
  <2> QED BY <2>3, <2>4
<1>5. Nat \subseteq P
  <2> HIDE DEF P
  <2> QED BY <1>3, <1>4, InductionOnSet
<1> QED BY <1>1, <1>5

\* get_tau returns the largest threshold that reaches the probability, or 1.
LEMMA TauIsLargest ==
  ASSUME NEW reach \in Chances
  PROVE  GetTau(reach) \in Nat /\ Largest(reach, GetTau(reach))
<1>1. MaxTau \in Nat \ {0}
  BY MainAssumption
<1> DEFINE v == Stops[MaxTau][reach]
<1>2. v \in 0 .. MaxTau /\ IsStop(reach, MaxTau, v) /\ GetTau(reach) = v + 1
  BY StopsRight DEF GetTau
<1> HIDE DEF v
<1> QED BY <1>1, <1>2 DEF IsStop, Largest

\* No threshold above the largest one reaches the probability.
LEMMA NoneAbove ==
  ASSUME NEW reach \in Chances, NEW tau, Largest(reach, tau), NEW t \in 1 .. MaxTau, reach[t]
  PROVE  t <= tau
<1>1. MaxTau \in Nat
  BY MainAssumption
<1>2. tau \in 1 .. MaxTau /\ ~(t \in tau + 1 .. MaxTau)
  BY DEF Largest
<1> QED BY <1>1, <1>2

-----------------------------------------------------------------------------
(* The device list.                                                          *)

\* A list of devices that a pool may be given.
Usable(list) ==
  /\ list # <<>>
  /\ list \in Seq(0 .. MaxDevices - 1)
  /\ IsInjective(list)
  /\ ToSet(list) \subseteq 0 .. num_devices - 1
  /\ options.devices # <<>> => list = options.devices

\* With the devices that exist, of a list in which all do, the pool gets the list;
\* without a list it gets the first ones.
LEMMA SelectedUsable ==
  ASSUME options.devices \in Seq(Nat), IsInjective(options.devices), AllExist,
         num_devices \in 0 .. MaxDevices, num_devices > 0
  PROVE  Usable(Selected)
<1>1. MaxDevices \in Nat /\ MAX_DEVICES \in Nat \ {0} /\ num_devices \in Nat \ {0}
  BY MainAssumption
<1>2. CASE options.devices = <<>>
  <2> DEFINE all == [n \in 1 .. num_devices |-> n - 1]
             k == IF Len(all) < MAX_DEVICES THEN Len(all) ELSE MAX_DEVICES
             list == SubSeq(all, 1, k)
  <2>1. all \in Seq(0 .. num_devices - 1) /\ Len(all) = num_devices
    <3>1. all \in [1 .. num_devices -> 0 .. num_devices - 1]
      BY <1>1
    <3> QED BY <1>1, <3>1, SeqDef
  <2>2. k \in 1 .. num_devices
    BY <1>1, <2>1
  <2>3. Selected = list
    BY <1>2 DEF Selected, Listed
  <2>4. \A n \in 1 .. k : all[n] = n - 1 /\ n - 1 \in 0 .. num_devices - 1
    BY <1>1, <2>2
  <2> HIDE DEF all, k
  <2>5. /\ list \in Seq(0 .. num_devices - 1) /\ Len(list) = k
        /\ \A n \in 1 .. k : list[n] = n - 1
    <3>1. \A n \in 1 .. k : all[n] \in 0 .. num_devices - 1
      BY <2>4
    <3>2. /\ list \in Seq(0 .. num_devices - 1)
          /\ Len(list) = IF 1 <= k THEN k - 1 + 1 ELSE 0
          /\ \A n \in 1 .. k - 1 + 1 : list[n] = all[1 + n - 1]
      BY <2>2, <3>1, SubSeqProperties
    <3>3. k - 1 + 1 = k /\ 1 <= k /\ \A n \in 1 .. k : 1 + n - 1 = n
      BY <2>2
    <3> QED BY <2>4, <3>2, <3>3
  <2> HIDE DEF list
  <2>6. list \in Seq(0 .. MaxDevices - 1)
    BY <1>1, <2>5
  <2>7. IsInjective(list)
    BY <2>2, <2>5 DEF IsInjective
  <2>8. list # <<>>
    BY <2>2, <2>5
  <2>9. ToSet(list) \subseteq 0 .. num_devices - 1
    BY <2>5 DEF ToSet
  <2> QED BY <1>2, <2>3, <2>6, <2>7, <2>8, <2>9 DEF Usable
<1>3. CASE options.devices # <<>>
  <2> DEFINE list == options.devices
             N == Len(list)
             at(k) == CHOOSE n \in 1 .. N : Cardinality({m \in 1 .. N : m <= n}) = k
  <2>1. N \in Nat \ {0} /\ \A n \in 1 .. N : list[n] \in Nat /\ list[n] < num_devices
    BY <1>3 DEF AllExist, Exists, ToSet
  <2>2. Kept = 1 .. N
    BY <2>1 DEF Kept
  <2>3. \A n \in 1 .. N : Cardinality({m \in 1 .. N : m <= n}) = n
    <3> TAKE n \in 1 .. N
    <3>1. {m \in 1 .. N : m <= n} = 1 .. n
      BY <2>1
    <3>2. n \in Nat
      BY <2>1
    <3>3. Cardinality(1 .. n) = n
      BY <3>2, NumberOfElements
    <3> QED BY <3>1, <3>3
  <2>4. \A k \in 1 .. N : at(k) = k
    BY <2>3
  <2>5. Selected = [k \in 1 .. N |-> list[at(k)]]
    <3>1. Cardinality(Kept) = N
      BY <2>1, <2>2, NumberOfElements
    <3> QED BY <1>3, <2>2, <3>1 DEF Selected
  <2>6. Selected = list
    <3> HIDE DEF at
    <3>1. list = [k \in 1 .. N |-> list[k]]
      OBVIOUS
    <3> QED BY <2>4, <2>5, <3>1
  <2>7. list \in Seq(0 .. num_devices - 1)
    <3>1. list \in [1 .. N -> 0 .. num_devices - 1]
      BY <1>1, <2>1
    <3> HIDE DEF list, N
    <3> QED BY <2>1, <3>1, SeqDef
  <2>8. list \in Seq(0 .. MaxDevices - 1)
    BY <1>1, <2>7
  <2>9. ToSet(list) \subseteq 0 .. num_devices - 1
    BY <2>7 DEF ToSet
  <2> QED BY <1>3, <2>6, <2>8, <2>9 DEF Usable
<1> QED BY <1>2, <1>3

-----------------------------------------------------------------------------
(* The two tuples of the second phase.                                       *)

\* The quotient and the remainder of a natural number.
LEMMA Division ==
  ASSUME NEW x \in Nat, NEW c \in Nat \ {0}
  PROVE  \E q \in Nat : \E r \in 0 .. c - 1 : x = c * q + r /\ q = x \div c /\ r = x % c
<1>1. \E q \in Int : \E r \in 0 .. c - 1 : x = c * q + r /\ q = x \div c /\ r = x % c
  OBVIOUS
<1>2. PICK q \in Int, r \in 0 .. c - 1 : x = c * q + r /\ q = x \div c /\ r = x % c
  BY <1>1
<1>3. \A y \in Int : y <= -1 => c * y <= -c
  OBVIOUS
<1>4. ~(q <= -1)
  BY <1>2, <1>3
<1>5. q \in Nat
  BY <1>4
<1> QED BY <1>2, <1>5, Zenon

\* A quotient and a remainder are the quotient and the remainder.
LEMMA DivisionUnique ==
  ASSUME NEW x \in Nat, NEW c \in Nat \ {0}, NEW q \in Int, NEW r \in 0 .. c - 1, x = c * q + r
  PROVE  x \div c = q
<1> DEFINE d == x \div c
           m == x % c
<1>1. d \in Int /\ m \in 0 .. c - 1 /\ x = c * d + m
  OBVIOUS
<1> HIDE DEF d, m
<1>2. c * (q - d) = m - r
  BY <1>1
<1>3. -c < m - r /\ m - r < c
  BY <1>1
<1>4. \A y \in Int : y >= 1 => c * y >= c
  OBVIOUS
<1>5. \A y \in Int : y <= -1 => c * y <= -c
  OBVIOUS
<1>6. q - d \in Int
  BY <1>1
<1>7. ~(q - d >= 1) /\ ~(q - d <= -1)
  BY <1>2, <1>3, <1>4, <1>5, <1>6
<1>8. q = d
  BY <1>1, <1>6, <1>7
<1> QED BY <1>8 DEF d

\* A number by what is above a bit, the bit, and what is below it.
LEMMA AroundBit ==
  ASSUME NEW B \in Nat \ {0}, NEW x \in Nat
  PROVE  \E h \in Nat : \E l \in 0 .. 1 : \E r \in 0 .. B - 1 :
           /\ x = (2 * B) * h + (B * l + r)
           /\ h = x \div (2 * B) /\ l = (x \div B) % 2 /\ r = x % B
<1>1. PICK q \in Nat, r \in 0 .. B - 1 : x = B * q + r /\ q = x \div B /\ r = x % B
  BY Division, Zenon
<1>2. PICK h \in Nat, l \in 0 .. 1 : q = 2 * h + l /\ l = q % 2
  OBVIOUS
<1>3. B * l + r \in 0 .. 2 * B - 1
  BY <1>2
<1>4. x = (2 * B) * h + (B * l + r)
  <2>1. B * (2 * h + l) + r = (2 * B) * h + (B * l + r)
    BY <1>2
  <2> QED BY <1>1, <1>2, <2>1, Zenon
<1>5. 2 * B \in Nat \ {0} /\ h \in Int
  OBVIOUS
<1>6. x \div (2 * B) = h
  BY <1>3, <1>4, <1>5, DivisionUnique, Zenon
<1> QED BY <1>1, <1>2, <1>4, <1>6, Zenon

\* Changing bit 30 of a tweak makes a tweak that differs in it and nowhere else,
\* and there is no other.
LEMMA FlipDiffers ==
  ASSUME NEW s \in Tuples, NEW t \in Tuples
  PROVE  /\ Flipped(s.tweak) = t.tweak <=> Differs30(s, t)
         /\ Differs30(s, t) => Differs30(t, s)
<1>1. Bit30 \in Nat \ {0} /\ s.tweak \in Nat /\ t.tweak \in Nat
  BY MainAssumption, TupleAssumption DEF Tuples
<1> DEFINE B == Bit30
<1>2. PICK h \in Nat, l \in 0 .. 1, r \in 0 .. B - 1 :
        /\ s.tweak = (2 * B) * h + (B * l + r)
        /\ h = s.tweak \div (2 * B) /\ l = (s.tweak \div B) % 2 /\ r = s.tweak % B
  BY <1>1, AroundBit, Zenon
<1>3. PICK k \in Nat, m \in 0 .. 1, u \in 0 .. B - 1 :
        /\ t.tweak = (2 * B) * k + (B * m + u)
        /\ k = t.tweak \div (2 * B) /\ m = (t.tweak \div B) % 2 /\ u = t.tweak % B
  BY <1>1, AroundBit, Zenon
<1>4. Differs30(s, t) <=> h = k /\ r = u /\ s.tweak # t.tweak
  BY <1>2, <1>3, Zenon DEF Differs30
<1>5. Flipped(s.tweak) = IF l = 0 THEN s.tweak + B ELSE s.tweak - B
  BY <1>2, Zenon DEF Flipped
<1> DEFINE c == (2 * B) * h
           d == (2 * B) * k
<1>a. /\ c \in Int /\ d \in Int
      /\ s.tweak = c + (IF l = 0 THEN 0 ELSE B) + r
      /\ t.tweak = d + (IF m = 0 THEN 0 ELSE B) + u
  <2>1. B * l = (IF l = 0 THEN 0 ELSE B) /\ B * m = (IF m = 0 THEN 0 ELSE B)
    BY <1>1
  <2>2. s.tweak = c + (B * l + r) /\ t.tweak = d + (B * m + u)
    BY <1>2, <1>3
  <2>3. c \in Int /\ d \in Int
    BY <1>1
  <2> HIDE DEF c, d
  <2> QED BY <1>1, <2>1, <2>2, <2>3
<1>b. h = k => c = d
  OBVIOUS
<1>c. c = d => h = k
  BY <1>1
<1>d. c = d \/ c - d >= 2 * B \/ d - c >= 2 * B
  <2>1. c - d = (2 * B) * (h - k) /\ d - c = (2 * B) * (k - h)
    BY <1>1
  <2>2. \A y \in Int : y >= 1 => (2 * B) * y >= 2 * B
    BY <1>1
  <2>3. h = k \/ h - k >= 1 \/ k - h >= 1
    OBVIOUS
  <2> QED BY <1>b, <2>1, <2>2, <2>3
<1> HIDE DEF c, d
<1>6. ASSUME h = k, r = u
      PROVE  s.tweak # t.tweak <=> Flipped(s.tweak) = t.tweak
  BY <1>1, <1>5, <1>6, <1>a, <1>b
<1>7. ASSUME Flipped(s.tweak) = t.tweak
      PROVE  h = k /\ r = u
  <2>1. c = d
    BY <1>1, <1>5, <1>7, <1>a, <1>d
  <2>2. r = u
    BY <1>1, <1>5, <1>7, <1>a, <2>1
  <2> QED BY <1>c, <2>1, <2>2
<1>8. Differs30(t, s) <=> k = h /\ u = r /\ t.tweak # s.tweak
  BY <1>2, <1>3, Zenon DEF Differs30
<1> QED BY <1>4, <1>6, <1>7, <1>8

-----------------------------------------------------------------------------
(* The phases of main.                                                       *)

Early == {"options", "devices", "input", "thresholds", "attack"}

\* A list of devices has none twice, and without CUDA there is no second phase.
OptionsInv ==
  /\ IsInjective(options.devices)
  /\ ~cuda => ~options.brute_force

\* What the earlier stages have seen to, and the later ones have not yet done.
StageInv ==
  /\ stage \in {"input", "thresholds", "attack", "candidates", "search"} => AllExist
  /\ stage \in {"thresholds", "attack", "candidates", "search"} => pc = "done"
  /\ stage \in Early => candidates = <<>>
  /\ stage \in Early \cup {"candidates"} => pair = <<>> /\ tested = 0
  /\ key => stage = "exit"

\* The second phase has its tuples, and the candidates in order.
SecondPhaseInv ==
  stage = "search" =>
    /\ pair \in SuitablePairs
    /\ \A m, n \in 1 .. Len(candidates) : m < n => candidates[n] <= candidates[m]

DeviceInv == Pooled => Usable(used)

MainInv ==
  /\ InputInv /\ MainTypeOK
  /\ OptionsInv /\ StageInv /\ SecondPhaseInv /\ DeviceInv
  /\ ThresholdsAreRight /\ SearchPairIsRight /\ CandidatesAreTried

\* The input keeps its invariant: main changes it by its steps alone.
LEMMA InputPart ==
  ASSUME MainInv, [MainNext]_<<vars, mainVars>>
  PROVE  InputInv'
<1>1. InputInv
  BY DEF MainInv
<1>2. CASE Input
  BY <1>1, <1>2, InputStep DEF Input
<1>3. ASSUME UNCHANGED vars
      PROVE  InputInv'
  BY <1>1, <1>3, InputStep
<1>4. CASE ParseAlgorithm \/ ParseFlag \/ ParseDevices \/ ParseTau \/ ParseFails
  BY <1>3, <1>4 DEF ParseAlgorithm, ParseFlag, ParseDevices, ParseTau, ParseFails, Option
<1>5. CASE ListDevices \/ ListFails \/ InvalidDevice \/ NoAttack \/ BeginInput
  BY <1>3, <1>5 DEF ListDevices, ListFails, InvalidDevice, NoAttack, BeginInput
<1>6. CASE InputFails \/ EndInput \/ NoPairs \/ Thresholds \/ Attack \/ AttackFails
  BY <1>3, <1>6 DEF InputFails, EndInput, NoPairs, Thresholds, Attack, AttackFails
<1>7. CASE EndAttack \/ FindPair \/ NoSuitablePair
  BY <1>3, <1>7 DEF EndAttack, FindPair, NoSuitablePair
<1>8. CASE KeyFound \/ NoKey \/ TestFails \/ NoMatchingKey
  BY <1>3, <1>8 DEF KeyFound, NoKey, TestFails, NoMatchingKey
<1>9. CASE UNCHANGED <<vars, mainVars>>
  BY <1>3, <1>9
<1> QED BY <1>2, <1>4, <1>5, <1>6, <1>7, <1>8, <1>9 DEF MainNext

\* Before the second phase.
NotBegun == stage \in Early /\ tested = 0 /\ ~key

\* The second phase does not begin before its stage, and nothing is claimed of a
\* pool before there is one.
LEMMA NothingYet ==
  NotBegun => /\ SecondPhaseInv /\ DeviceInv /\ SearchPairIsRight /\ CandidatesAreTried
              /\ stage # "attack" => ThresholdsAreRight
<1> SUFFICES ASSUME NotBegun
             PROVE  /\ SecondPhaseInv /\ DeviceInv /\ SearchPairIsRight /\ CandidatesAreTried
                    /\ stage # "attack" => ThresholdsAreRight
  OBVIOUS
<1> USE DEF NotBegun
<1>1. stage # "candidates" /\ stage # "search" /\ stage # "exit"
  BY DEF Early
<1>2. SecondPhaseInv
  BY <1>1 DEF SecondPhaseInv
<1>3. DeviceInv
  BY <1>1 DEF DeviceInv, Pooled
<1>4. SearchPairIsRight
  BY <1>1 DEF SearchPairIsRight
<1>5. CandidatesAreTried
  BY <1>1 DEF CandidatesAreTried
<1>6. stage # "attack" => ThresholdsAreRight
  BY <1>1 DEF ThresholdsAreRight
<1> QED BY <1>2, <1>3, <1>4, <1>5, <1>6

\* An option leaves the options as they may be.
LEMMA OptionAccepted ==
  ASSUME MainInv, NEW o \in Options, Option(o), InputInv', IsInjective(o.devices),
         ~cuda => ~o.brute_force /\ o.algorithm \in CpuAlgorithms /\ o.devices = <<>>
  PROVE  MainInv'
<1>1. /\ stage = "options" /\ stage' = "options" /\ given' = given + 1 /\ given < MaxOptions
      /\ options' = o
      /\ UNCHANGED <<vars, cuda, num_devices, tauVars, phaseVars, result>>
  BY DEF Option
<1>2. MainTypeOK'
  <2>1. given' \in 0 .. MaxOptions
    BY <1>1, MainAssumption DEF MainInv, MainTypeOK
  <2>2. TypeOK'
    BY DEF InputInv
  <2> QED BY <1>1, <2>1, <2>2 DEF MainInv, MainTypeOK, tauVars, phaseVars, Stages
<1>3. OptionsInv'
  BY <1>1 DEF OptionsInv
<1>4. StageInv' /\ stage' \in Early /\ tested' = 0 /\ ~key'
  BY <1>1 DEF MainInv, StageInv, Early, phaseVars
<1>5. /\ SecondPhaseInv' /\ DeviceInv' /\ SearchPairIsRight' /\ CandidatesAreTried'
      /\ ThresholdsAreRight'
  <2>1. NotBegun' /\ stage' # "attack"
    BY <1>1, <1>4 DEF NotBegun
  <2>2. (NotBegun => /\ SecondPhaseInv /\ DeviceInv /\ SearchPairIsRight /\ CandidatesAreTried
                     /\ stage # "attack" => ThresholdsAreRight)'
    BY NothingYet, PTL
  <2> QED BY <2>1, <2>2
<1> QED BY <1>2, <1>3, <1>4, <1>5 DEF MainInv

\* The command line: parse_devices and parse_int accept what the options may be.
LEMMA ParseStep ==
  ASSUME MainInv, InputInv', ParseAlgorithm \/ ParseFlag \/ ParseDevices \/ ParseTau
  PROVE  MainInv'
<1>1. /\ options \in Options /\ IsInjective(options.devices) /\ cuda \in BOOLEAN
      /\ ~cuda => ~options.brute_force /\ options.algorithm \in CpuAlgorithms
                    /\ options.devices = <<>>
  BY DEF MainInv, MainTypeOK, OptionsInv
<1>2. CASE ParseAlgorithm
  <2>1. PICK a \in CpuAlgorithms \cup (IF cuda THEN GpuAlgorithms ELSE {}) :
          Option([options EXCEPT !.algorithm = a])
    BY <1>2 DEF ParseAlgorithm
  <2> DEFINE o == [options EXCEPT !.algorithm = a]
  <2>2. o \in Options /\ o.devices = options.devices /\ o.brute_force = options.brute_force
        /\ o.algorithm = a
    BY <1>1 DEF Options
  <2>3. ~cuda => a \in CpuAlgorithms
    OBVIOUS
  <2> HIDE DEF o
  <2> QED BY <1>1, <2>1, <2>2, <2>3, OptionAccepted DEF o
<1>3. CASE ParseFlag
  <2>1. ASSUME NEW o \in Options, Option(o), o.devices = options.devices,
               o.algorithm = options.algorithm, ~cuda => ~o.brute_force
        PROVE  MainInv'
    BY <1>1, <2>1, OptionAccepted
  <2>2. /\ [options EXCEPT !.benchmark = TRUE] \in Options
        /\ [options EXCEPT !.brute_force = FALSE] \in Options
        /\ [options EXCEPT !.listdevs = TRUE] \in Options
    BY <1>1 DEF Options
  <2>3. CASE Option([options EXCEPT !.benchmark = TRUE])
    BY <1>1, <2>1, <2>2, <2>3 DEF Options
  <2>4. CASE cuda /\ Option([options EXCEPT !.brute_force = FALSE])
    BY <1>1, <2>1, <2>2, <2>4 DEF Options
  <2>5. CASE cuda /\ Option([options EXCEPT !.listdevs = TRUE])
    BY <1>1, <2>1, <2>2, <2>5 DEF Options
  <2> QED BY <1>3, <2>3, <2>4, <2>5 DEF ParseFlag
<1>4. CASE ParseDevices
  <2>1. PICK list \in DeviceLists :
          cuda /\ Accepted(Listed(list)) /\ Option([options EXCEPT !.devices = Listed(list)])
    BY <1>4 DEF ParseDevices
  <2>2. Listed(list) \in Seq(Int)
    <3>1. list \in Seq(Int)
      BY MainAssumption
    <3> DEFINE k == IF Len(list) < MAX_DEVICES THEN Len(list) ELSE MAX_DEVICES
    <3>2. k \in Int /\ \A n \in 1 .. k : list[n] \in Int
      BY <3>1, MainAssumption
    <3> HIDE DEF k
    <3>3. SubSeq(list, 1, k) \in Seq(Int)
      BY <3>2, SubSeqProperties
    <3> QED BY <3>3 DEF Listed, k
  <2>3. Listed(list) \in Seq(Nat) /\ IsInjective(Listed(list))
    <3> DEFINE l == Listed(list)
    <3>1. l \in Seq(Int) /\ IsInjective(l) /\ \A d \in ToSet(l) : d >= 0
      BY <2>1, <2>2 DEF Accepted
    <3> HIDE DEF l
    <3>2. l \in [1 .. Len(l) -> Int] /\ Len(l) \in Nat
      BY <3>1
    <3>3. l \in [1 .. Len(l) -> Nat]
      BY <3>1, <3>2 DEF ToSet
    <3>4. l \in Seq(Nat)
      BY <3>2, <3>3, SeqDef
    <3> QED BY <3>1, <3>4 DEF l
  <2> DEFINE o == [options EXCEPT !.devices = Listed(list)]
  <2>4. o \in Options /\ o.devices = Listed(list)
    BY <1>1, <2>3 DEF Options
  <2> HIDE DEF o
  <2> QED BY <2>1, <2>3, <2>4, OptionAccepted DEF o
<1>5. CASE ParseTau
  <2>1. PICK n \in Numbers : \/ Option([options EXCEPT !.tau1 = Uint(n)])
                             \/ Option([options EXCEPT !.tau2 = Uint(n)])
    BY <1>5 DEF ParseTau
  <2>2. Uint(n) \in 0 .. UintRange - 1
    BY MainAssumption DEF Uint
  <2>3. ASSUME NEW o \in Options, Option(o), o.devices = options.devices,
               o.algorithm = options.algorithm, o.brute_force = options.brute_force
        PROVE  MainInv'
    BY <1>1, <2>3, OptionAccepted
  <2>4. /\ [options EXCEPT !.tau1 = Uint(n)] \in Options
        /\ [options EXCEPT !.tau2 = Uint(n)] \in Options
    BY <1>1, <2>2 DEF Options
  <2>5. CASE Option([options EXCEPT !.tau1 = Uint(n)])
    BY <1>1, <2>3, <2>4, <2>5 DEF Options
  <2>6. CASE Option([options EXCEPT !.tau2 = Uint(n)])
    BY <1>1, <2>3, <2>4, <2>6 DEF Options
  <2> QED BY <2>1, <2>5, <2>6
<1> QED BY <1>2, <1>3, <1>4, <1>5

\* main returns before the first phase has ended: there is no candidate.
LEMMA EarlyExit ==
  ASSUME MainInv, InputInv', stage \in Early, NEW r \in {"SUCCESS", "FAILURE", "ERROR"}, Exit(r),
         UNCHANGED <<vars, startVars, tauVars, phaseVars>>
  PROVE  MainInv'
<1>1. /\ stage' = "exit" /\ result' = r
      /\ UNCHANGED <<vars, cuda, given, options, num_devices, tauVars, phaseVars>>
  BY DEF Exit, startVars
<1>2. /\ stage # "exit" /\ stage # "search" /\ candidates = <<>> /\ pair = <<>> /\ tested = 0
      /\ ~key
  BY DEF MainInv, StageInv, Early
<1>3. MainTypeOK'
  <2>1. TypeOK'
    BY DEF InputInv
  <2> QED BY <1>1, <2>1 DEF MainInv, MainTypeOK, tauVars, phaseVars, Stages
<1>4. OptionsInv'
  BY <1>1 DEF MainInv, OptionsInv
<1>5. StageInv'
  BY <1>1, <1>2 DEF StageInv, Early
<1>6. SecondPhaseInv' /\ ThresholdsAreRight'
  BY <1>1 DEF SecondPhaseInv, ThresholdsAreRight
<1>7. DeviceInv'
  BY <1>1, <1>2 DEF DeviceInv, Pooled, phaseVars
<1>8. SearchPairIsRight' /\ CandidatesAreTried'
  BY <1>1, <1>2 DEF SearchPairIsRight, CandidatesAreTried, phaseVars
<1> QED BY <1>3, <1>4, <1>5, <1>6, <1>7, <1>8 DEF MainInv

\* main goes on to a stage before the first phase.
LEMMA EarlyMove ==
  ASSUME MainInv, InputInv', stage \in Early, NEW s \in {"devices", "input", "thresholds"},
         stage' = s, num_devices' \in 0 .. MaxDevices,
         s # "devices" => AllExist', s = "thresholds" => pc' = "done",
         UNCHANGED <<cuda, given, options, tauVars, phaseVars, result>>
  PROVE  MainInv'
<1>1. /\ stage # "exit" /\ stage # "search" /\ candidates = <<>> /\ pair = <<>> /\ tested = 0
      /\ ~key
  BY DEF MainInv, StageInv, Early
<1>2. MainTypeOK'
  <2>1. TypeOK'
    BY DEF InputInv
  <2> QED BY <1>1, <2>1 DEF MainInv, MainTypeOK, tauVars, phaseVars, Stages
<1>3. OptionsInv'
  BY DEF MainInv, OptionsInv
<1>4. StageInv'
  BY <1>1 DEF StageInv, Early, phaseVars
<1>5. /\ SecondPhaseInv' /\ DeviceInv' /\ SearchPairIsRight' /\ CandidatesAreTried'
      /\ ThresholdsAreRight'
  <2>1. NotBegun' /\ stage' # "attack"
    BY <1>1 DEF NotBegun, Early, phaseVars
  <2>2. (NotBegun => /\ SecondPhaseInv /\ DeviceInv /\ SearchPairIsRight /\ CandidatesAreTried
                     /\ stage # "attack" => ThresholdsAreRight)'
    BY NothingYet, PTL
  <2> QED BY <2>1, <2>2
<1> QED BY <1>2, <1>3, <1>4, <1>5 DEF MainInv

\* From the command line to the list of pairs.
LEMMA BeforeAttack ==
  ASSUME MainInv, InputInv', ListDevices \/ BeginInput \/ Input \/ EndInput
  PROVE  MainInv'
<1>1. num_devices \in 0 .. MaxDevices /\ 0 \in 0 .. MaxDevices
  BY MainAssumption DEF MainInv, MainTypeOK
<1>2. CASE ListDevices
  <2>1. num_devices' \in 0 .. MaxDevices
    BY <1>1, <1>2 DEF ListDevices
  <2> QED BY <1>2, <2>1, EarlyMove DEF ListDevices, Stay, Early
<1>3. CASE BeginInput
  <2>1. AllExist'
    BY <1>3 DEF BeginInput, AllExist, Exists, startVars
  <2> QED BY <1>1, <1>3, <2>1, EarlyMove DEF BeginInput, Stay, Early, startVars
<1>4. CASE Input
  <2>1. AllExist'
    BY <1>4 DEF Input, MainInv, StageInv, AllExist, Exists, mainVars
  <2> QED BY <1>1, <1>4, <2>1, EarlyMove DEF Input, Early, mainVars
<1>5. CASE EndInput
  <2>1. AllExist'
    BY <1>5 DEF EndInput, MainInv, StageInv, AllExist, Exists, startVars
  <2>2. pc' = "done"
    BY <1>5 DEF EndInput, vars
  <2> QED BY <1>1, <1>5, <2>1, <2>2, EarlyMove DEF EndInput, Stay, Early, startVars
<1> QED BY <1>2, <1>3, <1>4, <1>5

\* The program ends with the first phase not begun, or failed.
LEMMA NoFirstPhase ==
  ASSUME MainInv, InputInv',
         \/ ParseFails \/ ListFails \/ InvalidDevice \/ NoAttack
         \/ InputFails \/ NoPairs \/ AttackFails
  PROVE  MainInv'
<1>1. CASE ParseFails
  BY <1>1, EarlyExit DEF ParseFails, Early
<1>2. CASE ListFails
  BY <1>2, EarlyExit DEF ListFails, Early
<1>3. CASE InvalidDevice
  BY <1>3, EarlyExit DEF InvalidDevice, Early
<1>4. CASE NoAttack
  BY <1>4, EarlyExit DEF NoAttack, Early
<1>5. CASE InputFails
  BY <1>5, EarlyExit DEF InputFails, Early
<1>6. CASE NoPairs
  BY <1>6, EarlyExit DEF NoPairs, Early
<1>7. CASE AttackFails
  BY <1>7, EarlyExit DEF AttackFails, Early
<1> QED BY <1>1, <1>2, <1>3, <1>4, <1>5, <1>6, <1>7

\* The thresholds that main computes, and those that it was given.
LEMMA ThresholdsStep ==
  ASSUME MainInv, InputInv', Thresholds
  PROVE  MainInv'
<1>1. PICK r1 \in Chances, r70 \in Chances, r99 \in Chances :
        /\ \A t \in 1 .. MaxTau : r99[t] => r70[t]
        /\ reaches' = <<r1, r70, r99>>
        /\ tau1' = IF options.tau1 = 0 THEN GetTau(r1) ELSE Fitting(options.tau1)
        /\ tau2' = IF options.tau2 = 0 THEN GetTau(r70) ELSE options.tau2
  BY DEF Thresholds
<1>2. /\ stage = "thresholds" /\ stage' = "attack" /\ pairs # <<>>
      /\ UNCHANGED <<vars, cuda, given, options, num_devices, phaseVars, result>>
  BY DEF Thresholds, Stay, startVars
<1>3. /\ candidates = <<>> /\ pair = <<>> /\ tested = 0 /\ ~key /\ pc = "done" /\ AllExist
  BY <1>2 DEF MainInv, StageInv, Early
<1>4. /\ GetTau(r1) \in Nat /\ Largest(r1, GetTau(r1))
      /\ GetTau(r70) \in Nat /\ Largest(r70, GetTau(r70))
  BY TauIsLargest
<1>5. options.tau1 \in Nat /\ options.tau2 \in Nat /\ CounterMax \in Nat \ {0}
  BY MainAssumption DEF MainInv, MainTypeOK, Options
<1>6. tau1' \in Nat /\ tau2' \in Nat
  BY <1>1, <1>4, <1>5 DEF Fitting
<1>7. MainTypeOK'
  <2>1. TypeOK' /\ pc' = "done" /\ pairs' # <<>>
    BY <1>2, <1>3 DEF InputInv, vars
  <2> QED BY <1>2, <1>6, <2>1 DEF MainInv, MainTypeOK, phaseVars, Stages
<1>8. OptionsInv' /\ StageInv'
  BY <1>2, <1>3 DEF MainInv, OptionsInv, StageInv, Early, AllExist, Exists, phaseVars, vars
<1>9. SecondPhaseInv' /\ DeviceInv' /\ SearchPairIsRight' /\ CandidatesAreTried'
  <2>1. NotBegun'
    BY <1>2, <1>3 DEF NotBegun, Early, phaseVars
  <2>2. (NotBegun => /\ SecondPhaseInv /\ DeviceInv /\ SearchPairIsRight /\ CandidatesAreTried
                     /\ stage # "attack" => ThresholdsAreRight)'
    BY NothingYet, PTL
  <2> QED BY <2>1, <2>2
<1>10. ThresholdsAreRight'
  <2>1. /\ options.tau1 = 0 => Largest(reaches'[1], tau1')
        /\ options.tau2 = 0 => Largest(reaches'[2], tau2')
    BY <1>1, <1>4
  <2>2. options.tau2 = 0 => \A t \in 1 .. MaxTau : reaches'[3][t] => t <= tau2'
    BY <1>1, <1>4, NoneAbove
  <2>3. options.tau2 # 0 => tau2' = options.tau2
    BY <1>1
  <2>4. options.tau1 # 0 =>
          \/ tau1' = options.tau1 /\ (options.algorithm = "GPU_ATTACK2" => tau1' <= CounterMax)
          \/ tau1' = CounterMax /\ options.algorithm = "GPU_ATTACK2" /\ options.tau1 > CounterMax
    BY <1>1, <1>5 DEF Fitting
  <2>5. UNCHANGED options
    BY <1>2
  <2> QED BY <2>1, <2>2, <2>3, <2>4, <2>5 DEF ThresholdsAreRight, Largest
<1> QED BY <1>7, <1>8, <1>9, <1>10 DEF MainInv

\* The thresholds do not change after the first phase has begun.
LEMMA ThresholdsKept ==
  ASSUME ThresholdsAreRight, stage \in {"attack", "candidates", "search"},
         UNCHANGED <<options, tauVars>>
  PROVE  ThresholdsAreRight'
BY DEF ThresholdsAreRight, Largest, tauVars

\* The first phase: its pool has the devices asked for.
LEMMA AttackStep ==
  ASSUME MainInv, InputInv', Attack
  PROVE  MainInv'
<1>1. /\ stage = "attack" /\ stage' = "candidates" /\ candidates' \in CandidateLists
      /\ OnGpu => num_devices > 0
      /\ used' = IF OnGpu THEN Selected ELSE <<>>
      /\ UNCHANGED <<vars, cuda, given, options, num_devices, tauVars, pair, tested, key, result>>
  BY DEF Attack, Stay, startVars
<1>2. /\ pair = <<>> /\ tested = 0 /\ ~key /\ pc = "done" /\ AllExist
      /\ pairs # <<>>
  BY <1>1 DEF MainInv, MainTypeOK, StageInv, Early
<1>3. OnGpu => Usable(used')
  <2> SUFFICES ASSUME OnGpu
               PROVE  Usable(used')
    OBVIOUS
  <2>1. options.devices \in Seq(Nat) /\ IsInjective(options.devices)
        /\ num_devices \in 0 .. MaxDevices
    BY DEF MainInv, MainTypeOK, OptionsInv, Options
  <2> QED BY <1>1, <1>2, <2>1, SelectedUsable
<1>4. used' \in Seq(0 .. MaxDevices - 1) /\ candidates' \in Seq(Nat) /\ Len(candidates') \in Nat
  <2>1. candidates' \in Seq(Nat)
    BY <1>1, MainAssumption
  <2>2. <<>> \in Seq(0 .. MaxDevices - 1)
    OBVIOUS
  <2>3. used' \in Seq(0 .. MaxDevices - 1)
    BY <1>1, <1>3, <2>2, Zenon DEF Usable
  <2> QED BY <2>1, <2>3
<1>5. MainTypeOK'
  <2>1. TypeOK' /\ pc' = "done" /\ pairs' # <<>>
    BY <1>1, <1>2 DEF InputInv, vars
  <2> QED BY <1>1, <1>2, <1>4, <2>1 DEF MainInv, MainTypeOK, tauVars, Stages
<1>6. OptionsInv' /\ StageInv'
  BY <1>1, <1>2 DEF MainInv, OptionsInv, StageInv, Early, AllExist, Exists, vars
<1>7. DeviceInv'
  <2>1. Pooled' => OnGpu
    BY <1>1, <1>2 DEF Pooled, OnGpu
  <2> QED BY <1>1, <1>3, <2>1 DEF DeviceInv, Usable
<1>8. SecondPhaseInv' /\ SearchPairIsRight' /\ CandidatesAreTried'
  BY <1>1 DEF SecondPhaseInv, SearchPairIsRight, CandidatesAreTried
<1>9. ThresholdsAreRight'
  BY <1>1, ThresholdsKept DEF MainInv
<1> QED BY <1>5, <1>6, <1>7, <1>8, <1>9 DEF MainInv

\* main ends after the first phase.
LEMMA EndAttackStep ==
  ASSUME MainInv, InputInv', EndAttack
  PROVE  MainInv'
<1>1. /\ stage = "candidates" /\ stage' = "exit" /\ result' = "SUCCESS"
      /\ UNCHANGED <<vars, cuda, given, options, num_devices, tauVars, phaseVars>>
  BY DEF EndAttack, Exit, startVars
<1>2. pair = <<>> /\ tested = 0 /\ ~key
  BY <1>1 DEF MainInv, StageInv
<1>3. MainTypeOK'
  <2>1. TypeOK'
    BY DEF InputInv
  <2> QED BY <1>1, <2>1 DEF MainInv, MainTypeOK, tauVars, phaseVars, Stages
<1>4. OptionsInv' /\ StageInv'
  BY <1>1 DEF MainInv, OptionsInv, StageInv, Early, phaseVars
<1>5. SecondPhaseInv' /\ DeviceInv' /\ ThresholdsAreRight'
  BY <1>1, <1>2 DEF SecondPhaseInv, DeviceInv, Pooled, ThresholdsAreRight, phaseVars
<1>6. SearchPairIsRight' /\ CandidatesAreTried'
  BY <1>1, <1>2 DEF SearchPairIsRight, CandidatesAreTried, phaseVars
<1> QED BY <1>3, <1>4, <1>5, <1>6 DEF MainInv

\* A pair of indexes that is suitable is one of tuples whose tweaks differ in bit
\* 30; the tuples are those of the file.
LEMMA SuitableTuples ==
  ASSUME TypeOK, DuplicatesThinned, pc = "done"
  PROVE  /\ \A p \in SuitablePairs :
              /\ {tuples[p[1] + 1], tuples[p[2] + 1]} \subseteq ToSet(sorted)
              /\ Differs30(tuples[p[1] + 1], tuples[p[2] + 1])
         /\ SuitablePairs = {} => \A s, t \in ToSet(sorted) : ~Differs30(s, t)
<1>1. tuples \in Seq(Tuples) /\ ToSet(tuples) = ToSet(sorted)
  BY DEF TypeOK, DuplicatesThinned
<1> DEFINE N == Len(tuples)
<1>2. N \in Nat /\ \A n \in 1 .. N : tuples[n] \in Tuples /\ tuples[n] \in ToSet(sorted)
  BY <1>1 DEF ToSet
<1>3. \A s \in ToSet(sorted) : \E n \in 1 .. N : s = tuples[n]
  BY <1>1 DEF ToSet
<1>4. \A p : p \in SuitablePairs <=>
               p \in (0 .. N - 1) \X (0 .. N - 1) /\ p[1] < p[2] /\ Suitable(p[1], p[2])
  BY DEF SuitablePairs, Indexes
<1>5. \A a, b \in 0 .. N - 1 : Suitable(a, b) <=> Differs30(tuples[a + 1], tuples[b + 1])
  <2> SUFFICES ASSUME NEW a \in 0 .. N - 1, NEW b \in 0 .. N - 1
               PROVE  Suitable(a, b) <=> Differs30(tuples[a + 1], tuples[b + 1])
    OBVIOUS
  <2>1. tuples[a + 1] \in Tuples /\ tuples[b + 1] \in Tuples
    BY <1>2
  <2> QED BY <2>1, FlipDiffers DEF Suitable, Tweak
<1> HIDE DEF N
<1>6. ASSUME NEW p \in SuitablePairs
      PROVE  /\ {tuples[p[1] + 1], tuples[p[2] + 1]} \subseteq ToSet(sorted)
             /\ Differs30(tuples[p[1] + 1], tuples[p[2] + 1])
  <2>1. p[1] \in 0 .. N - 1 /\ p[2] \in 0 .. N - 1 /\ Suitable(p[1], p[2])
    BY <1>4, <1>6
  <2>2. p[1] + 1 \in 1 .. N /\ p[2] + 1 \in 1 .. N
    BY <1>2, <2>1
  <2> QED BY <1>2, <1>5, <2>1, <2>2
<1>7. ASSUME SuitablePairs = {}, NEW s \in ToSet(sorted), NEW t \in ToSet(sorted),
             Differs30(s, t)
      PROVE  FALSE
  <2>1. PICK m \in 1 .. N : s = tuples[m]
    BY <1>3
  <2>2. PICK n \in 1 .. N : t = tuples[n]
    BY <1>3
  <2>3. m # n
    BY <1>7, <2>1, <2>2 DEF Differs30
  <2>4. Differs30(tuples[m], tuples[n]) /\ Differs30(tuples[n], tuples[m])
    BY <1>2, <1>7, <2>1, <2>2, FlipDiffers
  <2>5. ASSUME NEW a \in 1 .. N, NEW b \in 1 .. N, a < b, Differs30(tuples[a], tuples[b])
        PROVE  FALSE
    <3>1. a - 1 \in 0 .. N - 1 /\ b - 1 \in 0 .. N - 1 /\ (a - 1) + 1 = a /\ (b - 1) + 1 = b
          /\ a - 1 < b - 1
      BY <1>2, <2>5
    <3>2. Suitable(a - 1, b - 1)
      BY <1>5, <2>5, <3>1
    <3>3. <<a - 1, b - 1>> \in SuitablePairs
      BY <1>4, <3>1, <3>2
    <3> QED BY <1>7, <3>3
  <2>6. m < n \/ n < m
    BY <1>2, <2>3
  <2> QED BY <2>4, <2>5, <2>6
<1> QED BY <1>6, <1>7

\* The second phase begins with two tuples that differ in bit 30, and with the
\* candidates in order.
LEMMA FindPairStep ==
  ASSUME MainInv, InputInv', FindPair
  PROVE  MainInv'
<1>1. /\ stage = "candidates" /\ stage' = "search" /\ options.brute_force
      /\ pair' \in SuitablePairs
      /\ candidates' = QSort(candidates, CompareCandidates)
      /\ UNCHANGED <<vars, cuda, given, options, num_devices, tauVars, used, tested, key, result>>
  BY DEF FindPair, Brute, Stay, startVars
<1>2. /\ pair = <<>> /\ tested = 0 /\ ~key /\ pc = "done" /\ AllExist /\ pairs # <<>> /\ cuda
  BY <1>1 DEF MainInv, MainTypeOK, OptionsInv, StageInv
<1>3. /\ candidates' \in Seq(Nat) /\ Len(candidates') = Len(candidates)
      /\ \A m, n \in 1 .. Len(candidates') : m < n => candidates'[n] <= candidates'[m]
  <2> DEFINE c == QSort(candidates, CompareCandidates)
  <2>1. candidates \in Seq(Nat)
    BY DEF MainInv, MainTypeOK
  <2>2. /\ c \in Seq(Nat) /\ Len(c) = Len(candidates)
        /\ \A m, n \in 1 .. Len(candidates) : m < n => c[n] <= c[m]
    BY <2>1, CandidatesSorted
  <2>3. candidates' = c
    BY <1>1
  <2> HIDE DEF c
  <2> QED BY <2>2, <2>3
<1>4. MainTypeOK'
  <2>1. TypeOK' /\ pc' = "done" /\ pairs' # <<>>
    BY <1>1, <1>2 DEF InputInv, vars
  <2>2. tested' \in 0 .. Len(candidates')
    BY <1>1, <1>2, <1>3
  <2> QED BY <1>1, <1>2, <1>3, <2>1, <2>2 DEF MainInv, MainTypeOK, tauVars, Stages
<1>5. OptionsInv' /\ StageInv'
  BY <1>1, <1>2 DEF MainInv, OptionsInv, StageInv, Early, AllExist, Exists, vars
<1>6. SecondPhaseInv'
  <2>1. SuitablePairs' = SuitablePairs
    BY <1>1 DEF SuitablePairs, Suitable, Tweak, Indexes, vars
  <2> QED BY <1>1, <1>3, <2>1 DEF SecondPhaseInv
<1>7. DeviceInv'
  <2>1. Pooled' => Pooled
    BY <1>1, <1>2 DEF Pooled, OnGpu
  <2> QED BY <1>1, <2>1 DEF MainInv, DeviceInv, Usable
<1>8. SearchPairIsRight'
  <2>1. /\ {tuples[pair'[1] + 1], tuples[pair'[2] + 1]} \subseteq ToSet(sorted)
        /\ Differs30(tuples[pair'[1] + 1], tuples[pair'[2] + 1])
    BY <1>1, <1>2, SuitableTuples DEF MainInv, InputInv
  <2>2. tuples' = tuples /\ sorted' = sorted
    BY <1>1 DEF vars
  <2> QED BY <1>1, <2>1, <2>2 DEF SearchPairIsRight, Differs30
<1>9. CandidatesAreTried'
  BY <1>1 DEF CandidatesAreTried
<1>10. ThresholdsAreRight'
  BY <1>1, ThresholdsKept DEF MainInv
<1> QED BY <1>4, <1>5, <1>6, <1>7, <1>8, <1>9, <1>10 DEF MainInv

\* The second phase is given up when there are no such tuples.
LEMMA NoSuitablePairStep ==
  ASSUME MainInv, InputInv', NoSuitablePair
  PROVE  MainInv'
<1>1. /\ stage = "candidates" /\ stage' = "exit" /\ result' = "FAILURE"
      /\ SuitablePairs = {}
      /\ UNCHANGED <<vars, cuda, given, options, num_devices, tauVars, phaseVars>>
  BY DEF NoSuitablePair, Brute, Exit, startVars
<1>2. pair = <<>> /\ tested = 0 /\ ~key /\ pc = "done"
  BY <1>1 DEF MainInv, StageInv
<1>3. MainTypeOK'
  <2>1. TypeOK'
    BY DEF InputInv
  <2> QED BY <1>1, <2>1 DEF MainInv, MainTypeOK, tauVars, phaseVars, Stages
<1>4. OptionsInv' /\ StageInv'
  BY <1>1 DEF MainInv, OptionsInv, StageInv, Early, phaseVars
<1>5. SecondPhaseInv' /\ DeviceInv' /\ ThresholdsAreRight'
  BY <1>1, <1>2 DEF SecondPhaseInv, DeviceInv, Pooled, ThresholdsAreRight, phaseVars
<1>6. SearchPairIsRight'
  <2>1. \A s, t \in ToSet(sorted) : ~Differs30(s, t)
    BY <1>1, <1>2, SuitableTuples DEF MainInv, InputInv
  <2>2. sorted' = sorted
    BY <1>1 DEF vars
  <2> QED BY <1>1, <2>1, <2>2 DEF SearchPairIsRight, Differs30
<1>7. CandidatesAreTried'
  BY <1>1, <1>2 DEF CandidatesAreTried, phaseVars
<1> QED BY <1>3, <1>4, <1>5, <1>6, <1>7 DEF MainInv

\* The second phase runs on the devices asked for; without one it tests nothing.
LEMMA TestDevices ==
  ASSUME MainInv, CanTest
  PROVE  Usable(Selected)
<1>1. /\ options.devices \in Seq(Nat) /\ IsInjective(options.devices)
      /\ num_devices \in 0 .. MaxDevices /\ num_devices > 0
      /\ AllExist
  BY DEF MainInv, MainTypeOK, OptionsInv, StageInv, Options, CanTest
<1> QED BY <1>1, SelectedUsable

\* What the second phase has done so far is kept when it ends.
LEMMA SearchEnds ==
  ASSUME MainInv, InputInv', stage = "search", stage' = "exit",
         NEW r \in {"SUCCESS", "ERROR"}, result' = r,
         UNCHANGED <<vars, cuda, given, options, num_devices, tauVars, candidates, pair, tested>>,
         key' \in BOOLEAN, Usable(used'), CandidatesAreTried'
  PROVE  MainInv'
<1>1. MainTypeOK'
  <2>1. TypeOK' /\ used' \in Seq(0 .. MaxDevices - 1)
    BY DEF InputInv, Usable
  <2> QED BY <2>1 DEF MainInv, MainTypeOK, tauVars, Stages
<1>2. OptionsInv' /\ StageInv'
  BY DEF MainInv, OptionsInv, StageInv, Early
<1>3. SecondPhaseInv' /\ ThresholdsAreRight' /\ SearchPairIsRight'
  BY DEF SecondPhaseInv, ThresholdsAreRight, SearchPairIsRight
<1>4. DeviceInv'
  BY DEF DeviceInv, Usable
<1> QED BY <1>1, <1>2, <1>3, <1>4 DEF MainInv

\* A candidate with a key ends the program; no later one has more pairs.
LEMMA KeyFoundStep ==
  ASSUME MainInv, InputInv', KeyFound
  PROVE  MainInv'
<1>1. /\ stage = "search" /\ stage' = "exit" /\ result' = "SUCCESS" /\ key' = TRUE
      /\ tested < Len(candidates)
      /\ used' = Selected
      /\ UNCHANGED <<vars, cuda, given, options, num_devices, tauVars, candidates, pair, tested>>
  BY DEF KeyFound, CanTest, Exit, startVars
<1>2. Usable(used')
  BY <1>1, TestDevices DEF KeyFound
<1>3. tested \in Nat /\ Len(candidates) \in Nat
  BY DEF MainInv, MainTypeOK
<1>4. \A m \in tested + 2 .. Len(candidates) : candidates[m] <= candidates[tested + 1]
  <2>1. tested + 1 \in 1 .. Len(candidates)
    BY <1>1, <1>3
  <2>2. \A m \in tested + 2 .. Len(candidates) : m \in 1 .. Len(candidates) /\ tested + 1 < m
    BY <1>3
  <2> QED BY <1>1, <2>1, <2>2 DEF MainInv, SecondPhaseInv
<1>5. CandidatesAreTried'
  BY <1>1, <1>4 DEF CandidatesAreTried
<1> QED BY <1>1, <1>2, <1>5, SearchEnds

\* A candidate without a key leaves the search where it can go on.
LEMMA NoKeyStep ==
  ASSUME MainInv, InputInv', NoKey
  PROVE  MainInv'
<1>1. /\ stage = "search" /\ stage' = "search" /\ tested < Len(candidates)
      /\ tested' = tested + 1
      /\ used' = Selected
      /\ UNCHANGED <<vars, cuda, given, options, num_devices, tauVars, candidates, pair, key, result>>
  BY DEF NoKey, CanTest, Cleared, Stay, startVars
<1>2. Usable(used')
  BY <1>1, TestDevices DEF NoKey
<1>3. MainTypeOK'
  <2>1. TypeOK' /\ used' \in Seq(0 .. MaxDevices - 1)
    BY <1>2 DEF InputInv, Usable
  <2>2. tested' \in 0 .. Len(candidates')
    BY <1>1 DEF MainInv, MainTypeOK
  <2>3. pc' = "done" /\ pairs' # <<>> /\ cuda
    BY <1>1 DEF MainInv, MainTypeOK, vars
  <2> QED BY <1>1, <2>1, <2>2, <2>3 DEF MainInv, MainTypeOK, tauVars, Stages
<1>4. OptionsInv' /\ StageInv'
  BY <1>1 DEF MainInv, OptionsInv, StageInv, Early, AllExist, Exists, vars
<1>5. SecondPhaseInv'
  <2>1. SuitablePairs' = SuitablePairs
    BY <1>1 DEF SuitablePairs, Suitable, Tweak, Indexes, vars
  <2> QED BY <1>1, <2>1 DEF MainInv, SecondPhaseInv
<1>6. DeviceInv'
  BY <1>1, <1>2 DEF DeviceInv, Usable
<1>7. SearchPairIsRight'
  <2>1. tuples' = tuples /\ sorted' = sorted
    BY <1>1 DEF vars
  <2> QED BY <1>1, <2>1 DEF MainInv, SearchPairIsRight, Differs30
<1>8. CandidatesAreTried'
  BY <1>1 DEF CandidatesAreTried
<1>9. ThresholdsAreRight'
  BY <1>1, ThresholdsKept DEF MainInv
<1> QED BY <1>3, <1>4, <1>5, <1>6, <1>7, <1>8, <1>9 DEF MainInv

\* The second phase fails, or has tried every candidate.
LEMMA SearchGivenUp ==
  ASSUME MainInv, InputInv', TestFails \/ NoMatchingKey
  PROVE  MainInv'
<1>1. PICK r \in {"SUCCESS", "ERROR"} :
        /\ stage = "search" /\ stage' = "exit" /\ result' = r
        /\ r = "SUCCESS" => tested = Len(candidates)
        /\ UNCHANGED <<vars, cuda, given, options, num_devices, tauVars, phaseVars>>
  <2>1. CASE TestFails
    BY <2>1 DEF TestFails, Cleared, Exit, startVars
  <2>2. CASE NoMatchingKey
    BY <2>2 DEF NoMatchingKey, Exit, startVars
  <2> QED BY <2>1, <2>2
<1>2. ~key
  BY <1>1 DEF MainInv, StageInv
<1>3. MainTypeOK'
  <2>1. TypeOK'
    BY DEF InputInv
  <2> QED BY <1>1, <2>1 DEF MainInv, MainTypeOK, tauVars, phaseVars, Stages
<1>4. OptionsInv' /\ StageInv'
  BY <1>1, <1>2 DEF MainInv, OptionsInv, StageInv, Early, phaseVars
<1>5. SecondPhaseInv' /\ ThresholdsAreRight' /\ SearchPairIsRight'
  BY <1>1 DEF SecondPhaseInv, ThresholdsAreRight, SearchPairIsRight
<1>6. DeviceInv'
  <2>1. Pooled' => Pooled
    BY <1>1 DEF Pooled, phaseVars
  <2> QED BY <1>1, <2>1 DEF MainInv, DeviceInv, Usable, phaseVars
<1>7. CandidatesAreTried'
  BY <1>1, <1>2 DEF CandidatesAreTried, phaseVars
<1> QED BY <1>3, <1>4, <1>5, <1>6, <1>7 DEF MainInv

\* The invariant holds when the program starts.
LEMMA MainInitially == MainInit => MainInv
<1> SUFFICES ASSUME MainInit
             PROVE  MainInv
  OBVIOUS
<1>1. InputInv
  BY InputInitially DEF MainInit
<1>2. /\ stage = "options" /\ tested = 0 /\ key = FALSE /\ candidates = <<>> /\ pair = <<>>
      /\ options.devices = <<>> /\ options.brute_force = cuda
  BY DEF MainInit
<1>3. MainTypeOK
  <2>1. /\ MaxDevices \in Nat /\ MaxOptions \in Nat /\ UintRange \in Nat \ {0}
        /\ <<>> \in Seq(Nat) /\ <<>> \in Seq(0 .. MaxDevices - 1)
    BY MainAssumption
  <2>2. options \in Options
    BY <2>1 DEF MainInit, Options, CpuAlgorithms, GpuAlgorithms
  <2>3. ~cuda => options.algorithm \in CpuAlgorithms
    BY DEF MainInit, CpuAlgorithms
  <2>4. candidates \in Seq(Nat) /\ tested \in 0 .. Len(candidates)
    BY <1>2
  <2>5. /\ given \in 0 .. MaxOptions /\ num_devices \in 0 .. MaxDevices
        /\ tau1 \in Nat /\ tau2 \in Nat /\ used \in Seq(0 .. MaxDevices - 1)
        /\ cuda \in BOOLEAN /\ key \in BOOLEAN /\ stage \in Stages /\ result = "none"
    <3>1. /\ given = 0 /\ num_devices = 0 /\ tau1 = 0 /\ tau2 = 0 /\ used = <<>>
          /\ cuda \in BOOLEAN /\ result = "none"
      BY DEF MainInit
    <3>2. key \in BOOLEAN /\ stage \in Stages /\ used \in Seq(0 .. MaxDevices - 1)
      BY <1>2, <2>1, <3>1, Zenon DEF Stages
    <3>3. 0 \in 0 .. MaxOptions /\ 0 \in 0 .. MaxDevices /\ 0 \in Nat
      BY <2>1
    <3> QED BY <3>1, <3>2, <3>3, Zenon
  <2>6. TypeOK
    BY <1>1 DEF InputInv
  <2> QED BY <1>2, <2>2, <2>3, <2>4, <2>5, <2>6 DEF MainTypeOK
<1>4. OptionsInv /\ StageInv
  BY <1>2 DEF OptionsInv, StageInv, Early, IsInjective
<1>5. NotBegun
  BY <1>2 DEF NotBegun, Early
<1> QED BY <1>1, <1>2, <1>3, <1>4, <1>5, NothingYet DEF MainInv

\* Nothing changes.
LEMMA MainStutters ==
  ASSUME MainInv, UNCHANGED <<vars, mainVars>>
  PROVE  MainInv'
<1>1. InputInv'
  BY InputPart
<1>2. MainTypeOK' /\ OptionsInv'
  BY <1>1 DEF MainInv, InputInv, MainTypeOK, OptionsInv, mainVars, tauVars, phaseVars, vars
<1>3. StageInv'
  BY DEF MainInv, StageInv, AllExist, Exists, mainVars, phaseVars, vars
<1>4. SecondPhaseInv'
  BY DEF MainInv, SecondPhaseInv, SuitablePairs, Suitable, Tweak, Indexes, mainVars, phaseVars, vars
<1>5. DeviceInv'
  BY DEF MainInv, DeviceInv, Pooled, OnGpu, Usable, mainVars, phaseVars
<1>6. ThresholdsAreRight'
  BY DEF MainInv, ThresholdsAreRight, Largest, mainVars, tauVars
<1>7. SearchPairIsRight' /\ CandidatesAreTried'
  BY DEF MainInv, SearchPairIsRight, CandidatesAreTried, Differs30, mainVars, phaseVars, vars
<1> QED BY <1>1, <1>2, <1>3, <1>4, <1>5, <1>6, <1>7 DEF MainInv

\* Every step keeps the invariant.
LEMMA MainStep ==
  ASSUME MainInv, [MainNext]_<<vars, mainVars>>
  PROVE  MainInv'
<1>1. InputInv'
  BY InputPart
<1>2. CASE ParseAlgorithm \/ ParseFlag \/ ParseDevices \/ ParseTau
  BY <1>1, <1>2, ParseStep
<1>3. CASE ListDevices \/ BeginInput \/ Input \/ EndInput
  BY <1>1, <1>3, BeforeAttack
<1>4. CASE \/ ParseFails \/ ListFails \/ InvalidDevice \/ NoAttack
           \/ InputFails \/ NoPairs \/ AttackFails
  BY <1>1, <1>4, NoFirstPhase
<1>5. CASE Thresholds
  BY <1>1, <1>5, ThresholdsStep
<1>6. CASE Attack
  BY <1>1, <1>6, AttackStep
<1>7. CASE EndAttack
  BY <1>1, <1>7, EndAttackStep
<1>8. CASE FindPair
  BY <1>1, <1>8, FindPairStep
<1>9. CASE NoSuitablePair
  BY <1>1, <1>9, NoSuitablePairStep
<1>10. CASE KeyFound
  BY <1>1, <1>10, KeyFoundStep
<1>11. CASE NoKey
  BY <1>1, <1>11, NoKeyStep
<1>12. CASE TestFails \/ NoMatchingKey
  BY <1>1, <1>12, SearchGivenUp
<1>13. CASE UNCHANGED <<vars, mainVars>>
  BY <1>13, MainStutters
<1> QED BY <1>2, <1>3, <1>4, <1>5, <1>6, <1>7, <1>8, <1>9, <1>10, <1>11, <1>12, <1>13
        DEF MainNext

-----------------------------------------------------------------------------
(* The theorems.                                                             *)

\* main keeps the invariant, whatever the computer, the command line and the file.
THEOREM MainInvariance == MainSpec => []MainInv
<1>1. MainInit => MainInv
  BY MainInitially
<1>2. MainInv /\ [MainNext]_<<vars, mainVars>> => MainInv'
  BY MainStep
<1> QED BY <1>1, <1>2, PTL DEF MainSpec

\* The variables of main and of the input keep their types, and no list of the
\* input outgrows its memory.
THEOREM MainTypeCorrect == MainSpec => []MainTypeOK
<1>1. MainInv => MainTypeOK
  BY DEF MainInv
<1> QED BY <1>1, MainInvariance, PTL

\* Of two copies of a tuple one is removed; no tuple is lost and the order is kept.
THEOREM DuplicatesRemoved == MainSpec => []DuplicatesThinned
<1>1. MainInv => DuplicatesThinned
  BY DEF MainInv, InputInv
<1> QED BY <1>1, MainInvariance, PTL

\* generate_pairs lists the viable pairs, each once and in order, although it
\* leaves its inner loop early.
THEOREM PairsListed == MainSpec => []PairsAreRight
<1>1. MainInv => PairsAreRight
  BY AllPairs DEF MainInv
<1> QED BY <1>1, MainInvariance, PTL

\* A pool of threads has a device, none twice, and all that were asked for.
THEOREM PoolHasDevices == MainSpec => []DevicesUsable
<1>1. MainInv => DevicesUsable
  BY DEF MainInv, DeviceInv, DevicesUsable, Usable
<1> QED BY <1>1, MainInvariance, PTL

\* A threshold that get_tau computes is the largest that reaches the probability,
\* or 1: p_success for tau1, which may then be too large for the counters, and 0.7
\* for tau2.  A threshold that the user gives is used as it is, but for a tau1 that
\* is too large for the counters of GPU_ATTACK2.
THEOREM ThresholdsCorrect == MainSpec => []ThresholdsAreRight
<1>1. MainInv => ThresholdsAreRight
  BY DEF MainInv
<1> QED BY <1>1, MainInvariance, PTL

\* The second phase has two tuples of the file that differ in bit 30 alone, or the
\* file has none.
THEOREM SearchPairCorrect == MainSpec => []SearchPairIsRight
<1>1. MainInv => SearchPairIsRight
  BY DEF MainInv
<1> QED BY <1>1, MainInvariance, PTL

\* main returns success only with a key or when every candidate was tried.
THEOREM CandidatesTried == MainSpec => []CandidatesAreTried
<1>1. MainInv => CandidatesAreTried
  BY DEF MainInv
<1> QED BY <1>1, MainInvariance, PTL

\* The input alone: what TuplePairs promises to whoever reads a file with it.
THEOREM InputCorrect == Spec => [](TypeOK /\ DuplicatesThinned /\ PairsAreRight)
<1>1. Init => InputInv
  BY InputInitially
<1>2. InputInv /\ [Next]_vars => InputInv'
  BY InputStep
<1>3. InputInv => TypeOK /\ DuplicatesThinned /\ PairsAreRight
  BY AllPairs DEF InputInv
<1> QED BY <1>1, <1>2, <1>3, PTL DEF Spec
=============================================================================
