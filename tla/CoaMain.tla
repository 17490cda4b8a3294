---------------------------------- MODULE CoaMain ----------------------------------
(*****************************************************************************)
(* main of halfloop-coa, with parse_options, parse_devices, get_tau and the  *)
(* set-up of the device list in cuda_ct_attack and                           *)
(* halfloop_cuda_bitslice_all.  Reading and pairing are the steps of         *)
(* TuplePairs.  What the first phase finds, and whether the second phase     *)
(* finds the rest of a key, is chosen here: CpuAttack, CtAttackPool and      *)
(* BitslicePool model how it comes about.                                    *)
(*                                                                           *)
(* A result is "SUCCESS", "FAILURE" or, for every other code, "ERROR".       *)
(* Options that change no decision of main are left out.                     *)
(*****************************************************************************)
EXTENDS TuplePairs, FiniteSets

CONSTANTS
  Bit30,          \* 1 << 30 in the low part of a tweak
  MaxDevices,     \* bound: CUDA devices of the computer
  MAX_DEVICES,    \* entries of a device list
  DeviceLists,    \* lists of numbers given with -d
  Numbers,        \* what atoi makes of the argument of -t or -u
  UintRange,      \* 2^32
  CounterMax,     \* 15, the largest value of the counters of GPU_ATTACK2
  MaxTau,         \* 255, where get_tau starts
  CandidateLists, \* lists of candidates, each a number of pairs
  MaxOptions      \* bound: options on the command line

ASSUME MainAssumption ==
  /\ {Bit30, MAX_DEVICES, UintRange, CounterMax, MaxTau} \subseteq Nat \ {0}
  /\ {MaxDevices, MaxOptions} \subseteq Nat
  /\ DeviceLists \subseteq Seq(Int) /\ CandidateLists \subseteq Seq(Nat)
  /\ \A n \in Numbers : n \in Int /\ -UintRange < n /\ n < UintRange

CpuAlgorithms == {"CPU_ATTACK1", "CPU_ATTACK2", "CPU_ATTACK3"}
GpuAlgorithms == {"GPU_ATTACK2", "GPU_ATTACK3"}

VARIABLES
  cuda,        \* whether the program was built with CUDA_ENABLED
  stage,       \* "options", "devices", "input", "thresholds", "attack",
               \* "candidates", "search" or "exit"
  given,       \* options parsed so far
  options,     \* tau1 and tau2 are as given, 0 when they are not
  num_devices, \* CUDA devices found
  reaches,     \* chances: whether a tau reaches p_success, 0.7 and 0.99
  tau1, tau2,  \* the thresholds of the attack
  used,        \* the device list of the last pool of threads
  candidates,
  pair,        \* indexes of the tuples of the second phase
  tested,      \* candidates without a key
  key,         \* whether a key was printed
  result       \* what main returns

startVars == <<cuda, given, options, num_devices>>
tauVars == <<reaches, tau1, tau2>>
phaseVars == <<used, candidates, pair, tested, key>>
mainVars == <<cuda, stage, given, options, num_devices, tauVars, phaseVars, result>>

MainInit ==
  /\ Init
  /\ cuda \in BOOLEAN
  /\ stage = "options"
  /\ given = 0
  /\ options = [algorithm |-> IF cuda THEN "GPU_ATTACK3" ELSE "CPU_ATTACK3",
                brute_force |-> cuda, benchmark |-> FALSE, listdevs |-> FALSE,
                devices |-> <<>>, tau1 |-> 0, tau2 |-> 0]
  /\ num_devices = 0
  /\ reaches = <<>>
  /\ tau1 = 0 /\ tau2 = 0
  /\ used = <<>>
  /\ candidates = <<>>
  /\ pair = <<>>
  /\ tested = 0
  /\ key = FALSE
  /\ result = "none"

Exit(r) == stage' = "exit" /\ result' = r
Stay(s) == stage' = s /\ UNCHANGED result

-----------------------------------------------------------------------------
(* parse_options.                                                            *)

Option(o) ==
  /\ stage = "options"
  /\ given < MaxOptions
  /\ given' = given + 1
  /\ options' = o
  /\ UNCHANGED <<vars, cuda, stage, num_devices, tauVars, phaseVars, result>>

ParseAlgorithm ==
  \E a \in CpuAlgorithms \cup (IF cuda THEN GpuAlgorithms ELSE {}) :
    Option([options EXCEPT !.algorithm = a])

ParseFlag ==
  \/ Option([options EXCEPT !.benchmark = TRUE])
  \/ cuda /\ Option([options EXCEPT !.brute_force = FALSE])
  \/ cuda /\ Option([options EXCEPT !.listdevs = TRUE])

\* parse_devices: entries beyond MAX_DEVICES are not looked at.
Listed(list) == SubSeq(list, 1, IF Len(list) < MAX_DEVICES THEN Len(list) ELSE MAX_DEVICES)

Accepted(list) == IsInjective(list) /\ \A d \in ToSet(list) : d >= 0

ParseDevices ==
  /\ cuda
  /\ \E list \in DeviceLists :
       /\ Accepted(Listed(list))
       /\ Option([options EXCEPT !.devices = Listed(list)])

\* parse_int: the number is converted to u32, and only zero is refused.
Uint(n) == n % UintRange

ParseTau ==
  \E n \in Numbers :
    /\ Uint(n) # 0
    /\ \/ Option([options EXCEPT !.tau1 = Uint(n)])
       \/ Option([options EXCEPT !.tau2 = Uint(n)])

\* An option or argument that is refused, or an argument missing.
ParseFails ==
  /\ stage = "options"
  /\ \E r \in {"FAILURE", "ERROR"} : Exit(r)
  /\ UNCHANGED <<vars, startVars, tauVars, phaseVars>>

\* The end of the command line; halfloop_list_cuda_devices.
ListDevices ==
  /\ stage = "options"
  /\ num_devices' \in IF cuda THEN 0 .. MaxDevices ELSE {0}
  /\ Stay("devices")
  /\ UNCHANGED <<vars, cuda, given, options, tauVars, phaseVars>>

ListFails ==
  /\ stage = "options"
  /\ cuda
  /\ Exit("ERROR")
  /\ UNCHANGED <<vars, startVars, tauVars, phaseVars>>

-----------------------------------------------------------------------------
(* Up to the thresholds.                                                     *)

\* Fault: the number of devices is taken for the number of a device.
Exists_UpTo(d) == d <= num_devices

Exists(d) == d < num_devices

AllExist == \A d \in ToSet(options.devices) : Exists(d)

InvalidDevice ==
  /\ stage = "devices"
  /\ ~AllExist
  /\ Exit("FAILURE")
  /\ UNCHANGED <<vars, startVars, tauVars, phaseVars>>

\* -l, or else -b with tests that may fail, ends the program.
NoAttack ==
  /\ stage = "devices"
  /\ AllExist
  /\ \/ options.listdevs /\ Exit("SUCCESS")
     \/ ~options.listdevs /\ options.benchmark
          /\ \E r \in {"SUCCESS", "FAILURE", "ERROR"} : Exit(r)
  /\ UNCHANGED <<vars, startVars, tauVars, phaseVars>>

BeginInput ==
  /\ stage = "devices"
  /\ AllExist
  /\ ~options.listdevs /\ ~options.benchmark
  /\ Stay("input")
  /\ UNCHANGED <<vars, startVars, tauVars, phaseVars>>

Input ==
  /\ stage = "input"
  /\ Next
  /\ UNCHANGED mainVars

\* The file cannot be opened, or there was an error.
InputFails ==
  /\ stage = "input"
  /\ pc = "error" \/ (pc = "read" /\ lines = 0)
  /\ Exit("ERROR")
  /\ UNCHANGED <<vars, startVars, tauVars, phaseVars>>

EndInput ==
  /\ stage = "input"
  /\ pc = "done"
  /\ Stay("thresholds")
  /\ UNCHANGED <<vars, startVars, tauVars, phaseVars>>

\* What calc_p_success makes of each tau: whether it reaches a probability.
Chances == [1 .. MaxTau -> BOOLEAN]

\* The loop of get_tau, from tau on: the condition is tested after tau is
\* decremented, with the chance of the tau before.
Stops[tau \in 0 .. MaxTau] ==
  [reach \in Chances |->
     IF tau = 0 THEN 0 ELSE IF reach[tau] THEN tau - 1 ELSE Stops[tau - 1][reach]]

\* Fault: the last decrement is not made up for.
GetTau_Decremented(reach) == Stops[MaxTau][reach]

GetTau(reach) == Stops[MaxTau][reach] + 1

\* calc_p_success and get_tau do not accept an empty list of pairs.
NoPairs ==
  /\ stage = "thresholds"
  /\ pairs = <<>>
  /\ Exit("ERROR")
  /\ UNCHANGED <<vars, startVars, tauVars, phaseVars>>

\* A tau1 that does not fit in the counters is reduced, if it was given; one that
\* get_tau computes is not.
Fitting(tau) ==
  IF options.algorithm = "GPU_ATTACK2" /\ tau > CounterMax THEN CounterMax ELSE tau

Thresholds ==
  /\ stage = "thresholds"
  /\ pairs # <<>>
  /\ \E r1, r70, r99 \in Chances :
       /\ \A t \in 1 .. MaxTau : r99[t] => r70[t]
       /\ reaches' = <<r1, r70, r99>>
       /\ tau1' = IF options.tau1 = 0 THEN GetTau(r1) ELSE Fitting(options.tau1)
       /\ tau2' = IF options.tau2 = 0 THEN GetTau(r70) ELSE options.tau2
  /\ Stay("attack")
  /\ UNCHANGED <<vars, startVars, phaseVars>>

-----------------------------------------------------------------------------
(* The two phases.                                                           *)

\* The positions in options.devices of the devices that exist.
Kept == {n \in 1 .. Len(options.devices) : options.devices[n] < num_devices}

\* The device list that cuda_ct_attack and halfloop_cuda_bitslice_all make of
\* options.devices; they return an error when there is no device at all.
Selected ==
  IF options.devices = <<>>
  THEN Listed([n \in 1 .. num_devices |-> n - 1])
  ELSE [k \in 1 .. Cardinality(Kept) |->
          options.devices[CHOOSE n \in Kept : Cardinality({m \in Kept : m <= n}) = k]]

OnGpu == options.algorithm \in GpuAlgorithms

Attack ==
  /\ stage = "attack"
  /\ OnGpu => num_devices > 0
  /\ used' = IF OnGpu THEN Selected ELSE <<>>
  /\ candidates' \in CandidateLists
  /\ Stay("candidates")
  /\ UNCHANGED <<vars, startVars, tauVars, pair, tested, key>>

AttackFails ==
  /\ stage = "attack"
  /\ Exit("ERROR")
  /\ UNCHANGED <<vars, startVars, tauVars, phaseVars>>

EndAttack ==
  /\ stage = "candidates"
  /\ candidates = <<>> \/ ~options.brute_force
  /\ Exit("SUCCESS")
  /\ UNCHANGED <<vars, startVars, tauVars, phaseVars>>

\* ct[i].tweak ^ (1 << 30)
Flipped(tweak) == IF (tweak \div Bit30) % 2 = 0 THEN tweak + Bit30 ELSE tweak - Bit30

\* Fault: only neighbours in the list are compared.
Suitable_Neighbour(a, b) == b = a + 1 /\ Flipped(Tweak(a)) = Tweak(b)

Suitable(a, b) == Flipped(Tweak(a)) = Tweak(b)

SuitablePairs == {p \in Indexes \X Indexes : p[1] < p[2] /\ Suitable(p[1], p[2])}

\* The nested loops stop at the first pair.
First(p, q) == p[1] < q[1] \/ (p[1] = q[1] /\ p[2] <= q[2])

\* compare_candidates; among candidates with as many pairs any order will do.
CompareCandidates(c, d) == c > d

Brute == stage = "candidates" /\ candidates # <<>> /\ options.brute_force

FindPair ==
  /\ Brute
  /\ \E p \in SuitablePairs : (\A q \in SuitablePairs : First(p, q)) /\ pair' = p
  /\ candidates' = QSort(candidates, CompareCandidates)
  /\ Stay("search")
  /\ UNCHANGED <<vars, startVars, tauVars, used, tested, key>>

NoSuitablePair ==
  /\ Brute
  /\ SuitablePairs = {}
  /\ Exit("FAILURE")
  /\ UNCHANGED <<vars, startVars, tauVars, phaseVars>>

\* halfloop_cuda_bitslice_all wants four tuples, and a device.
CanTest == stage = "search" /\ tested < Len(candidates) /\ Len(tuples) >= 4 /\ num_devices > 0

KeyFound ==
  /\ CanTest
  /\ used' = Selected
  /\ key' = TRUE
  /\ Exit("SUCCESS")
  /\ UNCHANGED <<vars, startVars, tauVars, candidates, pair, tested>>

\* Fault: HALFLOOP_FAILURE is not cleared.
Cleared_Kept(r) == r

\* err after a candidate for which there is no key.
Cleared(r) == IF r = "FAILURE" THEN "SUCCESS" ELSE r

NoKey ==
  /\ CanTest
  /\ used' = Selected
  /\ tested' = tested + 1
  /\ IF Cleared("FAILURE") = "SUCCESS" THEN Stay("search") ELSE Exit(Cleared("FAILURE"))
  /\ UNCHANGED <<vars, startVars, tauVars, candidates, pair, key>>

TestFails ==
  /\ stage = "search"
  /\ tested < Len(candidates)
  /\ Exit(Cleared("ERROR"))
  /\ UNCHANGED <<vars, startVars, tauVars, phaseVars>>

NoMatchingKey ==
  /\ stage = "search"
  /\ tested = Len(candidates)
  /\ Exit("SUCCESS")
  /\ UNCHANGED <<vars, startVars, tauVars, phaseVars>>

MainNext ==
  \/ ParseAlgorithm \/ ParseFlag \/ ParseDevices \/ ParseTau \/ ParseFails
  \/ ListDevices \/ ListFails \/ InvalidDevice \/ NoAttack
  \/ BeginInput \/ Input \/ InputFails \/ EndInput \/ NoPairs \/ Thresholds
  \/ Attack \/ AttackFails \/ EndAttack
  \/ FindPair \/ NoSuitablePair \/ KeyFound \/ NoKey \/ TestFails \/ NoMatchingKey

MainSpec == MainInit /\ [][MainNext]_<<vars, mainVars>>
-----------------------------------------------------------------------------
(* Properties.                                                               *)

Stages == {"options", "devices", "input", "thresholds", "attack",
           "candidates", "search", "exit"}
Options ==
  [algorithm : CpuAlgorithms \cup GpuAlgorithms, brute_force : BOOLEAN,
   benchmark : BOOLEAN, listdevs : BOOLEAN, devices : Seq(Nat),
   tau1 : 0 .. UintRange - 1, tau2 : 0 .. UintRange - 1]

\* The variables of main keep their types, as do those of the input; main goes
\* on from the input with a list of pairs, and options that need CUDA are only
\* accepted by a program that has it.
MainTypeOK ==
  /\ TypeOK
  /\ cuda \in BOOLEAN /\ key \in BOOLEAN
  /\ stage \in Stages
  /\ given \in 0 .. MaxOptions
  /\ options \in Options
  /\ num_devices \in 0 .. MaxDevices
  /\ tau1 \in Nat /\ tau2 \in Nat
  /\ used \in Seq(0 .. MaxDevices - 1)
  /\ candidates \in Seq(Nat) /\ tested \in 0 .. Len(candidates)
  /\ result \in {"none", "SUCCESS", "FAILURE", "ERROR"}
  /\ (stage = "exit") = (result # "none")
  /\ stage \in {"attack", "candidates", "search"} => pc = "done" /\ pairs # <<>>
  /\ ~cuda => options.algorithm \in CpuAlgorithms /\ options.devices = <<>> /\ stage # "search"

Pooled == (stage \in {"candidates", "search"} /\ OnGpu) \/ tested > 0 \/ key

\* cuda_ct_attack and halfloop_cuda_bitslice_all skip devices that do not exist,
\* and would search with no thread, or with four on one device, if main let such
\* lists pass: a pool has a device, none twice, and all that were asked for.
DevicesUsable ==
  Pooled =>
    /\ used # <<>>
    /\ IsInjective(used)
    /\ ToSet(used) \subseteq 0 .. num_devices - 1
    /\ options.devices # <<>> => used = options.devices

Largest(reach, tau) ==
  /\ tau \in 1 .. MaxTau
  /\ reach[tau] \/ tau = 1
  /\ \A t \in tau + 1 .. MaxTau : ~reach[t]

\* The loop of get_tau decrements before it tests: the thresholds that main
\* computes are the largest that reach the probability, or 1.  For tau2 this is
\* 0.7; the help text and README.md have 0.99 for it, which only lower thresholds
\* reach.  A computed tau1 is left above what the counters of GPU_ATTACK2 hold.
\* A threshold that the user gives is taken, but for a tau1 too large for those.
ThresholdsAreRight ==
  stage \in {"attack", "candidates", "search"} =>
    /\ options.tau1 = 0 => Largest(reaches[1], tau1)
    /\ options.tau2 = 0 =>
         Largest(reaches[2], tau2) /\ \A t \in 1 .. MaxTau : reaches[3][t] => t <= tau2
    /\ options.tau2 # 0 => tau2 = options.tau2
    /\ options.tau1 # 0 =>
         \/ tau1 = options.tau1 /\ (options.algorithm = "GPU_ATTACK2" => tau1 <= CounterMax)
         \/ tau1 = CounterMax /\ options.algorithm = "GPU_ATTACK2" /\ options.tau1 > CounterMax

Differs30(s, t) ==
  /\ s.tweak \div (2 * Bit30) = t.tweak \div (2 * Bit30)
  /\ s.tweak % Bit30 = t.tweak % Bit30
  /\ s.tweak # t.tweak

\* The second phase runs with two tuples of the file whose tweaks differ in bit
\* 30 and nowhere else, and is only given up, with a failure after the first
\* phase, when the file has no such tuples: the search for them looks at each
\* two in one order, in a list that was sorted and cut.
SearchPairIsRight ==
  /\ stage = "search" =>
       LET s == tuples[pair[1] + 1]  t == tuples[pair[2] + 1]
       IN  {s, t} \subseteq ToSet(sorted) /\ Differs30(s, t)
  /\ stage = "exit" /\ result = "FAILURE" /\ candidates # <<>> =>
       \A s, t \in ToSet(sorted) : ~Differs30(s, t)

\* A candidate without a key, which halfloop_cuda_bitslice_all returns as a
\* failure, does not end the search: main returns success only with a key or
\* when there is no candidate left, and has then tried all candidates with more
\* pairs than the one the key is for.
CandidatesAreTried ==
  stage = "exit" /\ pair # <<>> /\ result # "ERROR" =>
    /\ result = "SUCCESS"
    /\ key \/ tested = Len(candidates)
    /\ key => \A m \in tested + 2 .. Len(candidates) : candidates[m] <= candidates[tested + 1]
=============================================================================
