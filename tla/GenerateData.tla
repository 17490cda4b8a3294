-------------------------------- MODULE GenerateData --------------------------------
(*****************************************************************************)
(* halfloop-generate-data: random calls in consecutive bins of time, each    *)
(* call printed as two ciphertexts whose tweaks differ in the word field.    *)
(*                                                                           *)
(* A bin is MinutesPerBin minutes; a slot in it is a minute and a number     *)
(* below SlotsPerMinute, of which the first Seconds are seconds.  A printed  *)
(* line stands for its tweak, without the frequency, which is the same for   *)
(* all; the key, the callsign chosen and the ciphertext are left out.        *)
(* Frequencies are in units of 100 Hz, the channels.  Random integers are of *)
(* a type with the values -Half .. Half - 1.  What happens after a division  *)
(* by zero or an index out of bounds is not defined.                         *)
(*****************************************************************************)
EXTENDS Integers, Sequences, FiniteSets

CONSTANTS
  MinutesPerBin,    \* 16
  SlotsPerMinute,   \* 64
  Seconds,          \* 60
  BinsPerDay,       \* 90
  Days,             \* the days of each month
  LowestChannel,    \* 30000
  Channels,         \* 270000
  ChannelLimit,     \* 10000000
  Half,             \* 2^31
  MaxBins,          \* bound: bins the user may ask for
  MaxCallsigns      \* bound: callsigns in the file

Slots == 0 .. MinutesPerBin * SlotsPerMinute - 1
DayMinutes == BinsPerDay * MinutesPerBin
Usable == MinutesPerBin * Seconds   \* slots that are a second of the bin

ASSUME GeneratorAssumption ==
  /\ {MinutesPerBin, SlotsPerMinute, Seconds, BinsPerDay, LowestChannel, Channels,
      ChannelLimit, Half, MaxBins, MaxCallsigns} \subseteq Nat \ {0}
  /\ Seconds <= SlotsPerMinute
  /\ MinutesPerBin * SlotsPerMinute > 1
  /\ LowestChannel + Channels <= ChannelLimit
  /\ Days \in Seq(Nat \ {0}) /\ Days # <<>>

\* 2^31 is no multiple of 12, of the days of a month or of 90, and leaves 173648
\* when divided by the channels: the smallest integer never makes a good field.
ASSUME SmallestAssumption ==
  /\ Half % Len(Days) # 0
  /\ \A m \in DOMAIN Days : Half % Days[m] # 0
  /\ Half % BinsPerDay # 0
  /\ Half % Channels >= LowestChannel

VARIABLES
  pc,           \* "load", "start", "pick", "print", "done", or an end:
                \* "failed" (file, memory, random bytes), "format", "undefined"
  num_bins, num_calls,  \* the arguments
  readable,     \* the file can be read: one that is a directory is opened only
  num_callsigns,
  frequency, month, day, coarse_time, fine_time,   \* fields of the tweak
  bin, call,    \* loop indexes
  slots,        \* the slots taken in this bin
  output,       \* history: the tweaks printed, with the bin they belong to
  extreme       \* history: a random field was -Half, which ABS leaves negative

vars == <<pc, num_bins, num_calls, readable, num_callsigns, frequency, month, day,
          coarse_time, fine_time, bin, call, slots, output, extreme>>
arguments == <<num_bins, num_calls, readable>>
time == <<frequency, month, day, coarse_time>>

\* Arguments out of these ranges are refused at once.
Init ==
  /\ pc = "load"
  /\ num_bins \in 1 .. MaxBins
  /\ num_calls \in 2 .. MinutesPerBin * SlotsPerMinute
  /\ readable \in BOOLEAN
  /\ num_callsigns = 0
  /\ frequency = 0
  /\ month = 0 /\ day = 0 /\ coarse_time = 0 /\ fine_time = 0
  /\ bin = 0
  /\ call = 0
  /\ slots = {}
  /\ output = {}
  /\ extreme = FALSE

\* The lines with three valid characters; there may be none.
LoadCallsigns ==
  /\ pc = "load"
  /\ readable
  /\ num_callsigns' \in 0 .. MaxCallsigns
  /\ pc' = "start"
  /\ UNCHANGED <<arguments, time, fine_time, bin, call, slots, output, extreme>>

\* A read error is not the end of the file, which alone ends the loop.
ReadAgain ==
  /\ pc = "load"
  /\ ~readable
  /\ UNCHANGED vars

\* No file, no memory, or no random bytes.
Fails ==
  /\ pc \in {"load", "start", "pick", "print"}
  /\ pc' = "failed"
  /\ UNCHANGED <<arguments, num_callsigns, time, fine_time, bin, call, slots,
                 output, extreme>>

\* ABS on two's complement, and the remainder of C, which has the dividend's sign.
Abs(x) == IF x >= 0 \/ x = -Half THEN x ELSE -x
Remainder(x, n) == IF x >= 0 THEN x % n ELSE -((-x) % n)
Reduced(x, n) == Remainder(Abs(x), n)

Random == -Half .. Half - 1

\* The first bin: a month, a day of it and a bin of the day at random; and the
\* frequency of all calls.
StartTime ==
  /\ pc = "start"
  /\ \E m, d, c, f \in Random :
       /\ extreme' = (-Half \in {m, d, c, f})
       /\ month' = Reduced(m, Len(Days)) + 1
       /\ \/ /\ month' \in DOMAIN Days
             /\ day' = Reduced(d, Days[month']) + 1
             /\ coarse_time' = Reduced(c, BinsPerDay) * MinutesPerBin
             /\ frequency' = Reduced(f, Channels) + LowestChannel
             /\ pc' = "pick"
          \/ /\ month' \notin DOMAIN Days
             /\ pc' = "undefined"
             /\ UNCHANGED <<frequency, day, coarse_time>>
  /\ UNCHANGED <<arguments, num_callsigns, fine_time, bin, call, slots, output>>

\* Fault: slots that are no second are accepted.
Fits_Any(slot) == slot \notin slots

\* Fault: taken slots are accepted.
Fits_Taken(slot) == slot % SlotsPerMinute < Seconds

\* The condition that ends the do-while loop.
Fits(slot) == slot \notin slots /\ slot % SlotsPerMinute < Seconds

\* Fault: the slot is not marked.
PickSlot_NotMarked ==
  /\ pc = "pick"
  /\ call < num_calls
  /\ \E slot \in Slots :
       /\ Fits(slot)
       /\ coarse_time' = coarse_time - (coarse_time % MinutesPerBin) + slot \div SlotsPerMinute
       /\ fine_time' = slot % SlotsPerMinute
  /\ pc' = "print"
  /\ UNCHANGED <<arguments, num_callsigns, frequency, month, day, bin, call, slots,
                 output, extreme>>

PickSlot ==
  /\ pc = "pick"
  /\ call < num_calls
  /\ \E slot \in Slots :
       /\ Fits(slot)
       /\ slots' = slots \cup {slot}
       /\ coarse_time' = coarse_time - (coarse_time % MinutesPerBin) + slot \div SlotsPerMinute
       /\ fine_time' = slot % SlotsPerMinute
  /\ pc' = "print"
  /\ UNCHANGED <<arguments, num_callsigns, frequency, month, day, bin, call, output,
                 extreme>>

\* A slot that does not fit is drawn again.
Retry ==
  /\ pc = "pick"
  /\ call < num_calls
  /\ \E slot \in Slots : ~Fits(slot)
  /\ UNCHANGED vars

\* check_tweak, for the fields that change.
Compliant ==
  /\ month \in DOMAIN Days
  /\ day \in 1 .. Days[month]
  /\ coarse_time \in 0 .. DayMinutes - 1
  /\ fine_time \in 0 .. Seconds - 1
  /\ frequency \in 1 .. ChannelLimit - 1

Line(word) == [bin |-> bin, month |-> month, day |-> day,
               coarse_time |-> coarse_time, fine_time |-> fine_time, word |-> word]

\* A callsign, and the two lines of the call, with word 0 and 1.
PrintCall ==
  /\ pc = "print"
  /\ num_callsigns > 0
  /\ Compliant
  /\ output' = output \cup {Line(0), Line(1)}
  /\ call' = call + 1
  /\ pc' = "pick"
  /\ UNCHANGED <<arguments, num_callsigns, time, fine_time, bin, slots, extreme>>

\* create_tweak refuses the tweak.
FormatError ==
  /\ pc = "print"
  /\ num_callsigns > 0
  /\ ~Compliant
  /\ pc' = "format"
  /\ UNCHANGED <<arguments, num_callsigns, time, fine_time, bin, call, slots,
                 output, extreme>>

\* randnum % num_callsigns
NoCallsigns ==
  /\ pc = "print"
  /\ num_callsigns = 0
  /\ pc' = "undefined"
  /\ UNCHANGED <<arguments, num_callsigns, time, fine_time, bin, call, slots,
                 output, extreme>>

Midnight(minutes) == minutes >= DayMinutes

\* Fault: the last day of a month is skipped.
MonthEnd_Early(d) == d >= Days[month]

MonthEnd(d) == d > Days[month]

\* Fault: the slots of the last bin stay taken.
FreshSlots_Kept == slots

\* char slots[1024] = {0} in the loop body.
FreshSlots == {}

\* The bin's calls are made: the clock moves to the start of the next bin.
NextBin ==
  /\ pc = "pick"
  /\ call = num_calls
  /\ LET minutes == coarse_time - (coarse_time % MinutesPerBin) + MinutesPerBin
         newDay == Midnight(minutes)
         newMonth == newDay /\ MonthEnd(day + 1)
     IN /\ coarse_time' = IF newDay THEN 0 ELSE minutes
        /\ day' = IF newMonth THEN 1 ELSE IF newDay THEN day + 1 ELSE day
        /\ month' = IF newMonth THEN (month % Len(Days)) + 1 ELSE month
  /\ bin' = bin + 1
  /\ call' = 0
  /\ slots' = FreshSlots
  /\ pc' = IF bin + 1 < num_bins THEN "pick" ELSE "done"
  /\ UNCHANGED <<arguments, num_callsigns, frequency, fine_time, output, extreme>>

\* What the program does when nothing fails.
Step ==
  \/ LoadCallsigns \/ StartTime
  \/ PickSlot \/ PrintCall \/ FormatError \/ NoCallsigns
  \/ NextBin

Next == Step \/ ReadAgain \/ Retry \/ Fails

Spec == Init /\ [][Next]_vars

\* The program runs, and random_bytes does not avoid the free slots for ever.
FairSpec == Spec /\ WF_vars(Step)

-----------------------------------------------------------------------------
(* Properties.                                                               *)

Ends == {"done", "failed", "format", "undefined"}

\* The variables keep their types, and no more slots are taken than calls made.
TypeOK ==
  /\ pc \in {"load", "start", "pick", "print"} \cup Ends
  /\ num_bins \in 1 .. MaxBins /\ num_calls \in Nat /\ num_callsigns \in Nat
  /\ {frequency, month, day, coarse_time, fine_time} \subseteq Int
  /\ bin \in 0 .. num_bins /\ call \in 0 .. num_calls
  /\ slots \subseteq Slots
  /\ Cardinality(slots) \in call .. call + 1
  /\ pc = "pick" => Cardinality(slots) = call
  /\ readable \in BOOLEAN /\ extreme \in BOOLEAN

\* Unless a random integer is the one whose absolute value overflows, the clock
\* shows a time of the calendar whenever a call is made, over any number of
\* bins and across midnight, the end of a month and of the year, and the
\* frequency is valid: create_tweak never refuses a tweak.  If one is, ABS leaves
\* a negative field, and nothing is ever printed.
ClockIsValid ==
  /\ ~extreme => pc # "format"
  /\ pc = "print" /\ ~extreme => Compliant
  /\ extreme => output = {}

\* The upper bits of a tweak, which generate_pairs compares first.  (It pairs
\* tweaks whose seconds, too, agree in their two low bits.)
High(line) == <<line.month, line.day, line.coarse_time \div MinutesPerBin>>

\* Every call leaves two lines of its own that differ in the word alone, so no
\* tweak is printed twice, and lines agree in the upper bits of their tweaks
\* iff they belong to one bin: only calls of a bin can make pairs.  (As long as
\* the bins do not go around the year; the tweak has no year.)
CallsAreSeparate ==
  /\ Cardinality({[l EXCEPT !.bin = 0] : l \in output}) = 2 * (bin * num_calls + call)
  /\ \A l \in output : [l EXCEPT !.word = 1 - l.word] \in output
  /\ \A l, k \in output : High(l) = High(k) <=> l.bin = k.bin

\* The number of a bin in the year.
DaysBefore[m \in 1 .. Len(Days) + 1] ==
  IF m = 1 THEN 0 ELSE DaysBefore[m - 1] + Days[m - 1]
BinOfYear == (DaysBefore[month] + day - 1) * BinsPerDay + coarse_time \div MinutesPerBin

\* A bin follows the one before it in the calendar, the first of January the
\* last of December.
BinsAreConsecutive ==
  [][bin' = bin + 1 /\ ~extreme =>
       BinOfYear' = (BinOfYear + 1) % (DaysBefore[Len(Days) + 1] * BinsPerDay)]_vars

\* If the file can be read and the bins have room for the calls, the program
\* ends, and in a defined way, unless the file has no callsign or a random
\* integer no absolute value.  With more calls, which the arguments allow, it
\* looks for a free slot for ever; a file that cannot be read, for ever for its end.
Finishes ==
  readable /\ num_calls <= Usable =>
    <>\/ pc \in {"done", "failed"}
      \/ pc = "undefined" /\ num_callsigns = 0
      \/ pc \in {"undefined", "format"} /\ extreme
=============================================================================
