--------------------------------- MODULE MCCoaMain ---------------------------------
(* The specification of CoaMain as TLC checks it.  Bounds: after a command    *)
(* line without options, the file is any, and p_success is reached where     *)
(* 0.99 is, the low parts of tweaks differ in bit 30 alone, and the program  *)
(* with CUDA reads no more than ShortFile lines; after others, the file is   *)
(* one of a few, and all its lines parse.                                    *)
EXTENDS CoaMain

CONSTANT ShortFile

\* No device, one that may not exist, too many, the same twice, not a number
\* of a device.
Lists == {<<>>, <<1>>, <<1, 0>>, <<1, 0, 1>>, <<0, 0>>, <<0, -1>>, <<2>>}

\* A threshold that fits, one that does not, a negative number, and no number.
Taus == {1, 5, -1, 0}

Found == {<<>>, <<1, 2>>, <<2, 1, 2>>}

\* Files by their tweaks.  In binary, a tweak has one bit of the high part, one
\* of the byte and two of the low part, of which the upper one is bit 30.  The
\* files have tuples for both phases, for the first only, too few for the
\* second, and no pair.
File(tweaks) == [n \in 1 .. Len(tweaks) |-> [tweak |-> tweaks[n], ct |-> 0]]
Files == {File(<<6, 5, 2, 4>>), File(<<0, 12, 8, 4>>), File(<<2, 0, 6>>), File(<<14, 0, 2>>)}

InBounds ==
  IF given = 0
  THEN /\ \A t \in ToSet(tuples) : Low(t.tweak) \in {0, Bit30}
       /\ reaches # <<>> => reaches[1] = reaches[3]
       /\ cuda => lines <= ShortFile
  ELSE pc = "read" => lines = Len(tuples) /\ \E f \in Files : IsPrefix(tuples, f)

Finished == stage = "exit" /\ UNCHANGED <<vars, mainVars>>

MCNext == (MainNext /\ InBounds') \/ Finished

MCSpec == MainInit /\ [][MCNext]_<<vars, mainVars>>
=============================================================================
