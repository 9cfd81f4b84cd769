-------------------------------- MODULE Inputs --------------------------------
(***************************************************************************)
(* One call of a pure part of the system: which one, and its arguments.      *)
(***************************************************************************)
EXTENDS Integers, Sequences

CONSTANT Absent         \* what is not given, or not there

ASSUME AbsentAssumption == Absent \notin Int \cup (Int \X Int)

VARIABLE input          \* <<family, arguments...>>

Is(family) == input[1] = family
=============================================================================
