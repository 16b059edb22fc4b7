----------------------------- MODULE MCTagEngine -----------------------------
(***************************************************************************)
(* Two tags for TLC: a is a register, d adds its own register to a and     *)
(* fails, as a formula may, when the sum is outside Value.                 *)
(***************************************************************************)
EXTENDS TagEngine

MCDeps     == [t \in Tag |-> IF t = "d" THEN {"a"} ELSE {}]
MCRegister == [t \in Tag |-> IF t = "d" THEN {1} ELSE {0, 1, 2}]
MCDeadband == [t \in Tag |-> IF t = "a" THEN 2 ELSE 0]
MCEval(t, r, inputs) ==
  IF r = Absent THEN Failed
  ELSE IF t = "a" THEN r
  ELSE IF inputs["a"] = Absent \/ r + inputs["a"] \notin Value THEN Failed
  ELSE r + inputs["a"]

\* One channel polls the tags in a transaction each.
MCLists == [c \in Channel |-> {{"a"}, {"d"}}]
=============================================================================
