---------------------------- MODULE MCProtoMerge ----------------------------
(* Instances of ProtoMerge.                                                *)
EXTENDS ProtoMerge

CONSTANTS child, flag, num, text, names, wide, one, half

MCSymmetry == Permutations(Msg) \cup Permutations(List)

(* Msg child; double num and text; repeated int32 names; repeated double   *)
(* wide.                                                                   *)
MCFits ==
  [f \in Field |-> CASE f = child -> Msg [] f \in {flag, names} -> {one} [] OTHER -> Scalar]
NoWrappers == [f \in Field |-> [v \in Scalar |-> v]]

(* 1 is an int, 0.5 a float; or two ints. *)
MixedType == [v \in Scalar |-> IF v = half THEN "float" ELSE "int"]
SameTypes == [v \in Scalar |-> "int"]
ListType == [f \in ListField |-> IF f = names THEN "int32" ELSE "double"]

NoDefault == [f \in Field |-> Unset]
SomeDefault == [f \in Field |-> IF f \in {flag, num, text} THEN one ELSE Unset]
Alphabetic == SelectSeq(<<child, flag, names, num, text, wide>>, LAMBDA f : f \in Field)
=============================================================================
