---------------------------- MODULE MCProtoMaps -----------------------------
(* Two map fields: labels is a map<string, int32> of a proto2 message,     *)
(* whose entries may be None, and wide a map<string, double>.              *)
EXTENDS ProtoMaps, TLC

CONSTANTS labels, wide, name, other, number, int, float, text

MCSymmetry == Permutations(Msg) \cup Permutations(Dict)

MCKeyFits == [f \in MapField |-> {name, other} \cap Key]
MCValueFits == [f \in MapField |-> IF f = labels THEN {int} ELSE {int, float}]
MCMapType == [f \in MapField |-> f]
=============================================================================
