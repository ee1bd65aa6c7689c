---------------------------- MODULE MCProtoBuild -----------------------------
(* A schema for ProtoBuild, whose conversions are those of Conversions: a  *)
(* repeated Int32Value, repeated bytes and repeated messages, an enum      *)
(* without presence, an int32 and an Int32Value in a oneof, and a message. *)
EXTENDS ProtoBuild, Conversions

CONSTANTS wrappers, blobs, children, level, num, wrapped, child

MCSymmetry == Permutations(Msg) \cup Permutations(List)

FieldKind ==
  [f \in Field |-> CASE f \in {wrappers, wrapped} -> "Int32Value"
                     [] f = num -> "int32"
                     [] f = level -> "Level"
                     [] f = blobs -> "bytes"
                     [] f \in {children, child} -> "message"]

(* 0, an int that is no int32, an Int32Value of 0, a string, and values of *)
(* two enums: a zero, and a number that the other does not have.           *)
MCScalar ==
  {Val("int", 0), Val("int", Half32), Val("Int32Value", 0), Val("string", 1),
   [type |-> "Level", of |-> "LOW", v |-> 0], [type |-> "Color", of |-> "BLUE", v |-> 2]}
MCZero == {Val("int32", 0), Val("Level", 0)}

MCFits ==
  [f \in Field |-> IF FieldKind[f] = "message" THEN Msg
                   ELSE {x \in Scalar : FromStarlark(FieldKind[f], x) # Error}]
MCWrapped == [f \in Field |-> [x \in Scalar |-> Box(FieldKind[f], x)]]
MCProto == [f \in Field |-> [x \in Scalar |-> FromStarlark(FieldKind[f], x)]]
MCRoundTrip ==
  [f \in Field |-> [x \in Scalar |->
     LET made == ToStarlark(FieldKind[f], MCProto[f][x]) IN
       IF MCProto[f][x] = Error \/ made = {} THEN Error ELSE CHOOSE y \in made : TRUE]]

MCHalves == -9..9

(* Two names of one number, and an enum without the number of another. *)
MCEnum ==
  [e \in {"Level", "Color"} |-> IF e = "Level" THEN [LOW |-> 0, NONE |-> 0, HIGH |-> 1]
                                               ELSE [RED |-> 0, BLUE |-> 2]]

(* The program starts with a list of one element: a scalar or a message,   *)
(* in which an int32 may be set, or the enum to a number it has no name    *)
(* for.  Conversions share no variable with the heap: they have the state  *)
(* without a list to themselves.  An assignment does not depend on those   *)
(* before it, so one is enough.                                            *)
MCBuildInit ==
  /\ BuildInit /\ ConvInit
  /\ \A l \in raw : Len(elems[l]) = 1 /\ \E f \in ListField : elems[l][1] \in Fits[f]
  /\ \A m \in Msg, f \in Field :
       fields[m][f] # Unset => /\ f = num \/ RoundTrip[f][fields[m][f]] = Overflow
                               /\ \E l \in raw : elems[l] = <<m>>
MCBuildNext ==
  \/ raw # {} /\ BuildNext /\ UNCHANGED convVars
  \/ raw = {} /\ ((kind = "" /\ Assign) \/ ReadBack) /\ UNCHANGED buildVars
MCBuildSpec == MCBuildInit /\ [][MCBuildNext]_<<buildVars, convVars>>
=============================================================================
