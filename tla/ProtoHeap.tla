----------------------------- MODULE ProtoHeap ------------------------------
(***************************************************************************)
(* Protobuf messages as Starlark sees them (go/protomodule): protoMessage  *)
(* with its field map, protoRepeated, a typed window on a starlark.List,   *)
(* and the bare lists that assignments turn into protoRepeated values.     *)
(*                                                                         *)
(* Every action is one operation of a Starlark program, run to its end: an *)
(* assignment, an attribute, a list method, proto.clear, or the freezing   *)
(* of a global when its module has been executed.  Several variables of    *)
(* the program may hold the same object, so every object that exists may   *)
(* be an operand.  A new message is empty, hence the same as a member of   *)
(* Msg that nothing refers to yet.                                         *)
(*                                                                         *)
(* A message that contains itself can be built.  Converting it             *)
(* (toProtoMessage) recurses without end and the process dies: such a call *)
(* is no step.                                                             *)
(***************************************************************************)
EXTENDS Naturals, SequencesExt

CONSTANTS
  Msg,         \* messages
  List,        \* starlark.List objects
  Scalar,      \* every other value; a boxed wrapper message counts as one
  None,        \* starlark.None
  Unset,       \* a field that is not in the field map
  Overflow,    \* maybeConvertToWrapper returns an error
  Field,       \* the fields of the message descriptor
  ListField,   \* those that are repeated
  Oneof,       \* those of its oneof
  Nullable,    \* fieldAllowsNone
  Fits,        \* for each field, the values scalarTypeCheck accepts
  Wrapped,     \* for each field, what maybeConvertToWrapper makes of a scalar
  MaxLen       \* bound on the length of a list

Object == Msg \cup List
Element == Scalar \cup Msg
Repeated == [desc : ListField, list : List]

ASSUME SortsAssumption ==
  /\ Msg \cap List = {} /\ Scalar \cap Object = {} /\ (Scalar \cup Object) \cap Repeated = {}
  /\ {Unset, None} \cap (Scalar \cup Object \cup Repeated) = {}
  /\ MaxLen \in Nat

ASSUME SchemaAssumption ==
  /\ ListField \subseteq Field
  /\ Oneof \subseteq Field \ ListField
  /\ Fits \in [Field -> SUBSET Element]
  /\ Wrapped \in [Field -> [Scalar -> Scalar \cup {Overflow}]]
  /\ Overflow \notin Element \cup Repeated

VARIABLES
  fields,    \* the field map of each message
  elems,     \* the elements of each list
  frozen,    \* the objects with the frozen flag set
  raw,       \* the lists that the program made, or got, as starlark.List
  reps,      \* the protoRepeated values made so far
  failed     \* the last operation returned an error

heap == <<fields, elems, frozen, raw, reps>>
vars == <<fields, elems, frozen, raw, reps, failed>>

TypeOK ==
  /\ fields \in [Msg -> [Field -> Element \cup Repeated \cup {Unset}]]
  /\ \A m \in Msg, f \in Field :
       fields[m][f] \in {Unset} \cup (IF f \in ListField THEN reps ELSE Element)
  /\ elems \in [List -> Seq(Element)]
  /\ frozen \subseteq Object
  /\ raw \subseteq List
  /\ reps \subseteq Repeated
  /\ failed \in BOOLEAN

Init ==
  /\ fields = [m \in Msg |-> [f \in Field |-> Unset]]
  /\ elems = [l \in List |-> <<>>]
  /\ frozen = {}
  /\ raw = {}
  /\ reps = {}
  /\ failed = FALSE

-----------------------------------------------------------------------------

(* The objects an object refers to. *)
MsgChildren(m) ==
  {c \in Msg : \E f \in Field \ ListField : fields[m][f] = c}
  \cup {l \in List : \E f \in ListField : fields[m][f] # Unset /\ fields[m][f].list = l}

Children(o) == IF o \in Msg THEN MsgChildren(o) ELSE ToSet(elems[o]) \cap Msg

(* A path without end starts in o: toProtoMessage does not return. *)
Endless(o) ==
  \E T \in SUBSET Object : o \in T /\ \A x \in T : Children(x) \cap T # {}

(* scalarTypeCheck of v returns: it converts the messages that fit. *)
Checkable(f, v) == v \in Msg \cap Fits[f] => ~Endless(v)

(* The same for the elements of s, up to the first that does not fit. *)
CheckableList(f, s) ==
  \A i \in DOMAIN s : (\A j \in 1..i : s[j] \in Fits[f]) => Checkable(f, s[i])

Used == raw \cup {r.list : r \in reps}

Refused == failed' = TRUE /\ UNCHANGED heap

(* Seeded fault: CheckMutable looks at no flag. *)
AlwaysMutable(o) == TRUE

Mutable(o) == o \notin frozen

-----------------------------------------------------------------------------
(* Bare lists.                                                             *)

(* A list literal, a comprehension, a slice or a sum of lists. *)
NewList(l) ==
  /\ l \notin Used
  /\ raw' = raw \cup {l}
  /\ elems' = [elems EXCEPT ![l] = <<>>]
  /\ failed' = FALSE
  /\ UNCHANGED <<fields, frozen, reps>>

(* Any method of starlark.List: it checks no type. *)
RawWrite(l, s) ==
  /\ l \in raw
  /\ \/ /\ Mutable(l)
        /\ elems' = [elems EXCEPT ![l] = s]
        /\ failed' = FALSE
        /\ UNCHANGED <<fields, frozen, raw, reps>>
     \/ ~Mutable(l) /\ Refused

-----------------------------------------------------------------------------
(* Fields.                                                                 *)

Converted(f, v) == IF v \in Scalar THEN Wrapped[f][v] ELSE v

(* valueFromStarlark accepts v for f. *)
Conforms(f, v) ==
  IF f \in ListField THEN v \in reps /\ ToSet(elems[v.list]) \subseteq Fits[f]
                     ELSE v \in Fits[f]

(* Seeded fault: the other members of the oneof stay. *)
PutOnly(m, f, v) == fields' = [fields EXCEPT ![m][f] = v]

(* The end of SetField: the oneof of f is cleared and f is set. *)
Put(m, f, v) ==
  fields' = [fields EXCEPT ![m] = [g \in Field |->
               IF g = f THEN v ELSE IF {f, g} \subseteq Oneof THEN Unset ELSE @[g]]]

(* m.f = None where None unsets. *)
SetNone(m, f) ==
  /\ Mutable(m)
  /\ f \in Nullable
  /\ fields' = [fields EXCEPT ![m][f] = Unset]
  /\ failed' = FALSE
  /\ UNCHANGED <<elems, frozen, raw, reps>>

(* The values that SetField does not convert to a protoRepeated first. *)
Plain(f, v) ==
  \/ v \in Element \cup reps
  \/ v = None /\ f \notin Nullable
  \/ v \in raw /\ f \notin ListField

(* m.f = v for such a value. *)
SetValue(m, f, v) ==
  /\ Mutable(m)
  /\ Plain(f, v)
  /\ LET w == Converted(f, v) IN
       /\ Conforms(f, w)
       /\ IF f \in ListField THEN CheckableList(f, elems[w.list]) ELSE Checkable(f, w)
       /\ Put(m, f, w)
  /\ failed' = FALSE
  /\ UNCHANGED <<elems, frozen, raw, reps>>

(* Seeded fault: the oneof is cleared before the value is checked. *)
ValueClears(m, f, v) ==
  /\ Mutable(m)
  /\ Plain(f, v)
  /\ ~Conforms(f, Converted(f, v))
  /\ fields' = [fields EXCEPT ![m] = [g \in Field |->
                  IF {f, g} \subseteq Oneof THEN Unset ELSE @[g]]]
  /\ failed' = TRUE
  /\ UNCHANGED <<elems, frozen, raw, reps>>

(* m.f = v where the value overflows its wrapper or has the wrong type. *)
ValueRejected(m, f, v) ==
  /\ Mutable(m)
  /\ Plain(f, v)
  /\ ~Conforms(f, Converted(f, v))
  /\ Refused

(* CheckMutable comes before everything that looks at the value. *)
FrozenRejected(m) == ~Mutable(m) /\ Refused

(* The elements of a list after SetField converted them in place, up to    *)
(* the first that overflows.                                               *)
Boxed(f, s) ==
  [i \in DOMAIN s |->
     IF \A j \in 1..i : Converted(f, s[j]) # Overflow THEN Converted(f, s[i]) ELSE s[i]]

(* SetIndex fails on a frozen list, and SetField ignores it. *)
AfterBoxing(f, l) == IF Mutable(l) THEN Boxed(f, elems[l]) ELSE elems[l]

(* m.f = l for a bare list: the list itself backs the field from now on. *)
SetList(m, f, l) ==
  /\ Mutable(m)
  /\ f \in ListField
  /\ l \in raw
  /\ CheckableList(f, elems[l])
  /\ elems' = [elems EXCEPT ![l] = AfterBoxing(f, l)]
  /\ UNCHANGED <<frozen, raw>>
  /\ \/ /\ ToSet(AfterBoxing(f, l)) \subseteq Fits[f]
        /\ Put(m, f, [desc |-> f, list |-> l])
        /\ reps' = reps \cup {[desc |-> f, list |-> l]}
        /\ failed' = FALSE
     \/ /\ ~(ToSet(AfterBoxing(f, l)) \subseteq Fits[f])
        /\ failed' = TRUE
        /\ UNCHANGED <<fields, reps>>

(* m.f of an unset list field: a new protoRepeated.  SetField's error is   *)
(* ignored, so a frozen message returns it all the same.                   *)
Attr(m, f, l) ==
  /\ f \in ListField
  /\ fields[m][f] = Unset
  /\ l \notin Used
  /\ elems' = [elems EXCEPT ![l] = <<>>]
  /\ reps' = reps \cup {[desc |-> f, list |-> l]}
  /\ IF Mutable(m) THEN Put(m, f, [desc |-> f, list |-> l]) ELSE UNCHANGED fields
  /\ failed' = FALSE
  /\ UNCHANGED <<frozen, raw>>

(* proto.clear(m): wantSingleProtoMessage converts the message first. *)
Clear(m) ==
  /\ ~Endless(m)
  /\ Mutable(m)
  /\ fields' = [fields EXCEPT ![m] = [f \in Field |-> Unset]]
  /\ failed' = FALSE
  /\ UNCHANGED <<elems, frozen, raw, reps>>

-----------------------------------------------------------------------------
(* protoRepeated.                                                          *)

(* A write of s to the list of r, once the values are checked. *)
Write(r, s) ==
  \/ /\ Mutable(r.list)
     /\ elems' = [elems EXCEPT ![r.list] = s]
     /\ failed' = FALSE
     /\ UNCHANGED <<fields, frozen, raw, reps>>
  \/ ~Mutable(r.list) /\ Refused

ListAppend(r, v) ==
  /\ Len(elems[r.list]) < MaxLen
  /\ \/ v \in Fits[r.desc] /\ Checkable(r.desc, v) /\ Write(r, Append(elems[r.list], v))
     \/ v \notin Fits[r.desc] /\ Refused

SetIndex(r, i, v) ==
  \/ /\ v \in Fits[r.desc]
     /\ Checkable(r.desc, v)
     /\ Write(r, [elems[r.list] EXCEPT ![i] = v])
  \/ v \notin Fits[r.desc] /\ Refused

(* Seeded fault: the elements are not checked one by one. *)
AllOf(f, s, n) == n = Len(s)

(* The number of elements of s that fit before one that does not. *)
FitPrefix(f, s, n) ==
  /\ \A i \in 1..n : s[i] \in Fits[f]
  /\ n < Len(s) => s[n + 1] \notin Fits[f]

(* The first append to a list fails if it is frozen, or is the argument of *)
(* extend itself and therefore being iterated over.                        *)
Blocked(r, k) == (k = r.list \/ ~Mutable(r.list)) /\ elems[k] # <<>>

(* r.extend(k): one append for each element, up to the first that fails.   *)
Extend(r, k) ==
  /\ CheckableList(r.desc, elems[k])
  /\ \/ Blocked(r, k) /\ Refused
     \/ /\ ~Blocked(r, k)
        /\ \E n \in 0..Len(elems[k]) :
             /\ FitPrefix(r.desc, elems[k], n)
             /\ Len(elems[r.list]) + n <= MaxLen
             /\ elems' = [elems EXCEPT ![r.list] = @ \o SubSeq(elems[k], 1, n)]
             /\ failed' = (n < Len(elems[k]))
        /\ UNCHANGED <<fields, frozen, raw, reps>>

ListClear(r) == Write(r, <<>>)

-----------------------------------------------------------------------------

(* Seeded fault: what the object refers to is not frozen with it. *)
FreezeOnly(o) == frozen \cup {o}

(* o.Freeze(): the objects on paths from o that pass no frozen object. *)
FrozenAfter(o) ==
  frozen \cup {x \in Object : \A T \in SUBSET Object :
    o \in T /\ (\A y \in T \ frozen : Children(y) \subseteq T) => x \in T}

(* The globals of a module are frozen when ExecFile returns. *)
Freeze(o) ==
  /\ frozen' = FrozenAfter(o)
  /\ failed' = FALSE
  /\ UNCHANGED <<fields, elems, raw, reps>>

(* Contents of a list that is written freely. *)
Contents == UNION {[1..n -> Element] : n \in 0..MaxLen}

MsgStep(m) ==
  \/ \E f \in Field : SetNone(m, f)
  \/ \E f \in Field, v \in Element \cup reps \cup raw \cup {None} :
       SetValue(m, f, v) \/ ValueRejected(m, f, v)
  \/ FrozenRejected(m)
  \/ \E f \in ListField, l \in List : SetList(m, f, l) \/ Attr(m, f, l)
  \/ Clear(m)

RepStep(r) ==
  \/ \E v \in Element : ListAppend(r, v)
  \/ \E i \in DOMAIN elems[r.list], v \in Element : SetIndex(r, i, v)
  \/ \E k \in Used : Extend(r, k)
  \/ ListClear(r)

Next ==
  \/ \E l \in List : NewList(l)
  \/ \E l \in List, s \in Contents : RawWrite(l, s)
  \/ \E m \in Msg : MsgStep(m)
  \/ \E r \in reps : RepStep(r)
  \/ \E o \in Msg \cup Used : Freeze(o)

Spec == Init /\ [][Next]_vars
-----------------------------------------------------------------------------

(* Whatever a frozen object refers to is frozen: the globals of a loaded   *)
(* module can be read by concurrent calls of Main and Test.Run.            *)
FrozenClosed == \A o \in frozen : Children(o) \subseteq frozen

(* No operation, successful or not, writes to a frozen object or to what   *)
(* such an object refers to: not the attribute access that would create a  *)
(* list, not the conversion of list elements in place, not a write through *)
(* an alias from before its holder was frozen.                             *)
Visible == frozen \cup UNION {Children(o) : o \in frozen}

FrozenImmutable ==
  [][/\ frozen \subseteq frozen'
     /\ \A m \in Visible \cap Msg : fields'[m] = fields[m]
     /\ \A l \in Visible \cap List : elems'[l] = elems[l]]_vars

(* At most one member of the oneof is set, so the order in which           *)
(* toProtoMessage ranges over the field map does not show.                 *)
OneofExclusive ==
  \A m \in Msg, f, g \in Oneof :
    fields[m][f] # Unset /\ fields[m][g] # Unset => f = g

(* A value that toProtoMessage would drop got into a message only through  *)
(* a list that the program holds as a bare list too, or through a list     *)
(* that is typed for another field, which takes more values.               *)
ConformUnlessBypassed ==
  \A m \in Msg, f \in Field :
    LET v == fields[m][f] IN
      v # Unset =>
        IF f \in ListField
          THEN v.list \notin raw /\ Fits[v.desc] \subseteq Fits[f]
                 => ToSet(elems[v.list]) \subseteq Fits[f]
          ELSE v \in Fits[f]

(* An operation that returns an error leaves every field map alone.  What  *)
(* it did to lists is an extension, or a conversion of elements in place.  *)
Contained ==
  /\ fields' = fields
  /\ reps' = reps
  /\ \A l \in List :
       \/ IsPrefix(elems[l], elems'[l])
       \/ l \in raw /\ Len(elems'[l]) = Len(elems[l])

FailureContained == [][failed' => Contained]_vars
=============================================================================
