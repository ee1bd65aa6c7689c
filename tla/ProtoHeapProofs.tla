-------------------------- MODULE ProtoHeapProofs ---------------------------
(***************************************************************************)
(* Proofs about ProtoHeap, for any schema and any number of messages and   *)
(* lists.  The inductive invariant adds to the properties that only        *)
(* objects which exist are frozen, that a list nobody holds as a bare list *)
(* has one protoRepeated, and that its elements fit that one's field.      *)
(***************************************************************************)
EXTENDS ProtoHeap, SequenceTheorems, TLAPS

(* The field maps: a singular field holds a value that fits. *)
SingularFit ==
  \A m \in Msg, f \in Field \ ListField : fields[m][f] # Unset => fields[m][f] \in Fits[f]

FieldsOK ==
  /\ fields \in [Msg -> [Field -> Element \cup Repeated \cup {Unset}]]
  /\ \A m \in Msg, f \in Field :
       fields[m][f] \in {Unset} \cup (IF f \in ListField THEN reps ELSE Element)
  /\ OneofExclusive
  /\ SingularFit

(* The lists: one that is not bare has one window, and fits its type. *)
ListsTyped ==
  \A r \in reps : r.list \notin raw => ToSet(elems[r.list]) \subseteq Fits[r.desc]

OneWindow ==
  \A r, s \in reps : r.list = s.list /\ r.list \notin raw => r = s

ListsOK ==
  /\ elems \in [List -> Seq(Element)]
  /\ raw \subseteq List
  /\ reps \subseteq Repeated
  /\ ListsTyped
  /\ OneWindow

(* Only objects that exist are frozen. *)
FrozenExist == frozen \subseteq Msg \cup Used

IInv ==
  /\ FieldsOK
  /\ ListsOK
  /\ FrozenExist
  /\ FrozenClosed
  /\ failed \in BOOLEAN

(* What is frozen stays as it is. *)
Untouched ==
  /\ frozen \subseteq frozen'
  /\ \A m \in frozen \cap Msg : fields'[m] = fields[m]
  /\ \A l \in frozen \cap List : elems'[l] = elems[l]

USE DEF Object, Element, Repeated

(* What the assumptions say of the sorts of values. *)
LEMMA SortFacts ==
  /\ Msg \cap List = {}
  /\ \A v \in Element : v # Unset /\ v \notin Repeated /\ v # Overflow
  /\ Unset \notin Repeated
  /\ ListField \subseteq Field
  /\ Oneof \cap ListField = {}
  /\ Oneof \subseteq Field
  /\ \A f \in Field : Fits[f] \subseteq Element
BY SortsAssumption, SchemaAssumption

(* A converted element is an element, unless it overflows. *)
LEMMA ConvertedType ==
  ASSUME NEW f \in Field, NEW v \in Element
  PROVE  Converted(f, v) \in Element \cup {Overflow}
BY SchemaAssumption DEF Converted

-----------------------------------------------------------------------------
(* Steps on the field maps.                                                *)

(* The end of SetField keeps the field maps in order. *)
LEMMA PutKeeps ==
  ASSUME FieldsOK, NEW m \in Msg, NEW f \in Field, NEW v \in Element \cup Repeated,
         f \in ListField => v \in reps',
         f \notin ListField => v \in Fits[f],
         reps \subseteq reps', Put(m, f, v)
  PROVE  FieldsOK' /\ \A x \in Msg \ {m} : fields'[x] = fields[x]
<1> DEFINE put == [g \in Field |->
             IF g = f THEN v ELSE IF {f, g} \subseteq Oneof THEN Unset ELSE fields[m][g]]
<1>1. /\ fields' = [fields EXCEPT ![m] = put]
      /\ fields \in [Msg -> [Field -> Element \cup Repeated \cup {Unset}]]
  BY DEF Put, FieldsOK
<1>2. put \in [Field -> Element \cup Repeated \cup {Unset}]
  BY <1>1
<1>3. /\ fields' \in [Msg -> [Field -> Element \cup Repeated \cup {Unset}]]
      /\ fields'[m] = put
      /\ \A x \in Msg \ {m} : fields'[x] = fields[x]
  BY <1>1, <1>2
<1>4. \A g \in Field : put[g] = IF g = f THEN v ELSE
                          IF {f, g} \subseteq Oneof THEN Unset ELSE fields[m][g]
  OBVIOUS
<1> HIDE DEF put
<1>5. \A x \in Msg, g \in Field :
        fields'[x][g] \in {Unset} \cup (IF g \in ListField THEN reps' ELSE Element)
  <2> SUFFICES ASSUME NEW x \in Msg, NEW g \in Field
               PROVE  fields'[x][g] \in {Unset} \cup (IF g \in ListField THEN reps' ELSE Element)
    OBVIOUS
  <2>1. fields[x][g] \in {Unset} \cup (IF g \in ListField THEN reps ELSE Element)
    BY DEF FieldsOK
  <2>2. fields'[x][g] \in {fields[x][g], Unset} \/ (g = f /\ fields'[x][g] = v)
    BY <1>3, <1>4
  <2> QED BY <2>1, <2>2, SortFacts
<1>6. OneofExclusive'
  <2> SUFFICES ASSUME NEW x \in Msg, NEW g \in Oneof, NEW h \in Oneof,
                      fields'[x][g] # Unset, fields'[x][h] # Unset
               PROVE  g = h
    BY DEF OneofExclusive
  <2>1. g \in Field /\ h \in Field
    BY SortFacts
  <2>2. CASE x # m
    BY <1>3, <2>2 DEF FieldsOK, OneofExclusive
  <2>3. CASE x = m /\ f \in Oneof
    BY <1>3, <1>4, <2>1, <2>3
  <2>4. CASE x = m /\ f \notin Oneof
    BY <1>3, <1>4, <2>1, <2>4 DEF FieldsOK, OneofExclusive
  <2> QED BY <2>2, <2>3, <2>4
<1>7. SingularFit'
  <2> SUFFICES ASSUME NEW x \in Msg, NEW g \in Field \ ListField, fields'[x][g] # Unset
               PROVE  fields'[x][g] \in Fits[g]
    BY DEF SingularFit
  <2>1. fields'[x][g] = fields[x][g] \/ (g = f /\ fields'[x][g] = v)
    BY <1>3, <1>4
  <2> QED BY <2>1 DEF FieldsOK, SingularFit
<1> QED BY <1>3, <1>5, <1>6, <1>7 DEF FieldsOK

(* Fields of a message are unset. *)
LEMMA UnsetKeeps ==
  ASSUME FieldsOK, NEW m \in Msg, NEW h \in [Field -> Element \cup Repeated \cup {Unset}],
         \A g \in Field : h[g] \in {fields[m][g], Unset},
         fields' = [fields EXCEPT ![m] = h], reps \subseteq reps'
  PROVE  FieldsOK' /\ \A x \in Msg \ {m} : fields'[x] = fields[x]
<1>1. fields \in [Msg -> [Field -> Element \cup Repeated \cup {Unset}]]
  BY DEF FieldsOK
<1>2. /\ fields' \in [Msg -> [Field -> Element \cup Repeated \cup {Unset}]]
      /\ fields'[m] = h
      /\ \A x \in Msg \ {m} : fields'[x] = fields[x]
  BY <1>1
<1>3. \A x \in Msg, g \in Field : fields'[x][g] \in {fields[x][g], Unset}
  BY <1>2
<1>4. \A x \in Msg, g \in Field :
        fields'[x][g] \in {Unset} \cup (IF g \in ListField THEN reps' ELSE Element)
  BY <1>3 DEF FieldsOK
<1>5. OneofExclusive' /\ SingularFit'
  BY <1>3, SortFacts DEF FieldsOK, OneofExclusive, SingularFit
<1> QED BY <1>2, <1>4, <1>5 DEF FieldsOK

(* So does a step that touches no field map. *)
LEMMA SameFieldsKeeps ==
  ASSUME FieldsOK, UNCHANGED fields, reps \subseteq reps'
  PROVE  FieldsOK'
<1>1. fields' \in [Msg -> [Field -> Element \cup Repeated \cup {Unset}]]
  BY DEF FieldsOK
<1>2. \A x \in Msg, g \in Field :
        fields'[x][g] \in {Unset} \cup (IF g \in ListField THEN reps' ELSE Element)
  BY DEF FieldsOK
<1>3. OneofExclusive' /\ SingularFit'
  BY DEF FieldsOK, OneofExclusive, SingularFit
<1> QED BY <1>1, <1>2, <1>3 DEF FieldsOK

-----------------------------------------------------------------------------
(* Steps on the lists.                                                     *)

(* A sequence of values that fit is a set of values that fit. *)
LEMMA ToSetType ==
  ASSUME NEW s \in Seq(Element), NEW S, \A i \in 1..Len(s) : s[i] \in S
  PROVE  ToSet(s) \subseteq S
BY DEF ToSet

(* A step that touches no list keeps the lists in order. *)
LEMMA SameListsKeeps ==
  ASSUME ListsOK, UNCHANGED <<elems, raw, reps>>
  PROVE  ListsOK'
BY DEF ListsOK, ListsTyped, OneWindow

(* A write to a list that is bare, or of values that fit its window; a new *)
(* window, if any, is on a bare list.                                      *)
LEMMA WriteKeeps ==
  ASSUME ListsOK, NEW l \in List, NEW s \in Seq(Element), NEW W,
         elems' = [elems EXCEPT ![l] = s], raw' = raw, reps' = reps \cup W,
         W \subseteq Repeated, W # {} => l \in raw, \A w \in W : w.list = l,
         \A r \in reps : r.list = l => l \in raw \/ ToSet(s) \subseteq Fits[r.desc]
  PROVE  ListsOK'
<1>1. elems \in [List -> Seq(Element)] /\ reps \subseteq Repeated /\ raw \subseteq List
  BY DEF ListsOK
<1>2. /\ elems' \in [List -> Seq(Element)] /\ elems'[l] = s
      /\ \A k \in List \ {l} : elems'[k] = elems[k]
  BY <1>1
<1>3. \A r \in reps' : r.list \in List /\ (r \in reps \/ r.list \in raw)
  BY <1>1
<1>4. ListsTyped'
  <2> SUFFICES ASSUME NEW r \in reps', r.list \notin raw
               PROVE  ToSet(elems'[r.list]) \subseteq Fits[r.desc]
    BY DEF ListsTyped
  <2>1. r \in reps /\ r.list \in List
    BY <1>3
  <2>2. CASE r.list = l
    BY <1>2, <2>1, <2>2
  <2>3. CASE r.list # l
    BY <1>2, <2>1, <2>3 DEF ListsOK, ListsTyped
  <2> QED BY <2>2, <2>3
<1>5. OneWindow'
  BY <1>3 DEF ListsOK, OneWindow
<1> QED BY <1>1, <1>2, <1>4, <1>5 DEF ListsOK

(* A new list, bare or behind a new window. *)
LEMMA FreshKeeps ==
  ASSUME ListsOK, NEW l \in List, l \notin Used,
         elems' = [elems EXCEPT ![l] = <<>>],
         \/ raw' = raw \cup {l} /\ reps' = reps
         \/ \E f \in ListField : raw' = raw /\ reps' = reps \cup {[desc |-> f, list |-> l]}
  PROVE  ListsOK'
<1>1. elems \in [List -> Seq(Element)] /\ reps \subseteq Repeated /\ raw \subseteq List
  BY DEF ListsOK
<1>2. /\ elems' \in [List -> Seq(Element)] /\ elems'[l] = <<>>
      /\ \A k \in List \ {l} : elems'[k] = elems[k]
  BY <1>1
<1>3. ToSet(elems'[l]) = {}
  BY <1>2 DEF ToSet
<1>4. \A r \in reps : r.list \in List \ {l}
  BY <1>1 DEF Used
<1>5. CASE raw' = raw \cup {l} /\ reps' = reps
  <2>1. ListsTyped' /\ OneWindow'
    BY <1>2, <1>4, <1>5 DEF ListsOK, ListsTyped, OneWindow
  <2> QED BY <1>1, <1>2, <1>5, <2>1 DEF ListsOK
<1>6. ASSUME NEW f \in ListField, raw' = raw, reps' = reps \cup {[desc |-> f, list |-> l]}
      PROVE  ListsOK'
  <2>1. ListsTyped'
    <3> SUFFICES ASSUME NEW r \in reps', r.list \notin raw
                 PROVE  ToSet(elems'[r.list]) \subseteq Fits[r.desc]
      BY <1>6 DEF ListsTyped
    <3>1. CASE r \in reps
      BY <1>2, <1>4, <1>6, <3>1 DEF ListsOK, ListsTyped
    <3>2. CASE r = [desc |-> f, list |-> l]
      BY <1>3, <3>2
    <3> QED BY <1>6, <3>1, <3>2
  <2>2. OneWindow'
    BY <1>4, <1>6 DEF ListsOK, OneWindow
  <2>3. reps' \subseteq Repeated
    BY <1>1, <1>6
  <2> QED BY <1>1, <1>2, <1>6, <2>1, <2>2, <2>3 DEF ListsOK
<1> QED BY <1>5, <1>6

(* The conversions of SetField give elements, and as many of them. *)
LEMMA BoxingType ==
  ASSUME ListsOK, NEW f \in Field, NEW l \in List
  PROVE  /\ AfterBoxing(f, l) \in Seq(Element)
         /\ Len(AfterBoxing(f, l)) = Len(elems[l])
<1>1. elems[l] \in Seq(Element)
  BY DEF ListsOK
<1> DEFINE s == elems[l]
<1>2. s \in Seq(Element) /\ DOMAIN s = 1..Len(s) /\ Len(s) \in Nat
  BY <1>1
<1> HIDE DEF s
<1>3. ASSUME NEW i \in 1..Len(s)
      PROVE  (IF \A j \in 1..i : Converted(f, s[j]) # Overflow
                THEN Converted(f, s[i]) ELSE s[i]) \in Element
  <2>1. i \in 1..i /\ s[i] \in Element
    BY <1>2
  <2> QED BY <2>1, ConvertedType
<1>4. Boxed(f, s) \in [1..Len(s) -> Element]
  BY <1>2, <1>3 DEF Boxed
<1>5. Boxed(f, s) \in Seq(Element) /\ Len(Boxed(f, s)) = Len(s)
  BY <1>2, <1>4
<1> QED BY <1>1, <1>5 DEF AfterBoxing, s

-----------------------------------------------------------------------------
(* Freezing.                                                               *)

(* A step that writes to no frozen object and freezes none. *)
LEMMA ClosedKept ==
  ASSUME FrozenExist, FrozenClosed, ListsOK, Untouched, UNCHANGED frozen
  PROVE  FrozenClosed'
<1> SUFFICES ASSUME NEW o \in frozen
             PROVE  Children(o)' \subseteq frozen
  BY DEF FrozenClosed
<1>1. Children(o) \subseteq frozen
  BY DEF FrozenClosed
<1>2. o \in Msg \/ (o \in List /\ o \notin Msg)
  BY SortFacts DEF FrozenExist, Used, ListsOK
<1>3. CASE o \in Msg
  <2>1. fields'[o] = fields[o]
    BY <1>3 DEF Untouched
  <2> QED BY <1>1, <1>3, <2>1 DEF Children, MsgChildren
<1>4. CASE o \in List /\ o \notin Msg
  <2>1. elems'[o] = elems[o]
    BY <1>4 DEF Untouched
  <2> QED BY <1>1, <1>4, <2>1 DEF Children
<1> QED BY <1>2, <1>3, <1>4

(* What an existing object refers to exists. *)
LEMMA ChildrenExist ==
  ASSUME FieldsOK, ListsOK, NEW o \in Msg \cup Used
  PROVE  Children(o) \subseteq Msg \cup Used
<1>1. CASE o \in Msg
  <2>1. ASSUME NEW l \in List, NEW f \in ListField,
               fields[o][f] # Unset, fields[o][f].list = l
        PROVE  l \in Used
    <3>1. fields[o][f] \in reps
      BY <1>1, <2>1, SortFacts DEF FieldsOK
    <3> QED BY <2>1, <3>1 DEF Used
  <2> QED BY <1>1, <2>1 DEF Children, MsgChildren
<1>2. CASE o \notin Msg
  BY <1>2 DEF Children
<1> QED BY <1>1, <1>2

(* After o.Freeze() what is frozen exists and is closed. *)
LEMMA FreezeKeeps ==
  ASSUME IInv, NEW o \in Msg \cup Used, Freeze(o)
  PROVE  FrozenExist' /\ FrozenClosed' /\ Untouched
<1>1. /\ frozen' = FrozenAfter(o)
      /\ fields' = fields /\ elems' = elems /\ raw' = raw /\ reps' = reps
  BY DEF Freeze
<1>2. Msg \cup Used \subseteq Object
  BY DEF IInv, ListsOK, Used
<1>3. frozen' \subseteq Msg \cup Used
  <2>1. \A y \in (Msg \cup Used) \ frozen : Children(y) \subseteq Msg \cup Used
    BY ChildrenExist DEF IInv
  <2>2. \A x \in frozen' : x \in frozen \/ x \in Msg \cup Used
    BY <1>1, <1>2, <2>1 DEF FrozenAfter
  <2> QED BY <2>2 DEF IInv, FrozenExist
<1>4. FrozenClosed'
  <2> SUFFICES ASSUME NEW x \in frozen', NEW c \in Children(x)
               PROVE  c \in frozen'
    <3>1. \A x \in frozen' : Children(x)' = Children(x)
      BY <1>1 DEF Children, MsgChildren
    <3> QED BY <3>1 DEF FrozenClosed
  <2>1. CASE x \in frozen
    BY <1>1, <2>1 DEF IInv, FrozenClosed, FrozenAfter
  <2>2. CASE x \notin frozen
    <3>1. c \in Object
      BY <1>2, <1>3, ChildrenExist DEF IInv
    <3>2. ASSUME NEW T \in SUBSET Object, o \in T,
                 \A y \in T \ frozen : Children(y) \subseteq T
          PROVE  c \in T
      <4>1. x \in T
        BY <1>1, <2>2, <3>2 DEF FrozenAfter
      <4> QED BY <2>2, <3>2, <4>1
    <3> QED BY <1>1, <3>1, <3>2 DEF FrozenAfter
  <2> QED BY <2>1, <2>2
<1>5. frozen \subseteq frozen'
  BY <1>1 DEF FrozenAfter
<1>6. FrozenExist'
  BY <1>1, <1>3 DEF FrozenExist, Used
<1> QED BY <1>1, <1>4, <1>5, <1>6 DEF Untouched

-----------------------------------------------------------------------------
(* The steps of Next.  Those that set failed are made precise by Contained.*)

Good ==
  /\ FieldsOK' /\ ListsOK'
  /\ raw' = raw /\ reps \subseteq reps'
  /\ Untouched
  /\ (failed' => Contained)

(* A list extends itself. *)
LEMMA PrefixSelf ==
  ASSUME NEW s \in Seq(Element)
  PROVE  IsPrefix(s, s)
BY DEF IsPrefix

(* A refusal, a stutter, and what keeps the heap in general. *)
LEMMA SameHeap ==
  ASSUME IInv, UNCHANGED heap
  PROVE  Good /\ UNCHANGED frozen
<1>1. FieldsOK' /\ ListsOK'
  BY SameFieldsKeeps, SameListsKeeps DEF IInv, heap
<1>2. Untouched
  BY DEF Untouched, heap
<1>3. Contained
  BY PrefixSelf DEF Contained, heap, IInv, ListsOK
<1> QED BY <1>1, <1>2, <1>3 DEF Good, heap

(* An operation that succeeds and changes the field map of m only. *)
LEMMA FieldStep ==
  ASSUME IInv, NEW m \in Msg, Mutable(m), FieldsOK', \A x \in Msg \ {m} : fields'[x] = fields[x],
         UNCHANGED <<elems, frozen, raw, reps>>, failed' = FALSE
  PROVE  Good
<1>1. ListsOK'
  BY SameListsKeeps DEF IInv
<1>2. Untouched
  BY SortFacts DEF Untouched, Mutable, IInv, ListsOK
<1> QED BY <1>1, <1>2 DEF Good

(* The operations on a message are good steps. *)
LEMMA MsgStepGood ==
  ASSUME IInv, NEW m \in Msg, MsgStep(m)
  PROVE  Good /\ UNCHANGED frozen
<1>1. ASSUME NEW f \in Field, SetNone(m, f)
      PROVE  Good /\ UNCHANGED frozen
  <2> DEFINE h == [fields[m] EXCEPT ![f] = Unset]
  <2>1. fields \in [Msg -> [Field -> Element \cup Repeated \cup {Unset}]]
    BY DEF IInv, FieldsOK
  <2>2. /\ h \in [Field -> Element \cup Repeated \cup {Unset}]
        /\ \A g \in Field : h[g] \in {fields[m][g], Unset}
    BY <2>1
  <2>3. fields' = [fields EXCEPT ![m] = h]
    BY <1>1 DEF SetNone
  <2> HIDE DEF h
  <2>4. FieldsOK' /\ \A x \in Msg \ {m} : fields'[x] = fields[x]
    BY <1>1, <2>2, <2>3, UnsetKeeps DEF SetNone, IInv
  <2> QED BY <1>1, <2>4, FieldStep DEF SetNone
<1>2. ASSUME Clear(m)
      PROVE  Good /\ UNCHANGED frozen
  <2> DEFINE h == [f \in Field |-> Unset]
  <2>1. /\ h \in [Field -> Element \cup Repeated \cup {Unset}]
        /\ \A g \in Field : h[g] \in {fields[m][g], Unset}
        /\ fields' = [fields EXCEPT ![m] = h]
    BY <1>2 DEF Clear
  <2> HIDE DEF h
  <2>2. FieldsOK' /\ \A x \in Msg \ {m} : fields'[x] = fields[x]
    BY <1>2, <2>1, UnsetKeeps DEF Clear, IInv
  <2> QED BY <1>2, <2>2, FieldStep DEF Clear
<1>3. ASSUME NEW f \in Field, NEW v \in Element \cup reps \cup raw \cup {None}, SetValue(m, f, v)
      PROVE  Good /\ UNCHANGED frozen
  <2> DEFINE w == Converted(f, v)
  <2>1. Conforms(f, w) /\ Put(m, f, w)
    BY <1>3 DEF SetValue
  <2> HIDE DEF w
  <2>2. /\ w \in Element \cup Repeated
        /\ f \in ListField => w \in reps
        /\ f \notin ListField => w \in Fits[f]
    BY <2>1, SortFacts DEF Conforms, IInv, ListsOK
  <2>3. reps' = reps
    BY <1>3 DEF SetValue
  <2>4. FieldsOK' /\ \A x \in Msg \ {m} : fields'[x] = fields[x]
    BY <2>1, <2>2, <2>3, PutKeeps DEF IInv
  <2> QED BY <1>3, <2>4, FieldStep DEF SetValue
<1>4. ASSUME NEW f \in Field, NEW v, ValueRejected(m, f, v)
      PROVE  Good /\ UNCHANGED frozen
  BY <1>4, SameHeap DEF ValueRejected, Refused
<1>5. ASSUME FrozenRejected(m)
      PROVE  Good /\ UNCHANGED frozen
  BY <1>5, SameHeap DEF FrozenRejected, Refused
<1>6. ASSUME NEW f \in ListField, NEW l \in List, SetList(m, f, l)
      PROVE  Good /\ UNCHANGED frozen
  <2> DEFINE s == AfterBoxing(f, l)  rep == [desc |-> f, list |-> l]
  <2>1. /\ s \in Seq(Element) /\ Len(s) = Len(elems[l]) /\ f \in Field
        /\ Mutable(l) \/ s = elems[l]
    BY BoxingType, SortFacts DEF IInv, AfterBoxing
  <2>2. /\ elems' = [elems EXCEPT ![l] = s] /\ l \in raw
        /\ Mutable(m) /\ raw' = raw /\ frozen' = frozen
    BY <1>6 DEF SetList
  <2>3. \/ Put(m, f, rep) /\ reps' = reps \cup {rep} /\ failed' = FALSE
        \/ fields' = fields /\ reps' = reps /\ failed' = TRUE
    BY <1>6 DEF SetList
  <2> HIDE DEF s
  <2>4. elems \in [List -> Seq(Element)]
    BY DEF IInv, ListsOK
  <2>5. /\ elems'[l] = s
        /\ \A k \in List \ {l} : elems'[k] = elems[k]
    BY <2>2, <2>4
  <2>6. rep \in Repeated /\ rep.list = l
    OBVIOUS
  <2> HIDE DEF rep
  <2>7. FieldsOK' /\ \A x \in Msg \ {m} : fields'[x] = fields[x]
    <3>1. CASE Put(m, f, rep) /\ reps' = reps \cup {rep}
      BY <2>1, <2>6, <3>1, PutKeeps DEF IInv
    <3>2. CASE fields' = fields /\ reps' = reps
      BY <3>2, SameFieldsKeeps DEF IInv
    <3> QED BY <2>3, <3>1, <3>2
  <2>8. ListsOK'
    <3>1. PICK W \in {{}, {rep}} : reps' = reps \cup W
      BY <2>3
    <3>2. W \subseteq Repeated /\ \A w \in W : w.list = l
      BY <2>6
    <3>3. PICK t \in Seq(Element) : t = s
      BY <2>1
    <3>4. ListsOK /\ elems' = [elems EXCEPT ![l] = t] /\ l \in raw /\ raw' = raw
      BY <2>2, <3>3 DEF IInv
    <3> QED BY <3>1, <3>2, <3>4, WriteKeeps
  <2>9. Untouched
    BY <2>1, <2>2, <2>5, <2>7, SortFacts DEF Untouched, Mutable
  <2>10. failed' => Contained
    BY <2>1, <2>2, <2>3, <2>4, <2>5, PrefixSelf DEF Contained
  <2>11. reps \subseteq reps'
    BY <2>3
  <2> QED BY <2>2, <2>7, <2>8, <2>9, <2>10, <2>11 DEF Good
<1>7. ASSUME NEW f \in ListField, NEW l \in List, Attr(m, f, l)
      PROVE  Good /\ UNCHANGED frozen
  <2> DEFINE rep == [desc |-> f, list |-> l]
  <2>1. /\ elems' = [elems EXCEPT ![l] = <<>>] /\ l \notin Used /\ failed' = FALSE
        /\ raw' = raw /\ frozen' = frozen /\ reps' = reps \cup {rep}
        /\ (Mutable(m) /\ Put(m, f, rep)) \/ fields' = fields
    BY <1>7 DEF Attr
  <2>2. ListsOK'
    BY <2>1, FreshKeeps DEF IInv
  <2>3. rep \in Repeated /\ f \in Field
    BY SortFacts
  <2> HIDE DEF rep
  <2>4. FieldsOK' /\ \A x \in frozen \cap Msg : fields'[x] = fields[x]
    <3>1. CASE Mutable(m) /\ Put(m, f, rep)
      BY <2>1, <2>3, <3>1, PutKeeps DEF IInv, Mutable
    <3>2. CASE fields' = fields
      BY <2>1, <3>2, SameFieldsKeeps DEF IInv
    <3> QED BY <2>1, <3>1, <3>2
  <2>5. l \notin frozen
    BY <2>1, SortFacts DEF IInv, FrozenExist
  <2>6. Untouched
    BY <2>1, <2>4, <2>5 DEF Untouched, IInv, ListsOK
  <2> QED BY <2>1, <2>2, <2>4, <2>6 DEF Good
<1> QED BY <1>1, <1>2, <1>3, <1>4, <1>5, <1>6, <1>7 DEF MsgStep

(* A write to a list through a window on it. *)
LEMMA WindowStep ==
  ASSUME IInv, NEW r \in reps, NEW s \in Seq(Element), Mutable(r.list),
         elems' = [elems EXCEPT ![r.list] = s],
         r.list \notin raw => ToSet(s) \subseteq Fits[r.desc],
         failed' => IsPrefix(elems[r.list], s),
         UNCHANGED <<fields, frozen, raw, reps>>
  PROVE  Good /\ UNCHANGED frozen
<1>1. PICK l \in List : l = r.list
  BY DEF IInv, ListsOK
<1>2. /\ elems \in [List -> Seq(Element)] /\ elems'[l] = s
      /\ \A k \in List \ {l} : elems'[k] = elems[k]
  BY <1>1 DEF IInv, ListsOK
<1>3. \A q \in reps : q.list = l => l \in raw \/ ToSet(s) \subseteq Fits[q.desc]
  BY <1>1 DEF IInv, ListsOK, OneWindow
<1>4. ListsOK'
  <2>1. PICK W : W = {}
    OBVIOUS
  <2>2. /\ W \subseteq Repeated /\ (W # {} => l \in raw) /\ \A w \in W : w.list = l
        /\ elems' = [elems EXCEPT ![l] = s] /\ raw' = raw /\ reps' = reps \cup W /\ ListsOK
    BY <1>1, <2>1 DEF IInv
  <2> QED BY <1>3, <2>2, WriteKeeps
<1>5. FieldsOK'
  BY SameFieldsKeeps DEF IInv
<1>6. Untouched
  BY <1>1, <1>2 DEF Untouched, Mutable
<1>7. failed' => Contained
  BY <1>1, <1>2, PrefixSelf DEF Contained
<1> QED BY <1>4, <1>5, <1>6, <1>7 DEF Good

(* A write to a list that may be frozen is a good step. *)
LEMMA WriteStep ==
  ASSUME IInv, NEW r \in reps, NEW s \in Seq(Element), Write(r, s),
         r.list \notin raw => ToSet(s) \subseteq Fits[r.desc]
  PROVE  Good /\ UNCHANGED frozen
<1>1. CASE /\ Mutable(r.list)
           /\ elems' = [elems EXCEPT ![r.list] = s]
           /\ failed' = FALSE
           /\ UNCHANGED <<fields, frozen, raw, reps>>
  BY <1>1, WindowStep
<1>2. CASE ~Mutable(r.list) /\ Refused
  BY <1>2, SameHeap DEF Refused
<1> QED BY <1>1, <1>2 DEF Write

(* The operations on a protoRepeated are good steps. *)
LEMMA RepStepGood ==
  ASSUME IInv, NEW r \in reps, RepStep(r)
  PROVE  Good /\ UNCHANGED frozen
<1>1. PICK l \in List, f \in ListField : l = r.list /\ f = r.desc
  BY DEF IInv, ListsOK
<1>2. f \in Field /\ Fits[f] \subseteq Element
  BY SortFacts
<1>3. PICK s \in Seq(Element) : s = elems[l]
  BY DEF IInv, ListsOK
<1>4. l \notin raw => \A i \in 1..Len(s) : s[i] \in Fits[f]
  <2>1. l \notin raw => {s[i] : i \in DOMAIN s} \subseteq Fits[f]
    BY <1>1, <1>3 DEF IInv, ListsOK, ListsTyped, ToSet
  <2> QED BY <2>1
<1>5. ASSUME NEW v \in Element, ListAppend(r, v)
      PROVE  Good /\ UNCHANGED frozen
  <2>1. CASE v \in Fits[f] /\ Write(r, Append(s, v))
    <3>1. Append(s, v) \in Seq(Element)
      OBVIOUS
    <3>2. l \notin raw => \A i \in 1..Len(Append(s, v)) : Append(s, v)[i] \in Fits[f]
      BY <1>4, <2>1
    <3>3. l \notin raw => ToSet(Append(s, v)) \subseteq Fits[f]
      BY <3>1, <3>2, ToSetType
    <3> QED BY <1>1, <2>1, <3>1, <3>3, WriteStep
  <2>2. CASE Refused
    BY <2>2, SameHeap DEF Refused
  <2> QED BY <1>1, <1>3, <1>5, <2>1, <2>2 DEF ListAppend
<1>6. ASSUME NEW i \in DOMAIN s, NEW v \in Element, SetIndex(r, i, v)
      PROVE  Good /\ UNCHANGED frozen
  <2>1. CASE v \in Fits[f] /\ Write(r, [s EXCEPT ![i] = v])
    <3>1. /\ [s EXCEPT ![i] = v] \in Seq(Element)
          /\ Len([s EXCEPT ![i] = v]) = Len(s)
          /\ \A j \in 1..Len(s) : [s EXCEPT ![i] = v][j] \in {s[j], v}
      OBVIOUS
    <3>2. l \notin raw => \A j \in 1..Len([s EXCEPT ![i] = v]) :
                           [s EXCEPT ![i] = v][j] \in Fits[f]
      BY <1>4, <2>1, <3>1
    <3>3. l \notin raw => ToSet([s EXCEPT ![i] = v]) \subseteq Fits[f]
      BY <3>1, <3>2, ToSetType
    <3> QED BY <1>1, <2>1, <3>1, <3>3, WriteStep
  <2>2. CASE Refused
    BY <2>2, SameHeap DEF Refused
  <2> QED BY <1>1, <1>3, <1>6, <2>1, <2>2 DEF SetIndex
<1>7. ASSUME NEW k \in Used, Extend(r, k)
      PROVE  Good /\ UNCHANGED frozen
  <2>1. CASE Refused
    BY <2>1, SameHeap DEF Refused
  <2>2. ASSUME NEW n \in 0..Len(elems[k]), ~Blocked(r, k), FitPrefix(f, elems[k], n),
               elems' = [elems EXCEPT ![l] = @ \o SubSeq(elems[k], 1, n)],
               failed' = (n < Len(elems[k])), UNCHANGED <<fields, frozen, raw, reps>>
        PROVE  Good /\ UNCHANGED frozen
    <3>1. PICK t \in Seq(Element) : t = elems[k]
      BY DEF IInv, ListsOK, Used
    <3>2. PICK u : u = SubSeq(t, 1, n)
      OBVIOUS
    <3>3. u \in Seq(Element) /\ Len(u) = n /\ \A i \in 1..n : u[i] = t[i]
      <4>1. 1 \in Int /\ n \in Int /\ \A i \in 1..n : t[i] \in Element
        BY <3>1
      <4> QED BY <3>2, <4>1, SubSeqProperties
    <3>4. \A i \in 1..n : u[i] \in Fits[f]
      BY <2>2, <3>1, <3>3 DEF FitPrefix
    <3>5. elems' = [elems EXCEPT ![l] = s \o u]
      BY <1>3, <2>2, <3>1, <3>2
    <3>6. /\ s \o u \in Seq(Element)
          /\ Len(s \o u) = Len(s) + n
          /\ \A i \in 1..Len(s) + n : (s \o u)[i] = IF i <= Len(s) THEN s[i] ELSE u[i - Len(s)]
      BY <3>3
    <3>7. l \notin raw => ToSet(s \o u) \subseteq Fits[f]
      <4>1. ASSUME l \notin raw, NEW i \in 1..Len(s) + n
            PROVE  (s \o u)[i] \in Fits[f]
        BY <1>4, <3>4, <3>6, <4>1
      <4> QED BY <3>6, <4>1, ToSetType
    <3>8. IsPrefix(s, s \o u)
      <4>1. Len(s) <= Len(s \o u) /\ SubSeq(s, 1, Len(s)) = SubSeq(s \o u, 1, Len(s))
        BY <3>6
      <4> QED BY <4>1 DEF IsPrefix
    <3>9. CASE Mutable(l)
      BY <1>1, <1>3, <2>2, <3>5, <3>6, <3>7, <3>8, <3>9, WindowStep
    <3>10. CASE ~Mutable(l)
      <4>1. t = <<>>
        BY <1>1, <2>2, <3>1, <3>10 DEF Blocked
      <4>2. n = 0
        BY <3>1, <4>1
      <4>3. s \o u = s
        BY <3>3, <3>6, <4>2
      <4>4. UNCHANGED heap
        BY <1>3, <2>2, <3>5, <4>3 DEF IInv, ListsOK, heap
      <4> QED BY <4>4, SameHeap
    <3> QED BY <3>9, <3>10
  <2> QED BY <1>1, <1>7, <2>1, <2>2 DEF Extend
<1>8. ASSUME ListClear(r)
      PROVE  Good /\ UNCHANGED frozen
  <2>1. ToSet(<<>>) = {} /\ <<>> \in Seq(Element)
    BY DEF ToSet
  <2> QED BY <1>8, <2>1, WriteStep DEF ListClear
<1> QED BY <1>1, <1>3, <1>5, <1>6, <1>7, <1>8 DEF RepStep

(* An empty heap satisfies the invariant. *)
LEMMA InitGood == Init => IInv
<1> SUFFICES ASSUME Init PROVE IInv
  OBVIOUS
<1>1. FieldsOK
  <2>1. \A m \in Msg, f \in Field : fields[m][f] = Unset
    BY DEF Init
  <2>2. fields \in [Msg -> [Field -> Element \cup Repeated \cup {Unset}]]
    BY DEF Init
  <2>3. OneofExclusive /\ SingularFit
    BY <2>1, SortFacts DEF OneofExclusive, SingularFit
  <2> QED BY <2>1, <2>2, <2>3 DEF FieldsOK
<1>2. ListsOK
  <2>1. <<>> \in Seq(Element)
    OBVIOUS
  <2>2. elems \in [List -> Seq(Element)]
    BY <2>1 DEF Init
  <2> QED BY <2>2 DEF Init, ListsOK, ListsTyped, OneWindow
<1>3. FrozenExist /\ FrozenClosed /\ failed \in BOOLEAN
  BY DEF Init, FrozenExist, FrozenClosed
<1> QED BY <1>1, <1>2, <1>3 DEF IInv

(* Every step keeps the invariant, writes to no frozen object, and is      *)
(* contained when it fails.                                                *)
LEMMA StepGood ==
  ASSUME IInv, [Next]_vars
  PROVE  IInv' /\ Untouched /\ (~UNCHANGED vars /\ failed' => Contained)
<1>1. ASSUME Good, UNCHANGED frozen
      PROVE  FrozenExist' /\ FrozenClosed'
  <2>1. FrozenClosed'
    BY <1>1, ClosedKept DEF Good, IInv
  <2>2. Used \subseteq Used'
    BY <1>1 DEF Good, IInv, ListsOK, Used
  <2> QED BY <1>1, <2>1, <2>2 DEF FrozenExist, IInv
<1>2. ASSUME NEW l \in List, NewList(l)
      PROVE  FieldsOK' /\ ListsOK' /\ FrozenExist' /\ FrozenClosed' /\ Untouched
             /\ failed' = FALSE
  <2>1. FieldsOK' /\ ListsOK'
    BY <1>2, SameFieldsKeeps, FreshKeeps DEF NewList, IInv
  <2>2. l \notin frozen
    BY <1>2, SortFacts DEF NewList, IInv, FrozenExist
  <2>3. Untouched
    BY <1>2, <2>2 DEF Untouched, NewList, IInv, ListsOK
  <2>4. FrozenExist' /\ FrozenClosed'
    BY <1>2, <2>3, ClosedKept DEF NewList, IInv, FrozenExist, Used
  <2> QED BY <1>2, <2>1, <2>3, <2>4 DEF NewList
<1>3. ASSUME NEW l \in List, NEW s \in Contents, RawWrite(l, s)
      PROVE  Good /\ UNCHANGED frozen
  <2>1. CASE Refused
    BY <2>1, SameHeap DEF Refused
  <2>2. CASE /\ Mutable(l) /\ elems' = [elems EXCEPT ![l] = s]
             /\ failed' = FALSE /\ UNCHANGED <<fields, frozen, raw, reps>>
    <3>1. s \in Seq(Element) /\ l \in raw
      BY <1>3 DEF Contents, RawWrite
    <3>2. PICK W : W = {}
      OBVIOUS
    <3>3. /\ W \subseteq Repeated /\ (W # {} => l \in raw) /\ \A w \in W : w.list = l
          /\ elems' = [elems EXCEPT ![l] = s] /\ raw' = raw /\ reps' = reps \cup W /\ ListsOK
      BY <2>2, <3>2 DEF IInv
    <3>4. ListsOK'
      BY <3>1, <3>3, WriteKeeps
    <3>5. FieldsOK'
      BY <2>2, SameFieldsKeeps DEF IInv
    <3>6. Untouched
      BY <2>2 DEF Untouched, Mutable, IInv, ListsOK
    <3> QED BY <2>2, <3>4, <3>5, <3>6 DEF Good
  <2> QED BY <1>3, <2>1, <2>2 DEF RawWrite
<1>4. ASSUME NEW o \in Msg \cup Used, Freeze(o)
      PROVE  FieldsOK' /\ ListsOK' /\ FrozenExist' /\ FrozenClosed' /\ Untouched
             /\ failed' = FALSE
  <2>1. FieldsOK' /\ ListsOK'
    BY <1>4, SameFieldsKeeps, SameListsKeeps DEF Freeze, IInv
  <2> QED BY <1>4, <2>1, FreezeKeeps DEF Freeze
<1>5. ASSUME UNCHANGED vars
      PROVE  Good /\ UNCHANGED frozen
  BY <1>5, SameHeap DEF vars, heap
<1>6. [Next]_vars => failed' \in BOOLEAN
  <2>1. Refused => failed' = TRUE
    BY DEF Refused
  <2>2. ASSUME NEW m \in Msg, MsgStep(m)
        PROVE  failed' \in BOOLEAN
    <3>1. ASSUME NEW f \in Field, SetNone(m, f) PROVE failed' = FALSE
      BY <3>1 DEF SetNone
    <3>2. ASSUME NEW f \in Field, NEW v, SetValue(m, f, v) \/ ValueRejected(m, f, v)
          PROVE  failed' \in BOOLEAN
      BY <2>1, <3>2 DEF SetValue, ValueRejected
    <3>3. FrozenRejected(m) => failed' = TRUE
      BY <2>1 DEF FrozenRejected
    <3>4. ASSUME NEW f \in ListField, NEW l \in List, SetList(m, f, l) \/ Attr(m, f, l)
          PROVE  failed' \in BOOLEAN
      BY <3>4 DEF SetList, Attr
    <3>5. Clear(m) => failed' = FALSE
      BY DEF Clear
    <3> QED BY <2>2, <3>1, <3>2, <3>3, <3>4, <3>5 DEF MsgStep
  <2>3. ASSUME NEW r \in reps, RepStep(r)
        PROVE  failed' \in BOOLEAN
    <3>1. ASSUME NEW q \in reps, NEW s, Write(q, s) PROVE failed' \in BOOLEAN
      BY <2>1, <3>1 DEF Write
    <3>2. ASSUME NEW k \in Used, Extend(r, k) PROVE failed' \in BOOLEAN
      <4>1. CASE Refused
        BY <2>1, <4>1
      <4>2. CASE \E n \in 0..Len(elems[k]) : failed' = (n < Len(elems[k]))
        BY <4>2
      <4> QED BY <3>2, <4>1, <4>2 DEF Extend
    <3>3. ASSUME NEW v \in Element, ListAppend(r, v) PROVE failed' \in BOOLEAN
      BY <2>1, <3>1, <3>3 DEF ListAppend
    <3>4. ASSUME NEW i \in DOMAIN elems[r.list], NEW v \in Element, SetIndex(r, i, v)
          PROVE  failed' \in BOOLEAN
      BY <2>1, <3>1, <3>4 DEF SetIndex
    <3>5. ListClear(r) => failed' \in BOOLEAN
      BY <3>1 DEF ListClear
    <3> QED BY <2>3, <3>2, <3>3, <3>4, <3>5 DEF RepStep
  <2>4. UNCHANGED vars => failed' \in BOOLEAN
    BY DEF vars, IInv
  <2> QED BY <2>1, <2>2, <2>3, <2>4 DEF Next, NewList, RawWrite, Freeze
<1>7. CASE Next
  <2>1. CASE \E l \in List : NewList(l)
    BY <1>2, <1>6, <2>1 DEF IInv
  <2>2. CASE \E l \in List, s \in Contents : RawWrite(l, s)
    BY <1>1, <1>3, <1>6, <2>2 DEF IInv, Good
  <2>3. CASE \E m \in Msg : MsgStep(m)
    BY <1>1, <1>6, <2>3, MsgStepGood DEF IInv, Good
  <2>4. CASE \E r \in reps : RepStep(r)
    BY <1>1, <1>6, <2>4, RepStepGood DEF IInv, Good
  <2>5. CASE \E o \in Msg \cup Used : Freeze(o)
    BY <1>4, <1>6, <2>5 DEF IInv
  <2> QED BY <1>7, <2>1, <2>2, <2>3, <2>4, <2>5 DEF Next
<1>8. CASE UNCHANGED vars
  BY <1>1, <1>5, <1>6, <1>8 DEF IInv, Good
<1> QED BY <1>7, <1>8

(* The inductive invariant holds in every reachable state. *)
THEOREM Inductive == Spec => []IInv
<1> QED BY InitGood, StepGood, PTL DEF Spec

(* What the invariant says of the sorts of values. *)
LEMMA TypeFromInv == IInv => TypeOK
<1> SUFFICES ASSUME IInv PROVE TypeOK
  OBVIOUS
<1>1. frozen \subseteq Object
  BY DEF IInv, ListsOK, FrozenExist, Used
<1> QED BY <1>1 DEF IInv, FieldsOK, ListsOK, TypeOK

(* Every value in the heap is of its sort, whatever the program does. *)
THEOREM TypeCorrect == Spec => []TypeOK
BY TypeFromInv, Inductive, PTL

(* Whatever a frozen message or list refers to is frozen as well. *)
THEOREM FreezeIsDeep == Spec => []FrozenClosed
<1>1. IInv => FrozenClosed
  BY DEF IInv
<1> QED BY <1>1, Inductive, PTL

(* The objects that frozen objects refer to are frozen too. *)
LEMMA VisibleFrozen == FrozenClosed => Visible = frozen
BY DEF FrozenClosed, Visible

(* No operation of protomodule writes to a frozen message or list, or to   *)
(* one that it refers to.                                                  *)
THEOREM FrozenNeverWritten == Spec => FrozenImmutable
<1> DEFINE Kept == /\ frozen \subseteq frozen'
                   /\ \A m \in Visible \cap Msg : fields'[m] = fields[m]
                   /\ \A l \in Visible \cap List : elems'[l] = elems[l]
<1>1. ASSUME IInv, [Next]_vars
      PROVE  [Kept]_vars
  <2>1. [Untouched]_vars
    BY <1>1, StepGood
  <2>2. Visible = frozen
    BY <1>1, VisibleFrozen DEF IInv
  <2> QED BY <2>1, <2>2 DEF Untouched
<1> HIDE DEF Kept
<1>2. Spec => [][Kept]_vars
  BY <1>1, Inductive, PTL DEF Spec
<1> QED BY <1>2 DEF FrozenImmutable, Kept

(* SetField keeps at most one member of a oneof set. *)
THEOREM OneofHasOneMember == Spec => []OneofExclusive
<1>1. IInv => OneofExclusive
  BY DEF IInv, FieldsOK
<1> QED BY <1>1, Inductive, PTL

(* What the invariant says of the values of fields. *)
LEMMA ConformFromInv == IInv => ConformUnlessBypassed
<1> SUFFICES ASSUME IInv, NEW m \in Msg, NEW f \in Field, fields[m][f] # Unset
             PROVE  IF f \in ListField
                      THEN fields[m][f].list \notin raw
                           /\ Fits[fields[m][f].desc] \subseteq Fits[f]
                           => ToSet(elems[fields[m][f].list]) \subseteq Fits[f]
                      ELSE fields[m][f] \in Fits[f]
  BY DEF ConformUnlessBypassed
<1>1. CASE f \in ListField
  <2>1. fields[m][f] \in reps
    BY <1>1 DEF IInv, FieldsOK
  <2> QED BY <1>1, <2>1 DEF IInv, ListsOK, ListsTyped
<1>2. CASE f \notin ListField
  BY <1>2 DEF IInv, FieldsOK, SingularFit
<1> QED BY <1>1, <1>2

(* A field has a wrong value only if its list is also held as a bare list  *)
(* or is typed for a field that takes more.                                *)
THEOREM ConformsUnlessBypassed == Spec => []ConformUnlessBypassed
BY ConformFromInv, Inductive, PTL

(* An operation that fails leaves every field map as it was. *)
THEOREM FailuresAreContained == Spec => FailureContained
<1>1. ASSUME IInv, [Next]_vars
      PROVE  [failed' => Contained]_vars
  BY <1>1, StepGood
<1> QED BY <1>1, Inductive, PTL DEF Spec, FailureContained
=============================================================================
