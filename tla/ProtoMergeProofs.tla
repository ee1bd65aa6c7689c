-------------------------- MODULE ProtoMergeProofs --------------------------
(***************************************************************************)
(* Proofs about ProtoMerge, for any schema and any number of messages,     *)
(* lists and calls in each other.  A merge keeps the invariant of the      *)
(* heap; it writes to its destination and to what it made; whether it      *)
(* fails is decided by the fields of its two arguments; and what it makes  *)
(* of them, at every depth, is what the documentation says.                *)
(***************************************************************************)
EXTENDS ProtoHeapProofs, ProtoMerge, FiniteSetTheorems, WellFoundedInduction

USE DEF Object, Element, Repeated

(* What SetField takes over from a merge: the field map keeps its form,    *)
(* and other messages keep theirs.                                         *)
LEMMA StoreKeeps ==
  ASSUME IInv, NEW m \in Msg, NEW f \in Field, NEW v, Store(m, f, v), UNCHANGED <<elems, reps>>
  PROVE  /\ FieldsOK'
         /\ \A x \in Msg \ {m} : fields'[x] = fields[x]
         /\ \A g \in Field \ {f} : \/ fields'[m][g] = fields[m][g]
                                   \/ {f, g} \subseteq Oneof
<1> DEFINE w == Converted(f, v)
<1>1. CASE Conforms(f, w) /\ Put(m, f, w)
  <2> HIDE DEF w
  <2>1. /\ w \in Element \cup Repeated
        /\ f \in ListField => w \in reps
        /\ f \notin ListField => w \in Fits[f]
    BY <1>1, SortFacts DEF Conforms, IInv, ListsOK
  <2>2. FieldsOK' /\ \A x \in Msg \ {m} : fields'[x] = fields[x]
    BY <1>1, <2>1, PutKeeps DEF IInv
  <2>3. \A g \in Field \ {f} : fields'[m][g] = fields[m][g] \/ {f, g} \subseteq Oneof
    BY <1>1 DEF Put, IInv, FieldsOK
  <2> QED BY <2>2, <2>3
<1>2. CASE UNCHANGED fields
  BY <1>2, SameFieldsKeeps DEF IInv
<1> QED BY <1>1, <1>2 DEF Store

(* A good step that freezes nothing keeps the invariant of the heap. *)
LEMMA GoodKeeps ==
  ASSUME IInv, Good, UNCHANGED frozen, failed' \in BOOLEAN
  PROVE  IInv' /\ Untouched /\ (failed' => Contained)
<1>1. FrozenClosed'
  BY ClosedKept DEF Good, IInv
<1>2. Used \subseteq Used'
  BY DEF Good, IInv, ListsOK, Used
<1>3. FrozenExist'
  BY <1>2 DEF FrozenExist, IInv
<1> QED BY <1>1, <1>3 DEF Good, IInv

(* So does a step that leaves the heap alone, whatever it returns. *)
LEMMA SameKeeps ==
  ASSUME IInv, UNCHANGED heap, failed' \in BOOLEAN
  PROVE  IInv' /\ Untouched /\ (failed' => Contained)
BY SameHeap, GoodKeeps

(* A new list with elements that fit the type of its window. *)
LEMMA NewListKeeps ==
  ASSUME ListsOK, NEW l \in List, l \notin Used, NEW d \in ListField, NEW s \in Seq(Element),
         ToSet(s) \subseteq Fits[d], elems' = [elems EXCEPT ![l] = s],
         raw' = raw, reps' = reps \cup {[desc |-> d, list |-> l]}
  PROVE  ListsOK'
<1>1. elems \in [List -> Seq(Element)] /\ reps \subseteq Repeated /\ raw \subseteq List
  BY DEF ListsOK
<1>2. /\ elems' \in [List -> Seq(Element)] /\ elems'[l] = s
      /\ \A k \in List \ {l} : elems'[k] = elems[k]
  BY <1>1
<1>3. \A r \in reps : r.list \in List \ {l}
  BY <1>1 DEF Used
<1>4. ListsTyped'
  <2> SUFFICES ASSUME NEW r \in reps', r.list \notin raw
               PROVE  ToSet(elems'[r.list]) \subseteq Fits[r.desc]
    BY DEF ListsTyped
  <2>1. CASE r \in reps
    BY <1>2, <1>3, <2>1 DEF ListsOK, ListsTyped
  <2>2. CASE r = [desc |-> d, list |-> l]
    BY <1>2, <2>2
  <2> QED BY <2>1, <2>2
<1>5. OneWindow'
  BY <1>3 DEF ListsOK, OneWindow
<1>6. reps' \subseteq Repeated
  BY <1>1
<1> QED BY <1>1, <1>2, <1>4, <1>5, <1>6 DEF ListsOK

-----------------------------------------------------------------------------
(* proto.set_defaults.                                                     *)

(* Induction over the natural numbers, for a set: its least element that   *)
(* is missing would have a predecessor that is not.                        *)
LEMMA LeastOf ==
  ASSUME NEW S \in SUBSET Nat, S # {}
  PROVE \E x \in S : \A y \in S : x <= y
<1> DEFINE T == {1..n : n \in S}
<1>1. IsWellFoundedOn(StrictSubsetOrdering(Nat), FiniteSubsetsOf(Nat))
  BY FS_StrictSubsetOrderingWellFounded
<1>2. T \subseteq FiniteSubsetsOf(Nat) /\ T # {}
  <2>1. ASSUME NEW n \in S PROVE IsFiniteSet(1..n) /\ 1..n \in SUBSET Nat
    <3>1. 1 \in Int /\ n \in Int
      OBVIOUS
    <3>2. IsFiniteSet(1..n)
      BY <3>1, FS_Interval, Zenon
    <3> QED BY <3>2
  <2> QED BY <2>1 DEF FiniteSubsetsOf
<1>3. PICK A \in T : \A B \in T : ~(<<B, A>> \in StrictSubsetOrdering(Nat))
  <2> HIDE DEF T
  <2> QED BY <1>1, <1>2, WFMin
<1>4. PICK x \in S : A = 1..x
  OBVIOUS
<1>5. ASSUME NEW y \in S, y < x PROVE FALSE
  <2>1. 1..y \in T /\ 1..y \subseteq 1..x /\ x \in 1..x /\ x \notin 1..y
    BY <1>5
  <2>2. <<1..y, 1..x>> \in StrictSubsetOrdering(Nat)
    BY <2>1, <1>2, <1>4 DEF StrictSubsetOrdering, FiniteSubsetsOf
  <2> QED BY <1>3, <1>4, <2>1, <2>2
<1> QED BY <1>5

(* A set with 0 and the successor of each of its numbers has them all. *)
LEMMA SetInduction ==
  ASSUME NEW T \in SUBSET Nat, 0 \in T, \A n \in T : n + 1 \in T
  PROVE  T = Nat
<1>1. SUFFICES ASSUME Nat \ T # {} PROVE FALSE
  OBVIOUS
<1>2. PICK x \in Nat \ T : \A y \in Nat \ T : x <= y
  BY LeastOf, <1>1
<1>3. x # 0 /\ x - 1 \in Nat
  BY <1>2
<1>4. x - 1 \in T
  BY <1>2, <1>3
<1> QED BY <1>4, <1>2, <1>3

(* D holds the field maps that setting the first n defaults makes of x. *)
Stages(D, x, n) ==
  D = [i \in 0..n |-> IF i = 0 THEN x ELSE ApplyDefault(D[i - 1], FieldOrder[i])]

(* They exist: the recursive definition of WithDefaults defines a function.*)
LEMMA StagesExist == ASSUME NEW x, NEW n \in Nat PROVE \E D : Stages(D, x, n)
<1> DEFINE S == {k \in Nat : \E D : Stages(D, x, k)}
<1>1. 0 \in S
  <2>1. PICK D : D = [i \in 0..0 |-> x]
    OBVIOUS
  <2>2. \A i \in 0..0 : i = 0
    OBVIOUS
  <2>3. Stages(D, x, 0)
    BY <2>1, <2>2 DEF Stages
  <2> QED BY <2>3
<1>2. ASSUME NEW k \in S PROVE k + 1 \in S
  <2>1. PICK D : Stages(D, x, k)
    OBVIOUS
  <2>2. PICK y : y = ApplyDefault(D[k], FieldOrder[k + 1])
    OBVIOUS
  <2>3. PICK U : U = [i \in 0..k + 1 |-> IF i = k + 1 THEN y ELSE D[i]]
    OBVIOUS
  <2>4. k \in Nat
    OBVIOUS
  <2>5. \A i \in 0..k : i \in 0..k + 1 /\ U[i] = D[i]
    BY <2>3, <2>4
  <2>6. U[k + 1] = y /\ k + 1 # 0 /\ k + 1 - 1 = k /\ k \in 0..k
    BY <2>3, <2>4
  <2>7. \A i \in 0..k : D[i] = IF i = 0 THEN x ELSE ApplyDefault(D[i - 1], FieldOrder[i])
    BY <2>1 DEF Stages
  <2>8. ASSUME NEW i \in 0..k + 1
        PROVE  U[i] = IF i = 0 THEN x ELSE ApplyDefault(U[i - 1], FieldOrder[i])
    <3>1. CASE i = k + 1
      BY <2>2, <2>5, <2>6, <3>1
    <3>2. CASE i # k + 1
      <4>1. i \in 0..k /\ (i # 0 => i - 1 \in 0..k)
        BY <2>4, <3>2
      <4> QED BY <2>5, <2>7, <4>1
    <3> QED BY <3>1, <3>2
  <2>9. U = [i \in 0..k + 1 |-> U[i]]
    BY <2>3
  <2>10. Stages(U, x, k + 1)
    BY <2>8, <2>9 DEF Stages
  <2> QED BY <2>4, <2>10
<1>3. S \in SUBSET Nat
  OBVIOUS
<1> HIDE DEF S
<1>4. S = Nat
  BY <1>1, <1>2, <1>3, SetInduction
<1> QED BY <1>4 DEF S

(* What set_defaults does, one default after the other. *)
LEMMA DefaultStages ==
  ASSUME NEW x
  PROVE  \E D : /\ D[0] = x
                /\ \A i \in 1..Len(FieldOrder) : D[i] = ApplyDefault(D[i - 1], FieldOrder[i])
                /\ WithDefaults(x) = D[Len(FieldOrder)]
<1>1. Len(FieldOrder) \in Nat
  BY DefaultAssumption
<1>2. PICK U : Stages(U, x, Len(FieldOrder))
  BY <1>1, StagesExist
<1>3. PICK D : D = CHOOSE V : Stages(V, x, Len(FieldOrder))
  OBVIOUS
<1>4. Stages(D, x, Len(FieldOrder))
  BY <1>2, <1>3
<1>5. WithDefaults(x) = D[Len(FieldOrder)]
  BY <1>3 DEF WithDefaults, Stages
<1>6. \A i \in 0..Len(FieldOrder) :
        D[i] = IF i = 0 THEN x ELSE ApplyDefault(D[i - 1], FieldOrder[i])
  BY <1>4 DEF Stages
<1>7. 0 \in 0..Len(FieldOrder) /\ \A i \in 1..Len(FieldOrder) : i \in 0..Len(FieldOrder) /\ i # 0
  BY <1>1
<1> QED BY <1>5, <1>6, <1>7

(* The field map of a message. *)
MapOK(x) ==
  /\ x \in [Field -> Element \cup Repeated \cup {Unset}]
  /\ \A f \in Field : x[f] \in {Unset} \cup (IF f \in ListField THEN reps ELSE Element)
  /\ \A f, g \in Oneof : x[f] # Unset /\ x[g] # Unset => f = g
  /\ \A f \in Field \ ListField : x[f] # Unset => x[f] \in Fits[f]

(* What ApplyDefault does to a field map that is in order. *)
LEMMA ApplyKeeps ==
  ASSUME NEW x, MapOK(x), NEW f \in Field, NEW y, y = ApplyDefault(x, f)
  PROVE  /\ MapOK(y)
         /\ x[f] # Unset \/ Default[f] = Unset => y = x
         /\ x[f] = Unset /\ Default[f] # Unset =>
              /\ y[f] = Default[f]
              /\ \A g \in Field \ {f} : y[g] = IF {f, g} \subseteq Oneof THEN Unset ELSE x[g]
<1>1. CASE x[f] # Unset \/ Default[f] = Unset
  BY <1>1 DEF ApplyDefault
<1>2. CASE x[f] = Unset /\ Default[f] # Unset
  <2>1. y = [g \in Field |-> IF g = f THEN Default[f]
                             ELSE IF {f, g} \subseteq Oneof THEN Unset ELSE x[g]]
    BY <1>2 DEF ApplyDefault
  <2>2. Default[f] \in Element /\ Default[f] \in Fits[f] /\ f \notin ListField
    BY <1>2, DefaultAssumption
  <2>3. \A g \in Field : y[g] = IF g = f THEN Default[f]
                                ELSE IF {f, g} \subseteq Oneof THEN Unset ELSE x[g]
    BY <2>1
  <2>4. y \in [Field -> Element \cup Repeated \cup {Unset}]
    BY <2>1, <2>2 DEF MapOK
  <2>5. \A g \in Field : y[g] \in {Unset} \cup (IF g \in ListField THEN reps ELSE Element)
    BY <2>2, <2>3 DEF MapOK
  <2>6. \A g, h \in Oneof : y[g] # Unset /\ y[h] # Unset => g = h
    BY <2>3, SortFacts DEF MapOK
  <2>7. \A g \in Field \ ListField : y[g] # Unset => y[g] \in Fits[g]
    BY <2>2, <2>3 DEF MapOK
  <2> QED BY <1>2, <2>3, <2>4, <2>5, <2>6, <2>7 DEF MapOK
<1> QED BY <1>1, <1>2

(* Where a field is in the order of names. *)
LEMMA PositionFacts ==
  /\ Len(FieldOrder) \in Nat
  /\ \A f \in Field : Position(f) \in 1..Len(FieldOrder) /\ FieldOrder[Position(f)] = f
  /\ \A i \in 1..Len(FieldOrder) : FieldOrder[i] \in Field /\ Position(FieldOrder[i]) = i
<1>1. Len(FieldOrder) \in Nat /\ DOMAIN FieldOrder = 1..Len(FieldOrder)
  BY DefaultAssumption
<1>2. ASSUME NEW f \in Field
      PROVE  Position(f) \in 1..Len(FieldOrder) /\ FieldOrder[Position(f)] = f
  <2>1. \E i \in DOMAIN FieldOrder : FieldOrder[i] = f
    BY DefaultAssumption DEF ToSet
  <2> QED BY <1>1, <2>1 DEF Position
<1>3. ASSUME NEW i \in 1..Len(FieldOrder)
      PROVE  FieldOrder[i] \in Field /\ Position(FieldOrder[i]) = i
  <2>1. FieldOrder[i] \in Field
    BY <1>1, DefaultAssumption DEF ToSet
  <2> QED BY <1>1, <1>2, <2>1, DefaultAssumption
<1> QED BY <1>1, <1>2, <1>3

(* What the first n defaults, in the order of names, have made of x. *)
Passed(n) == {f \in Oneof \cap HasDefault : Position(f) <= n}

AfterDefaults(x, y, n) ==
  /\ MapOK(y)
  /\ \A f \in Field \ Oneof :
       y[f] = IF x[f] = Unset /\ Position(f) <= n THEN Default[f] ELSE x[f]
  /\ \A f \in Oneof : y[f] = OneofAfter(Passed(n), x[f], f)

(* One more default. *)
LEMMA NextDefault ==
  ASSUME NEW x, NEW y, NEW n \in 1..Len(FieldOrder), AfterDefaults(x, y, n - 1),
         NEW z, z = ApplyDefault(y, FieldOrder[n])
  PROVE  AfterDefaults(x, z, n)
<1>1. PICK h \in Field : h = FieldOrder[n] /\ Position(h) = n
  BY PositionFacts
<1>2. /\ \A f \in Field : f # h => Position(f) # n
      /\ \A f \in Field : Position(f) \in Nat
      /\ n \in Nat \ {0}
  BY <1>1, PositionFacts
<1>3. \A f \in Field : Position(f) <= n <=> f = h \/ Position(f) <= n - 1
  BY <1>1, <1>2
<1>4. /\ MapOK(y) /\ MapOK(z)
      /\ y[h] # Unset \/ Default[h] = Unset => z = y
      /\ y[h] = Unset /\ Default[h] # Unset =>
           /\ z[h] = Default[h]
           /\ \A g \in Field \ {h} : z[g] = IF {h, g} \subseteq Oneof THEN Unset ELSE y[g]
  BY <1>1, ApplyKeeps DEF AfterDefaults
<1>5. ASSUME NEW f \in Field \ Oneof
      PROVE  z[f] = IF x[f] = Unset /\ Position(f) <= n THEN Default[f] ELSE x[f]
  <2>1. y[f] = IF x[f] = Unset /\ Position(f) <= n - 1 THEN Default[f] ELSE x[f]
    BY DEF AfterDefaults
  <2>2. CASE f # h
    <3>1. z[f] = y[f]
      BY <1>4, <2>2
    <3> QED BY <1>3, <2>1, <2>2, <3>1
  <2>3. CASE f = h
    <3>1. y[h] = x[h]
      BY <1>1, <1>2, <2>1, <2>3
    <3>2. Position(f) <= n
      BY <1>3, <2>3
    <3> QED BY <1>4, <2>3, <3>1, <3>2
  <2> QED BY <2>2, <2>3
<1>6. CASE h \in Oneof \cap HasDefault
  <2>1. Passed(n) = Passed(n - 1) \cup {h}
    BY <1>3, <1>6, SortFacts DEF Passed
  <2>2. z[h] # Unset
    BY <1>4, <1>6 DEF HasDefault
  <2>3. \A f \in Oneof : f # h => z[f] = Unset
    BY <1>4, <1>6, <2>2 DEF MapOK
  <2>4. h \in Passed(n) /\ h \notin Passed(n - 1)
    BY <1>1, <1>2, <2>1 DEF Passed
  <2>5. LastOf(Passed(n), h)
    BY <1>1, <2>4 DEF Passed, LastOf
  <2>6. \A f \in Oneof : f # h => ~LastOf(Passed(n), f)
    <3> SUFFICES ASSUME NEW f \in Oneof, f # h, LastOf(Passed(n), f) PROVE FALSE
      OBVIOUS
    <3>1. f \in Field /\ f \in Passed(n - 1) /\ Position(h) <= Position(f)
      BY <2>1, <2>4, SortFacts DEF LastOf
    <3>2. Position(f) <= n - 1 /\ Position(f) \in Nat
      BY <1>2, <3>1 DEF Passed
    <3> QED BY <1>1, <1>2, <3>1, <3>2
  <2>7. y[h] = OneofAfter(Passed(n - 1), x[h], h)
    BY <1>6 DEF AfterDefaults
  <2>8. z[h] = OneofAfter(Passed(n), x[h], h)
    <3>1. CASE Passed(n - 1) = {}
      <4>1. y[h] = x[h] /\ Passed(n) = {h}
        BY <2>1, <2>7, <3>1 DEF OneofAfter
      <4> QED BY <1>4, <1>6, <2>5, <4>1 DEF OneofAfter, HasDefault
    <3>2. CASE Passed(n - 1) # {}
      <4>1. y[h] = Unset /\ Passed(n) # {h} /\ Passed(n) # {}
        BY <2>1, <2>4, <2>7, <3>2 DEF OneofAfter, LastOf
      <4> QED BY <1>4, <1>6, <2>5, <4>1 DEF OneofAfter, HasDefault
    <3> QED BY <3>1, <3>2
  <2>9. \A f \in Oneof : z[f] = OneofAfter(Passed(n), x[f], f)
    BY <2>3, <2>4, <2>6, <2>8 DEF OneofAfter
  <2> QED BY <1>4, <1>5, <2>9 DEF AfterDefaults
<1>7. CASE h \notin Oneof \cap HasDefault
  <2>1. Passed(n) = Passed(n - 1)
    BY <1>3, <1>7, SortFacts DEF Passed
  <2>2. \A f \in Oneof : z[f] = y[f]
    <3>1. CASE h \in Oneof
      BY <1>4, <1>7, <3>1 DEF HasDefault
    <3>2. CASE h \notin Oneof
      BY <1>4, <3>2, SortFacts
    <3> QED BY <3>1, <3>2
  <2> QED BY <1>4, <1>5, <2>1, <2>2 DEF AfterDefaults
<1> QED BY <1>6, <1>7

(* What all of them make of it. *)
LEMMA AllDefaults ==
  ASSUME NEW x, MapOK(x)
  PROVE  AfterDefaults(x, WithDefaults(x), Len(FieldOrder))
<1>1. PICK D : /\ D[0] = x
               /\ \A i \in 1..Len(FieldOrder) : D[i] = ApplyDefault(D[i - 1], FieldOrder[i])
               /\ WithDefaults(x) = D[Len(FieldOrder)]
  BY DefaultStages
<1>2. Len(FieldOrder) \in Nat
  BY PositionFacts
<1> DEFINE S == {i \in Nat : i <= Len(FieldOrder) => AfterDefaults(x, D[i], i)}
<1>3. 0 \in S
  <2>1. \A f \in Field : ~(Position(f) <= 0)
    BY PositionFacts
  <2>2. Passed(0) = {}
    BY <2>1, SortFacts DEF Passed
  <2>3. AfterDefaults(x, x, 0)
    BY <2>1, <2>2 DEF AfterDefaults, OneofAfter
  <2> QED BY <1>1, <2>3
<1>4. ASSUME NEW i \in S PROVE i + 1 \in S
  <2>1. i \in Nat /\ i + 1 \in Nat
    OBVIOUS
  <2>2. SUFFICES ASSUME i + 1 <= Len(FieldOrder) PROVE AfterDefaults(x, D[i + 1], i + 1)
    BY <2>1
  <2>3. PICK n : n = i + 1
    OBVIOUS
  <2>4. n \in 1..Len(FieldOrder) /\ n - 1 = i /\ i <= Len(FieldOrder)
    BY <1>2, <2>1, <2>2, <2>3
  <2>5. AfterDefaults(x, D[n - 1], n - 1) /\ D[n] = ApplyDefault(D[n - 1], FieldOrder[n])
    BY <1>1, <2>4
  <2>6. AfterDefaults(x, D[n], n)
    BY <2>4, <2>5, NextDefault
  <2> QED BY <2>3, <2>6
<1>5. S \in SUBSET Nat
  OBVIOUS
<1>6. S = Nat
  <2> HIDE DEF S
  <2> QED BY <1>3, <1>4, <1>5, SetInduction
<1>7. AfterDefaults(x, D[Len(FieldOrder)], Len(FieldOrder))
  BY <1>2, <1>6
<1> QED BY <1>1, <1>7

(* The field maps, one by one. *)
LEMMA MapsOK ==
  ASSUME IInv, NEW m \in Msg
  PROVE  MapOK(fields[m])
BY DEF IInv, FieldsOK, MapOK, OneofExclusive, SingularFit

(* proto.set_defaults is an operation on one message. *)
LEMMA SetDefaultsGood ==
  ASSUME IInv, NEW m \in Msg, SetDefaults(m)
  PROVE  Good
<1>1. PICK x : x = WithDefaults(fields[m])
  OBVIOUS
<1>2. MapOK(x)
  BY <1>1, MapsOK, AllDefaults DEF AfterDefaults
<1>3. /\ fields \in [Msg -> [Field -> Element \cup Repeated \cup {Unset}]]
      /\ fields' = [fields EXCEPT ![m] = x]
      /\ m \notin frozen /\ failed' = FALSE /\ UNCHANGED <<elems, frozen, raw, reps>>
  BY <1>1 DEF SetDefaults, Mutable, IInv, FieldsOK
<1>4. /\ fields' \in [Msg -> [Field -> Element \cup Repeated \cup {Unset}]]
      /\ fields'[m] = x /\ \A y \in Msg \ {m} : fields'[y] = fields[y]
  BY <1>2, <1>3 DEF MapOK
<1>5. \A y \in Msg : fields'[y] = x \/ fields'[y] = fields[y]
  BY <1>4
<1>6. \A y \in Msg, f \in Field :
        fields'[y][f] \in {Unset} \cup (IF f \in ListField THEN reps' ELSE Element)
  BY <1>2, <1>3, <1>5 DEF MapOK, IInv, FieldsOK
<1>7. OneofExclusive'
  BY <1>2, <1>5 DEF MapOK, IInv, FieldsOK, OneofExclusive
<1>8. SingularFit'
  BY <1>2, <1>5 DEF MapOK, IInv, FieldsOK, SingularFit
<1>9. FieldsOK'
  BY <1>4, <1>6, <1>7, <1>8 DEF FieldsOK
<1> QED BY <1>3, <1>4, <1>9, FieldStep DEF Mutable

-----------------------------------------------------------------------------
(* What set_defaults leaves behind. *)
LEMMA DefaultsLeft ==
  ASSUME IInv, NEW m \in Msg, SetDefaults(m)
  PROVE  /\ \A f \in Field \ Oneof :
              fields'[m][f] = IF fields[m][f] = Unset THEN Default[f] ELSE fields[m][f]
         /\ \A f \in Oneof :
              fields'[m][f] = OneofAfter(Oneof \cap HasDefault, fields[m][f], f)
<1>1. PICK x, y, n : x = fields[m] /\ y = WithDefaults(x) /\ n = Len(FieldOrder)
  OBVIOUS
<1>2. AfterDefaults(x, y, n)
  BY <1>1, MapsOK, AllDefaults
<1>3. fields'[m] = y
  BY <1>1 DEF SetDefaults, IInv, FieldsOK
<1>4. \A f \in Field : Position(f) <= n
  BY <1>1, PositionFacts
<1>5. Passed(n) = Oneof \cap HasDefault
  BY <1>4, SortFacts DEF Passed
<1>6. \A f \in Field \ Oneof : y[f] = IF x[f] = Unset THEN Default[f] ELSE x[f]
  BY <1>2, <1>4 DEF AfterDefaults
<1> QED BY <1>1, <1>2, <1>3, <1>5, <1>6 DEF AfterDefaults

-----------------------------------------------------------------------------
(* The stack of calls.                                                     *)

(* Another innermost call. *)
LEMMA Replaced ==
  ASSUME NEW F, NEW s \in Seq(F), s # <<>>, NEW x \in F, NEW t, t = <<x>> \o Tail(s)
  PROVE  /\ t \in Seq(F) /\ Len(t) = Len(s) /\ Len(s) \in Nat \ {0} /\ t[1] = x
         /\ \A i \in 2..Len(s) : t[i] = s[i]
<1>1. /\ Tail(s) \in Seq(F) /\ Len(Tail(s)) = Len(s) - 1 /\ Len(s) \in Nat \ {0}
      /\ \A i \in 1..Len(s) - 1 : Tail(s)[i] = s[i + 1]
  OBVIOUS
<1>2. PICK u \in Seq(F) : u = Tail(s)
  BY <1>1
<1>3. /\ t \in Seq(F) /\ Len(t) = Len(u) + 1 /\ t[1] = x
      /\ \A i \in 2..Len(u) + 1 : t[i] = u[i - 1]
  BY <1>2
<1> QED BY <1>1, <1>2, <1>3

(* One more call. *)
LEMMA Pushed ==
  ASSUME NEW F, NEW s \in Seq(F), NEW x \in F, NEW t, t = <<x>> \o s
  PROVE  /\ t \in Seq(F) /\ Len(t) = Len(s) + 1 /\ t[1] = x
         /\ \A i \in 2..Len(t) : t[i] = s[i - 1]
OBVIOUS

(* One less. *)
LEMMA Popped ==
  ASSUME NEW F, NEW s \in Seq(F), s # <<>>
  PROVE  /\ Tail(s) \in Seq(F) /\ Len(Tail(s)) = Len(s) - 1 /\ Len(s) \in Nat \ {0}
         /\ \A i \in 1..Len(s) - 1 : Tail(s)[i] = s[i + 1]
OBVIOUS

(* The outermost call is that of the program; the others, of which each    *)
(* was made for a field, write to messages that the program did not have.  *)
FrameOK(c, outermost) ==
  /\ c \in Frames
  /\ c.sources # <<>> /\ c.to \notin frozen
  /\ IF outermost THEN c.to = before.dst /\ c.sources = <<before.src>>
                  ELSE c.to \notin before.msgs /\ c.field \in Field

StackOK ==
  /\ stack \in Seq(Frames)
  /\ \A i \in 1..Len(stack) : FrameOK(stack[i], i = Len(stack))
  /\ stack # <<>> => failed = FALSE

(* What was recorded when the call was made. *)
BeforeOK ==
  /\ before \in Snapshot \cup {NoCall}
  /\ before = NoCall => stack = <<>>
  /\ before # NoCall =>
       /\ before.dst \in before.msgs /\ before.src \in before.msgs
       /\ before.lists \subseteq Used

HeapInv ==
  /\ IInv
  /\ StackOK
  /\ BeforeOK
  /\ steps \in 0..MaxSteps
  /\ OnlyDestination

(* The innermost call. *)
LEMMA TopFacts ==
  ASSUME HeapInv, stack # <<>>
  PROVE  /\ Len(stack) \in Nat \ {0} /\ Top = stack[1]
         /\ stack \in Seq(Frames) /\ Top \in Frames
         /\ Top.to \in Msg \ frozen /\ Top.sources \in Seq(Msg)
         /\ Top.sources # <<>> /\ Head(Top.sources) \in Msg /\ Top.todo \subseteq Field
         /\ before \in Snapshot /\ before # NoCall /\ failed = FALSE
         /\ \A i \in 1..Len(stack) :
              FrameOK(stack[i], i = Len(stack)) /\ stack[i].to \in Msg \ frozen
<1>1. stack \in Seq(Frames) /\ Len(stack) \in Nat \ {0} /\ Top = stack[1]
  BY DEF HeapInv, StackOK, Top
<1>2. \A i \in 1..Len(stack) : FrameOK(stack[i], i = Len(stack))
  BY DEF HeapInv, StackOK
<1>3. \A i \in 1..Len(stack) : stack[i] \in Frames /\ stack[i].to \in Msg \ frozen
  BY <1>2 DEF FrameOK, Frames
<1>4. 1 \in 1..Len(stack)
  BY <1>1
<1>5. Top \in Frames /\ Top.sources # <<>>
  BY <1>1, <1>2, <1>4 DEF FrameOK
<1>6. Top.sources \in Seq(Msg) /\ Top.todo \subseteq Field
  BY <1>5 DEF Frames
<1>7. Head(Top.sources) \in Msg
  BY <1>5, <1>6
<1>8. before \in Snapshot /\ before # NoCall /\ failed = FALSE
  BY DEF HeapInv, StackOK, BeforeOK
<1> QED BY <1>1, <1>2, <1>3, <1>4, <1>5, <1>6, <1>7, <1>8

(* A call that is through with a field, or will meet it again. *)
LEMMA DoneFacts ==
  ASSUME NEW calls \in Seq(Frames), calls # <<>>, NEW f, Done(f, calls)
  PROVE  /\ stack' \in Seq(Frames) /\ Len(stack') = Len(calls) /\ Len(calls) \in Nat \ {0}
         /\ \A i \in 2..Len(calls) : stack'[i] = calls[i]
         /\ stack'[1].to = calls[1].to /\ stack'[1].sources = calls[1].sources
         /\ stack'[1].field = calls[1].field
         /\ \/ stack'[1].todo = calls[1].todo \ {f}
            \/ /\ stack'[1].todo = calls[1].todo
               /\ f \in Oneof /\ calls[1].to = Head(calls[1].sources)
<1>1. Head(calls) = calls[1] /\ calls[1] \in Frames /\ Len(calls) \in Nat \ {0}
  OBVIOUS
<1>2. CASE stack' = calls /\ f \in Oneof /\ calls[1].to = Head(calls[1].sources)
  BY <1>1, <1>2
<1>3. CASE stack' = <<[calls[1] EXCEPT !.todo = @ \ {f}]>> \o Tail(calls)
  <2>1. PICK c : c = [calls[1] EXCEPT !.todo = @ \ {f}]
    OBVIOUS
  <2>2. /\ c \in Frames /\ c.to = calls[1].to /\ c.sources = calls[1].sources
        /\ c.field = calls[1].field /\ c.todo = calls[1].todo \ {f}
    BY <1>1, <2>1 DEF Frames
  <2>3. stack' = <<c>> \o Tail(calls)
    BY <1>3, <2>1
  <2>4. /\ stack' \in Seq(Frames) /\ Len(stack') = Len(calls) /\ stack'[1] = c
        /\ \A i \in 2..Len(calls) : stack'[i] = calls[i]
    BY <2>2, <2>3, Replaced
  <2> QED BY <1>1, <2>2, <2>4
<1> QED BY <1>1, <1>2, <1>3 DEF Done

(* The calls after one of them is through with a field. *)
LEMMA DoneFrames ==
  ASSUME NEW calls \in Seq(Frames), calls # <<>>, NEW f, Done(f, calls),
         \A i \in 1..Len(calls) : FrameOK(calls[i], i = Len(calls))
  PROVE  /\ stack' \in Seq(Frames) /\ stack' # <<>>
         /\ \A i \in 1..Len(stack') : FrameOK(stack'[i], i = Len(stack'))
<1>1. /\ stack' \in Seq(Frames) /\ Len(stack') = Len(calls) /\ Len(calls) \in Nat \ {0}
      /\ \A i \in 2..Len(calls) : stack'[i] = calls[i]
      /\ stack'[1].to = calls[1].to /\ stack'[1].sources = calls[1].sources
      /\ stack'[1].field = calls[1].field
  BY DoneFacts
<1>2. 1 \in 1..Len(calls) /\ stack'[1] \in Frames
  BY <1>1
<1>3. FrameOK(stack'[1], 1 = Len(stack'))
  BY <1>1, <1>2 DEF FrameOK
<1>4. \A i \in 1..Len(calls) : i = 1 \/ i \in 2..Len(calls)
  BY <1>1
<1>5. stack' # <<>>
  BY <1>1
<1> QED BY <1>1, <1>3, <1>4, <1>5

(* A step of the merge in progress keeps the invariant if it keeps that of *)
(* the heap and writes to no list, and to no other message, that was there.*)
LEMMA KeepsInv ==
  ASSUME HeapInv, Good, UNCHANGED <<frozen, before, steps>>,
         failed' \in BOOLEAN, stack' # <<>> => failed' = FALSE,
         stack' \in Seq(Frames),
         \A i \in 1..Len(stack') : FrameOK(stack'[i], i = Len(stack')),
         before # NoCall,
         \A m \in before.msgs \ {before.dst} : fields'[m] = fields[m],
         \A l \in Used : elems'[l] = elems[l]
  PROVE  HeapInv' /\ Untouched
<1>1. IInv' /\ Untouched
  BY GoodKeeps DEF HeapInv
<1>2. Used \subseteq Used'
  BY DEF HeapInv, Good, IInv, ListsOK, Used
<1>3. StackOK'
  <2>1. (\A i \in 1..Len(stack) : FrameOK(stack[i], i = Len(stack)))'
    BY DEF FrameOK
  <2> QED BY <2>1 DEF StackOK
<1>4. BeforeOK'
  BY <1>2 DEF HeapInv, BeforeOK
<1>5. OnlyDestination'
  <2>1. before.lists \subseteq Used
    BY DEF HeapInv, BeforeOK
  <2>2. /\ \A m \in before.msgs \ {before.dst} : fields'[m] = before.fields[m]
        /\ \A l \in before.lists : elems'[l] = before.elems[l]
    BY <2>1 DEF HeapInv, OnlyDestination
  <2> QED BY <2>2 DEF OnlyDestination
<1>6. (steps \in 0..MaxSteps)'
  BY DEF HeapInv
<1> QED BY <1>1, <1>3, <1>4, <1>5, <1>6 DEF HeapInv

(* A step that writes to the message of one of the calls. *)
LEMMA WritesTo ==
  ASSUME HeapInv, stack # <<>>, NEW k \in 1..Len(stack),
         \A m \in Msg \ {stack[k].to} : fields'[m] = fields[m]
  PROVE  /\ \A m \in before.msgs \ {before.dst} : fields'[m] = fields[m]
         /\ k # Len(stack) => fields'[before.dst] = fields[before.dst]
<1>1. FrameOK(stack[k], k = Len(stack)) /\ before \in Snapshot /\ before # NoCall
  BY TopFacts
<1>2. before.msgs \subseteq Msg /\ before.dst \in before.msgs
  BY <1>1 DEF HeapInv, BeforeOK, Snapshot
<1> QED BY <1>1, <1>2 DEF FrameOK

(* The value of a field that was taken over, which is stored by SetField.  *)
LEMMA StoreGood ==
  ASSUME HeapInv, stack # <<>>, NEW k \in 1..Len(stack), NEW f \in Field, NEW v,
         Store(stack[k].to, f, v), UNCHANGED <<elems, frozen, raw, reps, failed>>
  PROVE  /\ Good
         /\ \A m \in before.msgs \ {before.dst} : fields'[m] = fields[m]
         /\ k # Len(stack) => fields'[before.dst] = fields[before.dst]
         /\ k = Len(stack) =>
              \A g \in Field \ {f} : \/ fields'[before.dst][g] = fields[before.dst][g]
                                     \/ {f, g} \subseteq Oneof
<1>1. PICK m \in Msg : m = stack[k].to /\ m \notin frozen
  BY TopFacts
<1>2. FrameOK(stack[k], k = Len(stack)) /\ failed = FALSE
  BY TopFacts
<1>3. IInv
  BY DEF HeapInv
<1>4. /\ FieldsOK'
      /\ \A x \in Msg \ {m} : fields'[x] = fields[x]
      /\ \A g \in Field \ {f} : fields'[m][g] = fields[m][g] \/ {f, g} \subseteq Oneof
  BY <1>1, <1>3, StoreKeeps
<1>5. Good
  BY <1>1, <1>2, <1>3, <1>4, FieldStep DEF Mutable
<1>6. k = Len(stack) => m = before.dst
  BY <1>1, <1>2 DEF FrameOK
<1>7. \A x \in Msg \ {stack[k].to} : fields'[x] = fields[x]
  BY <1>1, <1>4
<1> QED BY <1>4, <1>5, <1>6, <1>7, <1>1, WritesTo

-----------------------------------------------------------------------------
(* The steps of a merge.                                                   *)

LEMMA ReplaceKeeps ==
  ASSUME HeapInv, stack # <<>>, NEW f \in Field, Replace(f)
  PROVE  HeapInv' /\ Untouched
<1>1. /\ Len(stack) \in Nat \ {0} /\ Top = stack[1] /\ stack \in Seq(Frames)
      /\ before # NoCall /\ failed = FALSE
      /\ \A i \in 1..Len(stack) : FrameOK(stack[i], i = Len(stack))
  BY TopFacts
<1>2. 1 \in 1..Len(stack)
  BY <1>1
<1>3. /\ Store(stack[1].to, f, New(f)) /\ Done(f, stack)
      /\ UNCHANGED <<elems, frozen, raw, reps, failed, before, steps>>
  BY <1>1 DEF Replace
<1>4. Good /\ \A m \in before.msgs \ {before.dst} : fields'[m] = fields[m]
  BY <1>2, <1>3, StoreGood
<1>5. /\ stack' \in Seq(Frames)
      /\ \A i \in 1..Len(stack') : FrameOK(stack'[i], i = Len(stack'))
  BY <1>1, <1>3, DoneFrames
<1>6. failed' = FALSE /\ \A l \in Used : elems'[l] = elems[l]
  BY <1>1, <1>3
<1> QED BY <1>1, <1>3, <1>4, <1>5, <1>6, KeepsInv

(* The list that a merge of two lists makes, and where it goes. *)
LEMMA ConcatenateGood ==
  ASSUME HeapInv, stack # <<>>, NEW f \in ListField, NEW l \in List, Concatenate(f, l)
  PROVE  /\ Good
         /\ \A m \in Msg \ {Top.to} : fields'[m] = fields[m]
         /\ \A g \in Field \ {f} : fields'[Top.to][g] = fields[Top.to][g]
         /\ \A k \in Used : elems'[k] = elems[k]
<1>1. Top.to \in Msg \ frozen /\ failed = FALSE /\ Head(Top.sources) \in Msg /\ IInv
  BY TopFacts DEF HeapInv
<1>2. PICK m, d, s : m = Top.to /\ d = Old(f).desc /\ s = Both(f) /\ m \in Msg
  BY <1>1
<1>3. /\ Old(f) \in reps /\ New(f) \in reps /\ l \notin Used
      /\ ToSet(s) \subseteq Fits[d]
      /\ elems' = [elems EXCEPT ![l] = s]
      /\ reps' = reps \cup {[desc |-> d, list |-> l]}
      /\ \/ Put(m, f, [desc |-> d, list |-> l])
         \/ UNCHANGED fields
      /\ UNCHANGED <<frozen, raw, failed>>
  BY <1>2 DEF Concatenate
<1>4. d \in ListField /\ Old(f).list \in List /\ New(f).list \in List
  BY <1>1, <1>2, <1>3 DEF IInv, ListsOK
<1>5. s \in Seq(Element) /\ elems \in [List -> Seq(Element)]
  BY <1>1, <1>2, <1>4 DEF Both, IInv, ListsOK
<1>6. ListsOK'
  BY <1>1, <1>3, <1>4, <1>5, NewListKeeps DEF IInv
<1>7. \A k \in List \ {l} : elems'[k] = elems[k]
  BY <1>3, <1>5
<1>8. Used \subseteq List \ {l}
  BY <1>1, <1>3 DEF Used, IInv, ListsOK
<1>9. f \notin Oneof /\ f \in Field
  BY SortFacts
<1>10. PICK v \in Repeated : v = [desc |-> d, list |-> l] /\ v \in reps'
  BY <1>3, <1>4
<1>11. FieldsOK' /\ \A x \in Msg \ {m} : fields'[x] = fields[x]
  <2>1. CASE Put(m, f, v)
    BY <1>1, <1>2, <1>3, <1>9, <1>10, <2>1, PutKeeps DEF IInv
  <2>2. CASE UNCHANGED fields
    BY <1>1, <1>3, <2>2, SameFieldsKeeps DEF IInv
  <2> QED BY <1>3, <1>10, <2>1, <2>2
<1>12. \A g \in Field \ {f} : fields'[m][g] = fields[m][g]
  <2>1. CASE Put(m, f, v)
    BY <1>1, <1>9, <2>1 DEF Put, IInv, FieldsOK
  <2>2. CASE UNCHANGED fields
    BY <2>2
  <2> QED BY <1>3, <1>10, <2>1, <2>2
<1>13. Untouched
  <2>1. m \notin frozen /\ l \notin frozen
    BY <1>1, <1>2, <1>3, SortFacts DEF IInv, FrozenExist
  <2> QED BY <1>3, <1>7, <1>11, <2>1 DEF Untouched
<1>14. failed' = FALSE /\ raw' = raw /\ reps \subseteq reps'
  BY <1>1, <1>3
<1>15. Good
  BY <1>6, <1>11, <1>13, <1>14 DEF Good
<1> QED BY <1>2, <1>7, <1>8, <1>11, <1>12, <1>15

LEMMA ConcatenateKeeps ==
  ASSUME HeapInv, stack # <<>>, NEW f \in ListField, NEW l \in List, Concatenate(f, l)
  PROVE  HeapInv' /\ Untouched
<1>1. /\ Len(stack) \in Nat \ {0} /\ Top = stack[1] /\ stack \in Seq(Frames)
      /\ before # NoCall /\ failed = FALSE
      /\ \A i \in 1..Len(stack) : FrameOK(stack[i], i = Len(stack))
  BY TopFacts
<1>2. 1 \in 1..Len(stack)
  BY <1>1
<1>3. Done(f, stack) /\ UNCHANGED <<frozen, raw, failed, before, steps>>
  BY DEF Concatenate
<1>4. /\ Good /\ \A m \in Msg \ {stack[1].to} : fields'[m] = fields[m]
      /\ \A k \in Used : elems'[k] = elems[k]
  BY <1>1, ConcatenateGood
<1>5. \A m \in before.msgs \ {before.dst} : fields'[m] = fields[m]
  BY <1>2, <1>4, WritesTo
<1>6. /\ stack' \in Seq(Frames)
      /\ \A i \in 1..Len(stack') : FrameOK(stack'[i], i = Len(stack'))
  BY <1>1, <1>3, DoneFrames
<1>7. failed' = FALSE
  BY <1>1, <1>3
<1> QED BY <1>1, <1>3, <1>4, <1>5, <1>6, <1>7, KeepsInv

(* A step of the calls alone. *)
LEMMA CallsStep ==
  ASSUME HeapInv, stack # <<>>, UNCHANGED <<heap, before, steps>>,
         failed' \in BOOLEAN, stack' # <<>> => failed' = FALSE, failed' => stack' = <<>>,
         stack' \in Seq(Frames),
         \A i \in 1..Len(stack') : FrameOK(stack'[i], i = Len(stack'))
  PROVE  HeapInv' /\ Untouched
<1>1. before # NoCall /\ IInv
  BY TopFacts DEF HeapInv
<1>2. Good
  BY <1>1, SameHeap
<1>3. fields' = fields /\ elems' = elems /\ frozen' = frozen /\ before' = before /\ steps' = steps
  BY DEF heap
<1> QED BY <1>1, <1>2, <1>3, KeepsInv

(* A call begins with all the fields of its source. *)
LEMMA FrameType ==
  ASSUME NEW to \in Msg, NEW sources \in Seq(Msg), sources # <<>>,
         NEW field \in Field \cup {Unset}
  PROVE  Frame(to, sources, field) \in Frames
BY DEF Frame, Frames, Set

(* What the next fields may be merged from. *)
LEMMA FieldsOfMessages ==
  ASSUME HeapInv, stack # <<>>, NEW f \in Field, {Old(f), New(f)} \subseteq Msg, NEW n \in Msg
  PROVE  <<Old(f), New(f)>> \in Seq(Msg) /\ Frame(n, <<Old(f), New(f)>>, f) \in Frames
<1>1. <<Old(f), New(f)>> \in Seq(Msg) /\ <<Old(f), New(f)>> # <<>>
  OBVIOUS
<1> QED BY <1>1, FrameType

LEMMA DescendKeeps ==
  ASSUME HeapInv, stack # <<>>, NEW f \in Field, NEW n \in Msg, Descend(f, n)
  PROVE  HeapInv' /\ Untouched
<1>1. /\ Len(stack) \in Nat \ {0} /\ stack \in Seq(Frames) /\ failed = FALSE
      /\ \A i \in 1..Len(stack) : FrameOK(stack[i], i = Len(stack))
  BY TopFacts
<1>2. PICK c \in Frames : c = Frame(n, <<Old(f), New(f)>>, f)
  BY FieldsOfMessages DEF Descend
<1>3. stack' = <<c>> \o stack /\ UNCHANGED <<heap, failed, before, steps>>
  BY <1>2 DEF Descend
<1>4. /\ stack' \in Seq(Frames) /\ Len(stack') = Len(stack) + 1 /\ stack'[1] = c
      /\ \A i \in 2..Len(stack') : stack'[i] = stack[i - 1]
  BY <1>1, <1>3, Pushed
<1>5. FrameOK(c, FALSE)
  <2>1. n \notin frozen /\ n \notin before.msgs
    BY DEF Descend, Fresh, Unused
  <2>2. c.to = n /\ c.field = f /\ c.sources # <<>>
    BY <1>2 DEF Frame
  <2> QED BY <2>1, <2>2 DEF FrameOK
<1>6. \A i \in 1..Len(stack') : FrameOK(stack'[i], i = Len(stack'))
  <2> SUFFICES ASSUME NEW i \in 1..Len(stack') PROVE FrameOK(stack'[i], i = Len(stack'))
    OBVIOUS
  <2>1. CASE i = 1
    <3>1. (i = Len(stack')) = FALSE
      BY <1>1, <1>4, <2>1
    <3> QED BY <1>4, <1>5, <2>1, <3>1
  <2>2. CASE i # 1
    <3>1. i \in 2..Len(stack') /\ i - 1 \in 1..Len(stack)
      BY <1>1, <1>4, <2>2
    <3>2. (i = Len(stack')) = (i - 1 = Len(stack))
      BY <1>1, <1>4, <3>1
    <3>3. FrameOK(stack[i - 1], i - 1 = Len(stack))
      BY <1>1, <3>1
    <3> QED BY <1>4, <3>1, <3>2, <3>3
  <2> QED BY <2>1, <2>2
<1> QED BY <1>1, <1>3, <1>4, <1>6, CallsStep

(* The innermost call goes on with other fields, or another source. *)
LEMMA TopReplaced ==
  ASSUME HeapInv, stack # <<>>, NEW c \in Frames, FrameOK(c, 1 = Len(stack)),
         stack' = <<c>> \o Tail(stack)
  PROVE  /\ stack' \in Seq(Frames) /\ Len(stack') = Len(stack) /\ stack'[1] = c
         /\ \A i \in 2..Len(stack) : stack'[i] = stack[i]
         /\ \A i \in 1..Len(stack') : FrameOK(stack'[i], i = Len(stack'))
<1>1. /\ Len(stack) \in Nat \ {0} /\ stack \in Seq(Frames)
      /\ \A i \in 1..Len(stack) : FrameOK(stack[i], i = Len(stack))
  BY TopFacts
<1>2. /\ stack' \in Seq(Frames) /\ Len(stack') = Len(stack) /\ stack'[1] = c
      /\ \A i \in 2..Len(stack) : stack'[i] = stack[i]
  BY <1>1, Replaced
<1>3. \A i \in 1..Len(stack) : i = 1 \/ i \in 2..Len(stack)
  BY <1>1
<1> QED BY <1>1, <1>2, <1>3

LEMMA FieldFailsKeeps ==
  ASSUME HeapInv, stack # <<>>, NEW f \in Field, FieldFails(f)
  PROVE  HeapInv' /\ Untouched
<1>1. /\ Len(stack) \in Nat \ {0} /\ Top = stack[1] /\ Top \in Frames /\ failed = FALSE
      /\ \A i \in 1..Len(stack) : FrameOK(stack[i], i = Len(stack))
  BY TopFacts
<1>2. UNCHANGED <<heap, before, steps>>
  BY DEF FieldFails
<1>5. FrameOK(Top, 1 = Len(stack))
  <2>1. 1 \in 1..Len(stack)
    BY <1>1
  <2> QED BY <1>1, <2>1
<1>3. CASE stack' = <<>> /\ failed' = TRUE
  <2>1. stack' \in Seq(Frames) /\ \A i \in 1..Len(stack') : FALSE
    BY <1>3
  <2> QED BY <1>2, <1>3, <2>1, CallsStep
<1>4. CASE stack' = <<[Top EXCEPT !.todo = {}]>> \o Tail(stack) /\ failed' = failed
  <2>1. PICK c : c = [Top EXCEPT !.todo = {}]
    OBVIOUS
  <2>2. c \in Frames /\ c.to = Top.to /\ c.sources = Top.sources /\ c.field = Top.field
    BY <1>1, <2>1 DEF Frames
  <2>4. FrameOK(c, 1 = Len(stack))
    BY <1>5, <2>2 DEF FrameOK
  <2>5. stack' = <<c>> \o Tail(stack)
    BY <1>4, <2>1
  <2>6. /\ stack' \in Seq(Frames)
        /\ \A i \in 1..Len(stack') : FrameOK(stack'[i], i = Len(stack'))
    BY <2>2, <2>4, <2>5, TopReplaced
  <2> QED BY <1>1, <1>2, <1>4, <2>6, CallsStep
<1> QED BY <1>3, <1>4 DEF FieldFails

(* The next source of a call, which is not the program's: that has one. *)
LEMMA NextSource ==
  ASSUME HeapInv, stack # <<>>, MergeSource
  PROVE  /\ Len(stack) > 1
         /\ \E c \in Frames :
              /\ stack' = <<c>> \o Tail(stack)
              /\ FrameOK(c, 1 = Len(stack))
              /\ c.field = Top.field
<1>1. /\ Len(stack) \in Nat \ {0} /\ Top = stack[1] /\ Top \in Frames
      /\ \A i \in 1..Len(stack) : FrameOK(stack[i], i = Len(stack))
      /\ Top.to \in Msg /\ Top.sources \in Seq(Msg) /\ Top.sources # <<>>
  BY TopFacts
<1>2. FrameOK(Top, 1 = Len(stack))
  BY <1>1
<1>3. Len(Top.sources) > 1 /\ Len(Top.sources) \in Nat
  BY <1>1 DEF MergeSource
<1>4. Len(stack) # 1
  <2>1. Len(stack) = 1 => Top.sources = <<before.src>>
    BY <1>2 DEF FrameOK
  <2>2. Len(<<before.src>>) = 1
    OBVIOUS
  <2>3. Len(Top.sources) # 1
    <3>1. \A n \in Nat : n > 1 => n # 1
      OBVIOUS
    <3> QED BY <1>3, <3>1, Zenon
  <2> QED BY <2>1, <2>2, <2>3
<1>5. PICK c : c = Frame(Top.to, Tail(Top.sources), Top.field)
  OBVIOUS
<1>6. Tail(Top.sources) \in Seq(Msg) /\ Tail(Top.sources) # <<>>
  <2>1. PICK s, t : s = Top.sources /\ s \in Seq(Msg) /\ s # <<>> /\ t = Tail(s)
    BY <1>1
  <2>2. t \in Seq(Msg) /\ Len(t) = Len(s) - 1
    BY <2>1, Popped
  <2>3. Len(t) # 0
    BY <1>3, <2>1, <2>2
  <2>4. t # <<>>
    BY <2>3
  <2> QED BY <2>1, <2>2, <2>4
<1>7. Top.field \in Field
  BY <1>2, <1>4 DEF FrameOK
<1>8. c \in Frames
  BY <1>1, <1>5, <1>6, <1>7, FrameType
<1>9. c.to = Top.to /\ c.field = Top.field /\ c.sources = Tail(Top.sources)
  BY <1>5 DEF Frame
<1>10. FrameOK(c, 1 = Len(stack))
  BY <1>2, <1>4, <1>6, <1>8, <1>9 DEF FrameOK
<1>11. stack' = <<c>> \o Tail(stack)
  BY <1>5 DEF MergeSource
<1>12. Len(stack) > 1
  <2>1. Len(stack) \in Nat \ {0}
    BY <1>1
  <2> QED BY <1>4, <2>1
<1> QED BY <1>8, <1>9, <1>10, <1>11, <1>12

LEMMA MergeSourceKeeps ==
  ASSUME HeapInv, stack # <<>>, MergeSource
  PROVE  HeapInv' /\ Untouched
<1>1. PICK c \in Frames : stack' = <<c>> \o Tail(stack) /\ FrameOK(c, 1 = Len(stack))
  BY NextSource
<1>2. /\ stack' \in Seq(Frames)
      /\ \A i \in 1..Len(stack') : FrameOK(stack'[i], i = Len(stack'))
  BY <1>1, TopReplaced
<1>3. UNCHANGED <<heap, before, steps>> /\ failed' = failed /\ failed = FALSE
  BY TopFacts DEF MergeSource
<1> QED BY <1>2, <1>3, CallsStep

(* The calls without the innermost. *)
LEMMA CallersOK ==
  ASSUME HeapInv, Len(stack) > 1
  PROVE  /\ Tail(stack) \in Seq(Frames) /\ Tail(stack) # <<>>
         /\ Len(Tail(stack)) = Len(stack) - 1 /\ Len(stack) \in Nat
         /\ \A i \in 1..Len(Tail(stack)) :
              /\ Tail(stack)[i] = stack[i + 1]
              /\ FrameOK(Tail(stack)[i], i = Len(Tail(stack)))
<1>1. stack \in Seq(Frames)
  BY DEF HeapInv, StackOK
<1>2. stack # <<>> /\ Len(stack) \in Nat
  BY <1>1
<1>3. PICK t, n : t = Tail(stack) /\ n = Len(stack)
  OBVIOUS
<1>4. t \in Seq(Frames) /\ Len(t) = n - 1 /\ \A i \in 1..n - 1 : t[i] = stack[i + 1]
  BY <1>1, <1>2, <1>3, Popped
<1>5. ASSUME NEW i \in 1..n - 1 PROVE FrameOK(t[i], i = n - 1)
  <2>1. i + 1 \in 1..n /\ (i = n - 1) = (i + 1 = n)
    BY <1>2, <1>3
  <2>2. FrameOK(stack[i + 1], i + 1 = n)
    BY <1>3, <2>1 DEF HeapInv, StackOK
  <2> QED BY <1>4, <2>1, <2>2
<1>6. t # <<>>
  <2>1. Len(t) # 0
    BY <1>2, <1>3, <1>4
  <2> QED BY <2>1
<1>7. \A i \in 1..Len(t) : i \in 1..n - 1
  BY <1>4
<1> QED BY <1>2, <1>3, <1>4, <1>5, <1>6, <1>7

LEMMA FieldMergedKeeps ==
  ASSUME HeapInv, stack # <<>>, FieldMerged
  PROVE  HeapInv' /\ Untouched
<1>1. /\ Len(stack) \in Nat \ {0} /\ Top = stack[1] /\ before # NoCall /\ failed = FALSE
      /\ \A i \in 1..Len(stack) : FrameOK(stack[i], i = Len(stack))
  BY TopFacts
<1>2. /\ Len(stack) > 1 /\ Store(stack[2].to, Top.field, Top.to)
      /\ Done(Top.field, Tail(stack))
      /\ UNCHANGED <<elems, frozen, raw, reps, failed, before, steps>>
  BY DEF FieldMerged
<1>3. 1 \in 1..Len(stack) /\ 2 \in 1..Len(stack) /\ 1 # Len(stack)
  BY <1>1, <1>2
<1>4. FrameOK(Top, FALSE)
  BY <1>1, <1>3
<1>5. Top.field \in Field
  BY <1>4 DEF FrameOK
<1>6. Good /\ \A m \in before.msgs \ {before.dst} : fields'[m] = fields[m]
  BY <1>2, <1>3, <1>5, StoreGood
<1>7. /\ Tail(stack) \in Seq(Frames) /\ Tail(stack) # <<>>
      /\ \A i \in 1..Len(Tail(stack)) : FrameOK(Tail(stack)[i], i = Len(Tail(stack)))
  BY <1>2, CallersOK
<1>8. /\ stack' \in Seq(Frames)
      /\ \A i \in 1..Len(stack') : FrameOK(stack'[i], i = Len(stack'))
  BY <1>2, <1>7, DoneFrames
<1>9. failed' = FALSE /\ \A l \in Used : elems'[l] = elems[l]
  BY <1>1, <1>2
<1> QED BY <1>1, <1>2, <1>6, <1>8, <1>9, KeepsInv

LEMMA MergeReturnsKeeps ==
  ASSUME HeapInv, stack # <<>>, MergeReturns
  PROVE  HeapInv' /\ Untouched
<1>1. stack' = <<>> /\ failed' = FALSE /\ UNCHANGED <<heap, before, steps>>
  BY DEF MergeReturns
<1>2. stack' \in Seq(Frames) /\ \A i \in 1..Len(stack') : FALSE
  BY <1>1
<1> QED BY <1>1, <1>2, CallsStep

(* Every step of a merge. *)
LEMMA MergeStepKeeps ==
  ASSUME HeapInv, stack # <<>>, MergeStep
  PROVE  HeapInv' /\ Untouched
BY ReplaceKeeps, FieldFailsKeeps, ConcatenateKeeps, DescendKeeps, MergeSourceKeeps,
   FieldMergedKeeps, MergeReturnsKeeps DEF MergeStep

(* The program calls proto.merge. *)
LEMMA CallKeeps ==
  ASSUME HeapInv, NEW d \in Msg, NEW s \in Msg, Merge(d, s)
  PROVE  HeapInv' /\ Untouched /\ before' # NoCall
<1>1. /\ before = NoCall /\ stack = <<>> /\ UNCHANGED heap /\ steps' = steps
      /\ failed' \in BOOLEAN /\ IInv
  BY DEF Merge, HeapInv, BeforeOK, Refused
<1>2. IInv' /\ Untouched
  BY <1>1, SameKeeps
<1>3. /\ before' \in Snapshot /\ before'.dst = d /\ before'.src = s
      /\ before'.fields = fields /\ before'.elems = elems
      /\ before'.lists = Used /\ {d, s} \subseteq before'.msgs
  <2>1. /\ fields \in [Msg -> [Field -> Element \cup Repeated \cup {Unset}]]
        /\ elems \in [List -> Seq(Element)] /\ Used \subseteq List
    BY <1>1 DEF IInv, FieldsOK, ListsOK, Used
  <2>2. PICK b : b = [dst |-> d, src |-> s, fields |-> fields, elems |-> elems, lists |-> Used,
                      msgs |-> {d, s} \cup {m \in Msg : ~Unused(m)}]
    OBVIOUS
  <2>3. b \in Snapshot
    BY <2>1, <2>2 DEF Snapshot
  <2>4. before' = b
    BY <2>2 DEF Merge
  <2>5. /\ b.dst = d /\ b.src = s /\ b.fields = fields /\ b.elems = elems /\ b.lists = Used
        /\ b.msgs = {d, s} \cup {m \in Msg : ~Unused(m)}
    BY <2>2
  <2> QED BY <2>3, <2>4, <2>5
<1>4. before' # NoCall
  BY <1>3, SnapshotAssumption
<1>5. /\ fields' = fields /\ elems' = elems /\ frozen' = frozen
      /\ Used' = Used
  BY <1>1 DEF heap, Used
<1>6. BeforeOK'
  BY <1>3, <1>4, <1>5 DEF BeforeOK
<1>7. OnlyDestination'
  BY <1>3, <1>5 DEF OnlyDestination
<1>8. StackOK'
  <2>1. CASE Mutable(d) /\ stack' = <<Frame(d, <<s>>, Unset)>> /\ failed' = FALSE
    <3>1. PICK c : c = Frame(d, <<s>>, Unset)
      OBVIOUS
    <3>2. <<s>> \in Seq(Msg) /\ <<s>> # <<>>
      OBVIOUS
    <3>3. c \in Frames /\ c.to = d /\ c.sources = <<s>>
      BY <3>1, <3>2, FrameType DEF Frame
    <3>4. /\ c.sources # <<>> /\ c.to \notin frozen'
          /\ c.to = before'.dst /\ c.sources = <<before'.src>>
      BY <1>3, <1>5, <2>1, <3>2, <3>3 DEF Mutable
    <3>5. PICK t : t = <<c>>
      OBVIOUS
    <3>6. t \in Seq(Frames) /\ Len(t) = 1 /\ t[1] = c
      BY <3>3, <3>5
    <3>7. stack' = t
      BY <2>1, <3>1, <3>5
    <3>8. (\A i \in 1..Len(stack) : FrameOK(stack[i], i = Len(stack)))'
      <4>1. \A i \in 1..1 : i = 1
        OBVIOUS
      <4> QED BY <3>3, <3>4, <3>6, <3>7, <4>1 DEF FrameOK
    <3> QED BY <2>1, <3>6, <3>7, <3>8 DEF StackOK
  <2>2. CASE stack' = stack
    <3>1. stack' = <<>> /\ <<>> \in Seq(Frames) /\ Len(<<>>) = 0 /\ \A i \in 1..0 : FALSE
      BY <1>1, <2>2
    <3> QED BY <3>1 DEF StackOK
  <2> QED BY <2>1, <2>2 DEF Merge
<1>9. (steps \in 0..MaxSteps)'
  BY <1>1 DEF HeapInv
<1> QED BY <1>2, <1>4, <1>6, <1>7, <1>8, <1>9 DEF HeapInv

(* What it does before. *)
LEMMA ProgramKeeps ==
  ASSUME HeapInv, Program
  PROVE  HeapInv' /\ Untouched
<1>1. /\ before = NoCall /\ before' = NoCall /\ stack = <<>> /\ stack' = <<>>
      /\ IInv /\ steps' = steps + 1 /\ steps < MaxSteps /\ steps \in 0..MaxSteps
  BY DEF Program, HeapInv, BeforeOK
<1>2. IInv' /\ Untouched
  <2>1. CASE Next
    BY <1>1, <2>1, StepGood
  <2>2. CASE \E m \in Msg : SetDefaults(m)
    <3>1. PICK m \in Msg : SetDefaults(m)
      BY <2>2
    <3>2. Good
      BY <1>1, <3>1, SetDefaultsGood
    <3>3. UNCHANGED frozen /\ failed' \in BOOLEAN
      BY <3>1 DEF SetDefaults
    <3> QED BY <1>1, <3>2, <3>3, GoodKeeps
  <2> QED BY <2>1, <2>2 DEF Program
<1>3. StackOK'
  <2>1. <<>> \in Seq(Frames) /\ Len(<<>>) = 0 /\ \A i \in 1..0 : FALSE
    OBVIOUS
  <2> QED BY <1>1, <2>1 DEF StackOK
<1>4. BeforeOK' /\ OnlyDestination'
  BY <1>1 DEF BeforeOK, OnlyDestination
<1>5. steps' \in 0..MaxSteps
  BY <1>1, DefaultAssumption
<1> QED BY <1>2, <1>3, <1>4, <1>5 DEF HeapInv

LEMMA MergeInitGood == MergeInit => HeapInv
<1> SUFFICES ASSUME MergeInit PROVE HeapInv
  OBVIOUS
<1>1. IInv /\ stack = <<>> /\ before = NoCall /\ steps = 0
  BY InitGood DEF MergeInit
<1>2. <<>> \in Seq(Frames) /\ Len(<<>>) = 0 /\ \A i \in 1..0 : FALSE
  OBVIOUS
<1>3. 0 \in 0..MaxSteps
  BY DefaultAssumption
<1> QED BY <1>1, <1>2, <1>3 DEF HeapInv, StackOK, BeforeOK, OnlyDestination

(* Every step keeps the invariant and writes to no frozen object. *)
LEMMA MergeNextKeeps ==
  ASSUME HeapInv, [MergeNext]_mergeVars
  PROVE  HeapInv' /\ Untouched
<1>1. CASE UNCHANGED mergeVars
  <2>1. UNCHANGED <<heap, failed, stack, before, steps>>
    BY <1>1 DEF mergeVars, heap
  <2>2. IInv' /\ Untouched
    BY <2>1, SameKeeps DEF HeapInv, IInv
  <2>3. /\ fields' = fields /\ elems' = elems /\ frozen' = frozen /\ Used' = Used
    BY <2>1 DEF heap, Used
  <2>4. StackOK'
    BY <2>1, <2>3 DEF HeapInv, StackOK, FrameOK
  <2>5. BeforeOK' /\ OnlyDestination' /\ (steps \in 0..MaxSteps)'
    BY <2>1, <2>3 DEF HeapInv, BeforeOK, OnlyDestination
  <2> QED BY <2>2, <2>4, <2>5 DEF HeapInv
<1>2. CASE MergeNext
  BY <1>2, CallKeeps, ProgramKeeps, MergeStepKeeps DEF MergeNext
<1> QED BY <1>1, <1>2

-----------------------------------------------------------------------------
(* The theorems about the heap.                                            *)

(* The inductive invariant holds in every reachable state. *)
THEOREM MergeInductive == MergeSpec => []HeapInv
<1>1. HeapInv /\ [MergeNext]_mergeVars => HeapInv'
  BY MergeNextKeeps
<1> QED BY <1>1, MergeInitGood, PTL DEF MergeSpec

(* proto.merge and proto.set_defaults keep every value of its sort, and a  *)
(* call of Merge in progress never has a frozen destination.               *)
THEOREM MergeTypeCorrect == MergeSpec => []MergeTypeOK
<1>1. HeapInv => MergeTypeOK
  <2> SUFFICES ASSUME HeapInv PROVE MergeTypeOK
    OBVIOUS
  <2>1. TypeOK
    BY TypeFromInv DEF HeapInv
  <2>2. stack \in Seq(Frames) /\ DOMAIN stack = 1..Len(stack)
    BY DEF HeapInv, StackOK
  <2>3. \A i \in DOMAIN stack : stack[i].sources # <<>> /\ stack[i].to \notin frozen
    BY <2>2 DEF HeapInv, StackOK, FrameOK
  <2> QED BY <2>1, <2>2, <2>3 DEF MergeTypeOK, HeapInv
<1> QED BY <1>1, MergeInductive, PTL

(* proto.merge writes to no message but its destination, and to no list,   *)
(* of those that the program had, through however many levels of children  *)
(* the merge descends and whatever they share.                             *)
THEOREM MergeWritesOnlyDestination == MergeSpec => []OnlyDestination
<1>1. HeapInv => OnlyDestination
  BY DEF HeapInv
<1> QED BY <1>1, MergeInductive, PTL

(* A merge, like an assignment, gives a field a value that does not fit    *)
(* only through a list that is also bare or typed for a wider field.       *)
THEOREM MergeConforms == MergeSpec => []ConformUnlessBypassed
<1>1. HeapInv => ConformUnlessBypassed
  BY ConformFromInv DEF HeapInv
<1> QED BY <1>1, MergeInductive, PTL

(* No merge and no default is written to a frozen message or list, or to   *)
(* one that it refers to.                                                  *)
THEOREM MergeWritesNothingFrozen == MergeSpec => FrozenImmutable
<1> DEFINE Kept == /\ frozen \subseteq frozen'
                   /\ \A m \in Visible \cap Msg : fields'[m] = fields[m]
                   /\ \A l \in Visible \cap List : elems'[l] = elems[l]
<1>1. ASSUME HeapInv, [MergeNext]_mergeVars
      PROVE  [Kept]_vars
  <2>1. Untouched \/ UNCHANGED mergeVars
    BY <1>1, MergeNextKeeps
  <2>2. Visible = frozen
    BY <1>1, VisibleFrozen DEF HeapInv, IInv
  <2> QED BY <2>1, <2>2 DEF Untouched, vars, mergeVars
<1> HIDE DEF Kept
<1>2. MergeSpec => [][Kept]_vars
  BY <1>1, MergeInductive, PTL DEF MergeSpec
<1> QED BY <1>2 DEF FrozenImmutable, Kept

(* set_defaults sets what is unset outside the oneof, and of the oneof the *)
(* last member that has a default, in the order of names: to that default, *)
(* unless it is the only one and was set.                                  *)
THEOREM DefaultsAreExact == MergeSpec => DefaultsExact
<1> DEFINE Left ==
      \A m \in Msg : before' = NoCall /\ SetDefaults(m) =>
        /\ \A f \in Field \ Oneof :
             fields'[m][f] = IF fields[m][f] = Unset THEN Default[f] ELSE fields[m][f]
        /\ \A f \in Oneof :
             fields'[m][f] = OneofAfter(Oneof \cap HasDefault, fields[m][f], f)
<1>1. HeapInv => Left
  <2> SUFFICES ASSUME HeapInv, NEW m \in Msg, SetDefaults(m)
               PROVE  /\ \A f \in Field \ Oneof :
                           fields'[m][f] = IF fields[m][f] = Unset THEN Default[f]
                                                                   ELSE fields[m][f]
                      /\ \A f \in Oneof :
                           fields'[m][f] = OneofAfter(Oneof \cap HasDefault, fields[m][f], f)
    OBVIOUS
  <2>1. IInv
    BY DEF HeapInv
  <2> QED BY <2>1, DefaultsLeft
<1>2. HeapInv /\ [MergeNext]_mergeVars => [Left]_mergeVars
  BY <1>1
<1>3. DefaultsExact <=> [][Left]_mergeVars
  BY DEF DefaultsExact
<1> HIDE DEF Left
<1> QED BY <1>2, <1>3, MergeInductive, PTL DEF MergeSpec

-----------------------------------------------------------------------------
(* Whether a merge fails.                                                  *)

(* The values of a field in the two messages when proto.merge was called,  *)
(* and whether they have different types.                                  *)
Was(f) == before.fields[before.dst][f]
Given(f) == before.fields[before.src][f]
Stuck(f) == Unmergeable(Was(f), Given(f))

(* These were values of fields. *)
RecordedOK ==
  before # NoCall =>
    \A m \in Msg :
      /\ MapOK(before.fields[m])
      /\ \A f \in ListField :
           before.fields[m][f] # Unset => before.fields[m][f].list \in before.lists

(* The program's call has still to meet fields that the source had, and of *)
(* which the destination has what it had; those that it has met could be   *)
(* merged, and so can the one for which a call is in progress.  In a merge *)
(* of a message with itself a member of the oneof may be met twice.        *)
Outermost == stack[Len(stack)]
CalledFor == stack[Len(stack) - 1].field

RangeOK ==
  stack # <<>> =>
    /\ \A f \in Outermost.todo :
         /\ Given(f) # Unset
         /\ f \notin Oneof \/ before.dst # before.src => fields[before.dst][f] = Was(f)
    /\ \A f \in Field \ Outermost.todo : Given(f) # Unset => ~Stuck(f)
    /\ Len(stack) > 1 => CalledFor \in Outermost.todo /\ ~Stuck(CalledFor)

OutcomeInv == HeapInv /\ RecordedOK /\ RangeOK /\ OutcomeDetermined

(* What was recorded of one field. *)
LEMMA RecordedOf ==
  ASSUME RecordedOK, HeapInv, before # NoCall, NEW m \in Msg, NEW f \in Field
  PROVE  /\ f \notin ListField => before.fields[m][f] \in Element \cup {Unset}
         /\ f \in ListField =>
              before.fields[m][f] \in {Unset} \cup {r \in reps : r.list \in Used}
<1>1. before.lists \subseteq Used
  BY DEF HeapInv, BeforeOK
<1>2. /\ MapOK(before.fields[m])
      /\ f \in ListField /\ before.fields[m][f] # Unset =>
           before.fields[m][f].list \in before.lists
  BY DEF RecordedOK
<1> QED BY <1>1, <1>2 DEF MapOK

LEMMA Recorded ==
  ASSUME RecordedOK, HeapInv, before # NoCall, NEW f \in Field
  PROVE  /\ f \notin ListField => {Was(f), Given(f)} \subseteq Element \cup {Unset}
         /\ f \in ListField =>
              {Was(f), Given(f)} \subseteq {Unset} \cup {r \in reps : r.list \in Used}
<1>1. before.dst \in Msg /\ before.src \in Msg
  BY DEF HeapInv, BeforeOK, Snapshot
<1> QED BY <1>1, RecordedOf DEF Was, Given

(* What mergeField says of two values that are no lists depends on their   *)
(* types alone; a value can be merged with itself.                         *)
LEMMA SingularTypes ==
  ASSUME IInv, NEW v \in Element \cup {Unset}, NEW w \in Element \cup {Unset}
  PROVE  /\ Unmergeable(v, w) <=> /\ v # Unset
                                  /\ ~({v, w} \subseteq Msg)
                                  /\ ~({v, w} \subseteq Scalar /\ Type[v] = Type[w])
         /\ ~Unmergeable(v, v)
<1>1. v \notin reps /\ w \notin reps
  BY SortFacts DEF IInv, ListsOK
<1> QED BY <1>1, SortFacts DEF Unmergeable, SameType

(* Two values that could not be merged still cannot, and the other way     *)
(* round.                                                                  *)
LEMMA UnmergeableStays ==
  ASSUME IInv, IInv', reps \subseteq reps', \A l \in Used : elems'[l] = elems[l],
         NEW v \in {Unset} \cup Element \cup {r \in reps : r.list \in Used},
         NEW w \in {Unset} \cup Element \cup {r \in reps : r.list \in Used}
  PROVE  Unmergeable(v, w)' <=> Unmergeable(v, w)
<1>1. reps \subseteq Repeated /\ reps' \subseteq Repeated
  BY DEF IInv, ListsOK
<1>2. (v \in reps <=> v \in reps') /\ (w \in reps <=> w \in reps')
  BY <1>1, SortFacts
<1>3. {v, w} \subseteq reps => elems'[v.list] = elems[v.list] /\ elems'[w.list] = elems[w.list]
  <2>1. \A x \in reps : x.list \in Used
    BY DEF Used
  <2> QED BY <2>1
<1>4. Unmergeable(v, w)' <=>
        \/ v # Unset /\ ~SameType(v, w)'
        \/ /\ {v, w} \subseteq reps'
           /\ ~(ToSet(elems'[v.list] \o elems'[w.list]) \subseteq Fits[v.desc])
  BY DEF Unmergeable, SameType
<1>5. SameType(v, w)' <=> SameType(v, w)
  BY <1>2 DEF SameType
<1> QED BY <1>2, <1>3, <1>4, <1>5 DEF Unmergeable

LEMMA StuckStays ==
  ASSUME HeapInv, RecordedOK, before # NoCall, UNCHANGED before, IInv', reps \subseteq reps',
         \A l \in Used : elems'[l] = elems[l], NEW f \in Field
  PROVE  Stuck(f)' <=> Stuck(f)
<1>1. PICK v, w : v = Was(f) /\ w = Given(f)
  OBVIOUS
<1>2. {v, w} \subseteq {Unset} \cup Element \cup {r \in reps : r.list \in Used}
  BY <1>1, Recorded
<1>3. Was(f)' = v /\ Given(f)' = w
  BY <1>1 DEF Was, Given
<1>4. Unmergeable(v, w)' <=> Unmergeable(v, w)
  BY <1>2, UnmergeableStays DEF HeapInv
<1>5. Stuck(f) <=> Unmergeable(v, w)
  BY <1>1 DEF Stuck
<1>6. Stuck(f)' <=> Unmergeable(v, w)'
  BY <1>3 DEF Stuck, Unmergeable, SameType
<1> QED BY <1>4, <1>5, <1>6

(* What was recorded stays what it was. *)
LEMMA RecordedStays ==
  ASSUME RecordedOK, UNCHANGED before, reps \subseteq reps'
  PROVE  RecordedOK'
BY DEF RecordedOK, MapOK

(* What the innermost call finds, if it is the program's. *)
LEMMA Judged ==
  ASSUME HeapInv, RecordedOK, RangeOK, Len(stack) = 1, NEW f \in Top.todo
  PROVE  Stuck(f) <=> Unmergeable(Old(f), New(f))
<1>1. stack # <<>>
  <2>1. Len(<<>>) # 1
    OBVIOUS
  <2> QED BY <2>1
<1>2. /\ Top = stack[1] /\ Top.todo \subseteq Field /\ FrameOK(stack[1], 1 = Len(stack))
      /\ before \in Snapshot /\ before # NoCall
  <2>1. 1 \in 1..Len(stack)
    OBVIOUS
  <2> QED BY <1>1, <2>1, TopFacts
<1>3. Top.to = before.dst /\ Top.sources = <<before.src>> /\ Outermost = Top
  BY <1>2 DEF FrameOK, Outermost
<1>4. Old(f) = fields[before.dst][f] /\ New(f) = fields[before.src][f]
  BY <1>3 DEF Old, New
<1>5. before.dst \in Msg /\ before.src \in Msg
      /\ before.dst \in before.msgs /\ before.src \in before.msgs
  BY <1>2 DEF Snapshot, HeapInv, BeforeOK
<1>6. CASE f \notin Oneof \/ before.dst # before.src
  <2>1. Old(f) = Was(f)
    BY <1>1, <1>3, <1>4, <1>6 DEF RangeOK
  <2>2. New(f) = Given(f)
    <3>1. CASE before.dst # before.src
      BY <1>2, <1>4, <1>5, <3>1 DEF HeapInv, OnlyDestination, Given
    <3>2. CASE before.dst = before.src
      BY <1>4, <2>1, <3>2 DEF Was, Given
    <3> QED BY <3>1, <3>2
  <2> QED BY <2>1, <2>2 DEF Stuck
<1>7. CASE f \in Oneof /\ before.dst = before.src
  <2>1. f \in Field /\ f \notin ListField
    BY <1>2, <1>7, SortFacts
  <2>2. Old(f) = New(f) /\ Old(f) \in Element \cup {Unset}
    BY <1>4, <1>5, <1>7, <2>1 DEF HeapInv, IInv, FieldsOK
  <2>3. Was(f) = Given(f) /\ Was(f) \in Element \cup {Unset}
    BY <1>2, <1>7, <2>1, Recorded DEF Was, Given
  <2> QED BY <2>2, <2>3, SingularTypes DEF HeapInv, Stuck
<1> QED BY <1>6, <1>7

(* A step in a call made for a field. *)
LEMMA OuterKept ==
  ASSUME HeapInv, HeapInv', RecordedOK, RangeOK, UNCHANGED before, reps \subseteq reps',
         Len(stack) > 1, Len(stack') > 1,
         (Outermost.todo)' = Outermost.todo, CalledFor' = CalledFor,
         fields'[before.dst] = fields[before.dst],
         \A l \in Used : elems'[l] = elems[l]
  PROVE  RecordedOK' /\ RangeOK' /\ stack' # <<>>
<1>1. stack # <<>> /\ before # NoCall
  BY DEF HeapInv, StackOK, BeforeOK
<1>2. stack' # <<>>
  BY DEF HeapInv, StackOK
<1>3. \A f \in Field : Stuck(f)' <=> Stuck(f)
  BY <1>1, StuckStays DEF HeapInv
<1>4. Outermost.todo \subseteq Field
  <2>1. Len(stack) \in Nat \ {0} /\ \A i \in 1..Len(stack) : FrameOK(stack[i], i = Len(stack))
    BY <1>1, TopFacts
  <2>2. FrameOK(Outermost, Len(stack) = Len(stack))
    BY <2>1 DEF Outermost
  <2> QED BY <2>2 DEF FrameOK, Frames
<1>5. RecordedOK'
  BY RecordedStays
<1>6. \A f : Was(f)' = Was(f) /\ Given(f)' = Given(f)
  BY DEF Was, Given
<1>7. RangeOK'
  BY <1>1, <1>3, <1>4, <1>6 DEF RangeOK
<1> QED BY <1>2, <1>5, <1>7

(* The fields of the outermost call are fields. *)
LEMMA OuterFields ==
  ASSUME HeapInv, stack # <<>>
  PROVE  /\ Outermost.todo \subseteq Field
         /\ before \in Snapshot /\ before # NoCall
         /\ before.dst \in Msg /\ before.src \in Msg
<1>1. /\ Len(stack) \in Nat \ {0} /\ \A i \in 1..Len(stack) : FrameOK(stack[i], i = Len(stack))
      /\ before \in Snapshot /\ before # NoCall
  BY TopFacts
<1>2. FrameOK(Outermost, Len(stack) = Len(stack))
  BY <1>1 DEF Outermost
<1>3. Outermost \in Frames
  BY <1>2 DEF FrameOK
<1> QED BY <1>1, <1>3 DEF Frames, Snapshot

(* The program's call is through with a field, or will meet it again. *)
LEMMA OuterDone ==
  ASSUME HeapInv, HeapInv', RecordedOK, RangeOK, UNCHANGED before, reps \subseteq reps',
         stack # <<>>, Len(stack') = 1, NEW f \in Outermost.todo, ~Stuck(f),
         \/ stack'[1].todo = Outermost.todo \ {f}
         \/ stack'[1].todo = Outermost.todo /\ f \in Oneof /\ before.dst = before.src,
         \A g \in Field \ {f} : \/ fields'[before.dst][g] = fields[before.dst][g]
                                \/ {f, g} \subseteq Oneof,
         \A l \in Used : elems'[l] = elems[l]
  PROVE  RecordedOK' /\ RangeOK' /\ stack' # <<>>
<1>1. /\ Outermost.todo \subseteq Field /\ before # NoCall
  BY OuterFields
<1>2. stack' # <<>>
  <2>1. Len(<<>>) # 1
    OBVIOUS
  <2> QED BY <2>1
<1>3. \A g \in Field : Stuck(g)' <=> Stuck(g)
  BY <1>1, StuckStays DEF HeapInv
<1>4. RecordedOK'
  BY RecordedStays
<1>5. \A g : Was(g)' = Was(g) /\ Given(g)' = Given(g)
  BY DEF Was, Given
<1>6. Outermost' = stack'[1]
  BY DEF Outermost
<1>7. ASSUME NEW g \in stack'[1].todo
      PROVE  /\ Given(g) # Unset
             /\ g \notin Oneof \/ before.dst # before.src => fields'[before.dst][g] = Was(g)
  <2>1. g \in Outermost.todo /\ Given(g) # Unset /\ Given(f) # Unset
    BY DEF RangeOK
  <2>2. {f, g} \subseteq Oneof => f = g
    BY <1>1, <2>1, OuterFields DEF RecordedOK, MapOK, Given
  <2>3. SUFFICES ASSUME g \notin Oneof \/ before.dst # before.src
                 PROVE  fields'[before.dst][g] = Was(g)
    BY <2>1
  <2>4. g # f
    BY <2>3
  <2>5. fields'[before.dst][g] = fields[before.dst][g]
    BY <1>1, <2>1, <2>2, <2>4
  <2>6. fields[before.dst][g] = Was(g)
    BY <2>1, <2>3 DEF RangeOK
  <2> QED BY <2>5, <2>6
<1>8. \A g \in Field \ stack'[1].todo : Given(g) # Unset => ~Stuck(g)
  BY DEF RangeOK
<1>9. ~(Len(stack') > 1)
  OBVIOUS
<1>10. RangeOK'
  BY <1>3, <1>5, <1>6, <1>7, <1>8, <1>9 DEF RangeOK
<1> QED BY <1>2, <1>4, <1>10

(* While a merge is in progress its outcome is open. *)
LEMMA Open == ASSUME stack' # <<>> PROVE OutcomeDetermined'
BY DEF OutcomeDetermined, Ended

(* What a call that is through with a field leaves of the outermost. *)
LEMMA DoneOuter ==
  ASSUME HeapInv, stack # <<>>, NEW f, Done(f, stack)
  PROVE  /\ Len(stack) > 1 => /\ Len(stack') > 1
                              /\ (Outermost.todo)' = Outermost.todo
                              /\ CalledFor' = CalledFor
         /\ Len(stack) = 1 =>
              /\ Len(stack') = 1 /\ Outermost = Top
              /\ \/ stack'[1].todo = Outermost.todo \ {f}
                 \/ /\ stack'[1].todo = Outermost.todo /\ f \in Oneof
                    /\ before.dst = before.src
<1>1. /\ Len(stack) \in Nat \ {0} /\ Top = stack[1] /\ stack \in Seq(Frames)
      /\ \A i \in 1..Len(stack) : FrameOK(stack[i], i = Len(stack))
  BY TopFacts
<1>2. /\ Len(stack') = Len(stack)
      /\ \A i \in 2..Len(stack) : stack'[i] = stack[i]
      /\ stack'[1].field = stack[1].field
      /\ \/ stack'[1].todo = stack[1].todo \ {f}
         \/ /\ stack'[1].todo = stack[1].todo
            /\ f \in Oneof /\ stack[1].to = Head(stack[1].sources)
  BY <1>1, DoneFacts
<1>3. PICK n \in Nat \ {0} : n = Len(stack)
  BY <1>1
<1>4. CASE n > 1
  <2>1. n \in 2..n /\ (n - 1 = 1 \/ n - 1 \in 2..n)
    BY <1>3, <1>4
  <2>2. (Outermost.todo)' = Outermost.todo
    BY <1>2, <1>3, <2>1 DEF Outermost
  <2>3. CalledFor' = CalledFor
    BY <1>2, <1>3, <2>1 DEF CalledFor
  <2> QED BY <1>2, <1>3, <1>4, <2>2, <2>3
<1>5. CASE n = 1
  <2>1. Outermost = stack[1] /\ FrameOK(stack[1], TRUE)
    <3>1. 1 \in 1..Len(stack) /\ (1 = Len(stack)) = TRUE
      BY <1>3, <1>5
    <3> QED BY <1>1, <1>3, <1>5, <3>1 DEF Outermost
  <2>2. stack[1].to = before.dst /\ stack[1].sources = <<before.src>>
    BY <2>1 DEF FrameOK
  <2> QED BY <1>1, <1>2, <1>3, <1>5, <2>1, <2>2
<1>6. n > 1 \/ n = 1
  OBVIOUS
<1> QED BY <1>3, <1>4, <1>5, <1>6

(* A field of the innermost call that could be merged at once. *)
LEMMA FieldDone ==
  ASSUME HeapInv, HeapInv', RecordedOK, RangeOK, UNCHANGED before, reps \subseteq reps',
         stack # <<>>, NEW f \in Top.todo, Done(f, stack), ~Unmergeable(Old(f), New(f)),
         Len(stack) > 1 => fields'[before.dst] = fields[before.dst],
         Len(stack) = 1 =>
           \A g \in Field \ {f} : \/ fields'[before.dst][g] = fields[before.dst][g]
                                  \/ {f, g} \subseteq Oneof,
         \A l \in Used : elems'[l] = elems[l]
  PROVE  OutcomeInv'
<1>1. Len(stack) \in Nat \ {0}
  BY TopFacts
<1>2. CASE Len(stack) > 1
  <2>1. /\ Len(stack') > 1 /\ (Outermost.todo)' = Outermost.todo /\ CalledFor' = CalledFor
    BY <1>2, DoneOuter
  <2>2. RecordedOK' /\ RangeOK' /\ stack' # <<>>
    BY <1>2, <2>1, OuterKept
  <2> QED BY <2>2, Open DEF OutcomeInv
<1>3. CASE Len(stack) = 1
  <2>1. /\ Len(stack') = 1 /\ Outermost = Top
        /\ \/ stack'[1].todo = Outermost.todo \ {f}
           \/ stack'[1].todo = Outermost.todo /\ f \in Oneof /\ before.dst = before.src
    BY <1>3, DoneOuter
  <2>2. ~Stuck(f) /\ f \in Outermost.todo
    BY <1>3, <2>1, Judged
  <2>3. RecordedOK' /\ RangeOK' /\ stack' # <<>>
    BY <1>3, <2>1, <2>2, OuterDone
  <2> QED BY <2>3, Open DEF OutcomeInv
<1>4. Len(stack) > 1 \/ Len(stack) = 1
  <2>1. \A n \in Nat \ {0} : n > 1 \/ n = 1
    OBVIOUS
  <2> QED BY <1>1, <2>1, Zenon
<1> QED BY <1>2, <1>3, <1>4

(* The invariant of the outcome, action by action. *)
LEMMA ReplaceOutcome ==
  ASSUME OutcomeInv, stack # <<>>, NEW f \in Field, Replace(f)
  PROVE  OutcomeInv'
<1>1. HeapInv /\ RecordedOK /\ RangeOK /\ HeapInv'
  BY ReplaceKeeps DEF OutcomeInv
<1>2. /\ Len(stack) \in Nat \ {0} /\ Top = stack[1]
  BY <1>1, TopFacts
<1>3. 1 \in 1..Len(stack)
  BY <1>2
<1>4. /\ f \in Top.todo
      /\ Store(stack[1].to, f, New(f)) /\ Done(f, stack)
      /\ UNCHANGED <<elems, frozen, raw, reps, failed, before>>
  BY <1>2 DEF Replace
<1>5. /\ 1 # Len(stack) => fields'[before.dst] = fields[before.dst]
      /\ 1 = Len(stack) =>
           \A g \in Field \ {f} : \/ fields'[before.dst][g] = fields[before.dst][g]
                                  \/ {f, g} \subseteq Oneof
  BY <1>1, <1>3, <1>4, StoreGood
<1>6. ~Unmergeable(Old(f), New(f))
  <2>1. Unset \notin reps /\ \A v \in Scalar : v \notin reps
    BY <1>1, SortFacts DEF HeapInv, IInv, ListsOK
  <2> QED BY <2>1 DEF Replace, Unmergeable
<1>7. Len(stack) > 1 => 1 # Len(stack)
  <2>1. \A n \in Nat : n > 1 => 1 # n
    OBVIOUS
  <2> QED BY <1>2, <2>1, Zenon
<1> QED BY <1>1, <1>4, <1>5, <1>6, <1>7, FieldDone

LEMMA ConcatenateOutcome ==
  ASSUME OutcomeInv, stack # <<>>, NEW f \in ListField, NEW l \in List, Concatenate(f, l)
  PROVE  OutcomeInv'
<1>1. HeapInv /\ RecordedOK /\ RangeOK /\ HeapInv'
  BY ConcatenateKeeps DEF OutcomeInv
<1>2. /\ Len(stack) \in Nat \ {0} /\ Top = stack[1]
      /\ \A i \in 1..Len(stack) : FrameOK(stack[i], i = Len(stack))
  BY <1>1, TopFacts
<1>3. 1 \in 1..Len(stack)
  BY <1>2
<1>4. /\ Good
      /\ \A m \in Msg \ {Top.to} : fields'[m] = fields[m]
      /\ \A g \in Field \ {f} : fields'[Top.to][g] = fields[Top.to][g]
      /\ \A k \in Used : elems'[k] = elems[k]
  BY <1>1, ConcatenateGood
<1>5. f \in Top.todo /\ Done(f, stack) /\ UNCHANGED before /\ ~Unmergeable(Old(f), New(f))
  BY DEF Concatenate, Unmergeable, Both
<1>6. Len(stack) > 1 => fields'[before.dst] = fields[before.dst]
  <2>1. \A n \in Nat : n > 1 => 1 # n
    OBVIOUS
  <2>2. Len(stack) > 1 => 1 # Len(stack)
    BY <1>2, <2>1, Zenon
  <2>3. \A m \in Msg \ {stack[1].to} : fields'[m] = fields[m]
    BY <1>2, <1>4
  <2> QED BY <1>1, <1>3, <2>2, <2>3, WritesTo
<1>7. Len(stack) = 1 => \A g \in Field \ {f} : fields'[before.dst][g] = fields[before.dst][g]
  <2>1. Len(stack) = 1 => Top.to = before.dst
    BY <1>2, <1>3 DEF FrameOK
  <2> QED BY <1>4, <2>1
<1>8. reps \subseteq reps'
  BY <1>4 DEF Good
<1> QED BY <1>1, <1>4, <1>5, <1>6, <1>7, <1>8, FieldDone

(* Two messages can be merged, whatever becomes of their fields. *)
LEMMA DescendOutcome ==
  ASSUME OutcomeInv, stack # <<>>, NEW f \in Field, NEW n \in Msg, Descend(f, n)
  PROVE  OutcomeInv'
<1>1. HeapInv /\ RecordedOK /\ RangeOK /\ HeapInv'
  BY DescendKeeps DEF OutcomeInv
<1>2. /\ Len(stack) \in Nat \ {0} /\ Top = stack[1] /\ stack \in Seq(Frames)
  BY <1>1, TopFacts
<1>3. PICK c \in Frames : c = Frame(n, <<Old(f), New(f)>>, f) /\ c.field = f
  <2>1. Frame(n, <<Old(f), New(f)>>, f) \in Frames
    BY <1>1, FieldsOfMessages DEF Descend
  <2> QED BY <2>1 DEF Frame
<1>4. /\ stack' = <<c>> \o stack /\ UNCHANGED <<heap, before>> /\ f \in Top.todo
      /\ {Old(f), New(f)} \subseteq Msg
  BY <1>3 DEF Descend
<1>5. /\ Len(stack') = Len(stack) + 1 /\ stack'[1] = c
      /\ \A i \in 2..Len(stack') : stack'[i] = stack[i - 1]
  BY <1>2, <1>4, Pushed
<1>6. PICK k \in Nat \ {0} : k = Len(stack)
  BY <1>2
<1>7. k + 1 \in 2..k + 1 /\ k + 1 - 1 = k
  OBVIOUS
<1>8. Outermost' = Outermost
  BY <1>5, <1>6, <1>7 DEF Outermost
<1>9. fields' = fields /\ reps' = reps /\ elems' = elems
  BY <1>4 DEF heap
<1>10. stack' # <<>> /\ before # NoCall
  <2>1. Len(stack') # 0
    BY <1>5, <1>6
  <2> QED BY <1>1, <2>1, TopFacts
<1>11. CASE k > 1
  <2>1. k \in 2..k + 1
    BY <1>11
  <2>2. CalledFor' = CalledFor
    BY <1>5, <1>6, <1>7, <2>1 DEF CalledFor
  <2>3. Len(stack) > 1 /\ Len(stack') > 1
    BY <1>5, <1>6, <1>11
  <2>4. RecordedOK' /\ RangeOK'
    BY <1>1, <1>4, <1>8, <1>9, <2>2, <2>3, OuterKept
  <2> QED BY <1>1, <1>10, <2>4, Open DEF OutcomeInv
<1>12. CASE k = 1
  <2>1. Outermost = Top /\ CalledFor' = f
    BY <1>2, <1>3, <1>5, <1>6, <1>12 DEF Outermost, CalledFor
  <2>2. ~Unmergeable(Old(f), New(f))
    <3>1. Old(f) \notin reps
      BY <1>1, <1>4, SortFacts DEF HeapInv, IInv, ListsOK
    <3> QED BY <1>4, <3>1 DEF Unmergeable, SameType
  <2>3. ~Stuck(f)
    BY <1>1, <1>4, <1>6, <1>12, <2>2, Judged
  <2>4. Outermost.todo \subseteq Field
    BY <1>1, OuterFields
  <2>5. \A g \in Field : Stuck(g)' <=> Stuck(g)
    BY <1>1, <1>4, <1>9, <1>10, StuckStays DEF HeapInv
  <2>6. \A g : Was(g)' = Was(g) /\ Given(g)' = Given(g)
    BY <1>4 DEF Was, Given
  <2>7. RangeOK'
    BY <1>1, <1>4, <1>8, <1>9, <2>1, <2>3, <2>4, <2>5, <2>6 DEF RangeOK
  <2>8. RecordedOK'
    BY <1>1, <1>4, <1>9, RecordedStays
  <2> QED BY <1>1, <1>10, <2>7, <2>8, Open DEF OutcomeInv
<1> QED BY <1>11, <1>12

(* Calls of which the innermost went on keep what is known of the outermost*)
(* if that is another.                                                     *)
LEMMA OuterBelow ==
  ASSUME HeapInv, HeapInv', RecordedOK, RangeOK, UNCHANGED <<heap, before>>,
         Len(stack) > 1, NEW c \in Frames, FrameOK(c, 1 = Len(stack)), c.field = Top.field,
         stack' = <<c>> \o Tail(stack)
  PROVE  OutcomeInv'
<1>1. stack # <<>>
  BY DEF HeapInv, StackOK
<1>2. /\ Len(stack') = Len(stack) /\ stack'[1] = c
      /\ \A i \in 2..Len(stack) : stack'[i] = stack[i]
  BY <1>1, TopReplaced
<1>3. PICK k \in Nat \ {0} : k = Len(stack)
  BY <1>1, TopFacts
<1>4. k \in 2..k /\ (k - 1 = 1 \/ k - 1 \in 2..k)
  BY <1>3
<1>5. (Outermost.todo)' = Outermost.todo
  BY <1>2, <1>3, <1>4 DEF Outermost
<1>6. CalledFor' = CalledFor
  <2>1. Top = stack[1]
    BY <1>1, TopFacts
  <2> QED BY <1>2, <1>3, <1>4, <2>1 DEF CalledFor
<1>7. fields' = fields /\ reps' = reps /\ elems' = elems
  BY DEF heap
<1>8. RecordedOK' /\ RangeOK' /\ stack' # <<>>
  BY <1>2, <1>5, <1>6, <1>7, OuterKept
<1> QED BY <1>8, Open DEF OutcomeInv

LEMMA MergeSourceOutcome ==
  ASSUME OutcomeInv, stack # <<>>, MergeSource
  PROVE  OutcomeInv'
<1>1. HeapInv /\ RecordedOK /\ RangeOK /\ HeapInv'
  BY MergeSourceKeeps DEF OutcomeInv
<1>2. PICK c \in Frames : stack' = <<c>> \o Tail(stack) /\ FrameOK(c, 1 = Len(stack))
                          /\ c.field = Top.field
  BY <1>1, NextSource
<1>3. Len(stack) > 1 /\ UNCHANGED <<heap, before>>
  BY <1>1, NextSource DEF MergeSource
<1> QED BY <1>1, <1>2, <1>3, OuterBelow

(* The merge of a child returns to a call that was made for a field too,   *)
(* or to the program's.                                                    *)
LEMMA FieldMergedOutcome ==
  ASSUME OutcomeInv, stack # <<>>, FieldMerged
  PROVE  OutcomeInv'
<1>1. HeapInv /\ RecordedOK /\ RangeOK /\ HeapInv'
  BY FieldMergedKeeps DEF OutcomeInv
<1>2. /\ Len(stack) \in Nat \ {0} /\ Top = stack[1] /\ before # NoCall
      /\ \A i \in 1..Len(stack) : FrameOK(stack[i], i = Len(stack))
  BY <1>1, TopFacts
<1>3. /\ Len(stack) > 1 /\ Store(stack[2].to, Top.field, Top.to)
      /\ Done(Top.field, Tail(stack))
      /\ UNCHANGED <<elems, frozen, raw, reps, failed, before>>
  BY DEF FieldMerged
<1>4. PICK k \in Nat \ {0, 1} : k = Len(stack)
  <2>1. \A n \in Nat : n > 1 => n \in Nat \ {0, 1}
    OBVIOUS
  <2>2. Len(stack) \in Nat /\ Len(stack) > 1
    BY <1>2, <1>3
  <2> QED BY <2>1, <2>2, Zenon
<1>5. 1 \in 1..k /\ 2 \in 1..k /\ 1 # k /\ k - 1 \in 1..k - 1 /\ k - 1 + 1 = k
  OBVIOUS
<1>6. PICK f \in Field : f = Top.field
  BY <1>2, <1>4, <1>5 DEF FrameOK
<1>7. /\ 2 # Len(stack) => fields'[before.dst] = fields[before.dst]
      /\ 2 = Len(stack) =>
           \A g \in Field \ {f} : \/ fields'[before.dst][g] = fields[before.dst][g]
                                  \/ {f, g} \subseteq Oneof
  <2>1. 2 \in 1..Len(stack)
    BY <1>4, <1>5
  <2>2. Store(stack[2].to, f, Top.to) /\ UNCHANGED <<elems, frozen, raw, reps, failed>>
    BY <1>3, <1>6
  <2> QED BY <1>1, <2>1, <2>2, StoreGood
<1>8. PICK t : t = Tail(stack)
  OBVIOUS
<1>9. /\ t \in Seq(Frames) /\ t # <<>> /\ Len(t) = k - 1
      /\ \A i \in 1..k - 1 : t[i] = stack[i + 1]
  BY <1>1, <1>3, <1>4, <1>8, CallersOK
<1>10. /\ Len(stack') = k - 1
       /\ \A i \in 2..k - 1 : stack'[i] = t[i]
       /\ stack'[1].field = t[1].field
       /\ \/ stack'[1].todo = t[1].todo \ {f}
          \/ /\ stack'[1].todo = t[1].todo
             /\ f \in Oneof /\ t[1].to = Head(t[1].sources)
  <2>1. Done(f, t)
    BY <1>3, <1>6, <1>8
  <2> QED BY <1>9, <2>1, DoneFacts
<1>11. Outermost = t[k - 1]
  BY <1>4, <1>5, <1>9 DEF Outermost
<1>12. CASE k = 2
  <2>1. Outermost = t[1] /\ Len(stack') = 1
    BY <1>10, <1>11, <1>12
  <2>2. FrameOK(Outermost, TRUE)
    BY <1>2, <1>4, <1>5, <1>12 DEF Outermost
  <2>3. Outermost.to = before.dst /\ Outermost.sources = <<before.src>>
    BY <2>2 DEF FrameOK
  <2>4. CalledFor = f
    BY <1>2, <1>4, <1>6, <1>12 DEF CalledFor
  <2>5. f \in Outermost.todo /\ ~Stuck(f)
    BY <1>1, <1>3, <2>4 DEF RangeOK
  <2>6. \/ stack'[1].todo = Outermost.todo \ {f}
        \/ stack'[1].todo = Outermost.todo /\ f \in Oneof /\ before.dst = before.src
    BY <1>10, <2>1, <2>3
  <2>7. /\ UNCHANGED before /\ reps' = reps /\ elems' = elems
        /\ \A g \in Field \ {f} : \/ fields'[before.dst][g] = fields[before.dst][g]
                                  \/ {f, g} \subseteq Oneof
    BY <1>3, <1>4, <1>7, <1>12
  <2>8. RecordedOK' /\ RangeOK' /\ stack' # <<>>
    BY <1>1, <2>1, <2>5, <2>6, <2>7, OuterDone
  <2> QED BY <1>1, <2>8, Open DEF OutcomeInv
<1>13. CASE k # 2
  <2>1. k - 1 \in 2..k - 1 /\ k - 2 \in 1..k - 1 /\ (k - 2 = 1 \/ k - 2 \in 2..k - 1)
        /\ k - 2 + 1 = k - 1 /\ k - 1 - 1 = k - 2 /\ k - 1 > 1
    BY <1>13
  <2>2. (Outermost.todo)' = Outermost.todo
    BY <1>10, <1>11, <2>1 DEF Outermost
  <2>3. CalledFor = t[k - 2].field
    BY <1>4, <1>9, <2>1 DEF CalledFor
  <2>4. CalledFor' = stack'[k - 2].field
    BY <1>10, <2>1 DEF CalledFor
  <2>5. CalledFor' = CalledFor
    BY <1>10, <2>1, <2>3, <2>4
  <2>6. Len(stack) > 1 /\ Len(stack') > 1
    BY <1>3, <1>10, <2>1
  <2>7. /\ UNCHANGED before /\ reps' = reps /\ elems' = elems
        /\ fields'[before.dst] = fields[before.dst]
    BY <1>3, <1>4, <1>7, <1>13
  <2>8. RecordedOK' /\ RangeOK' /\ stack' # <<>>
    BY <1>1, <2>2, <2>5, <2>6, <2>7, OuterKept
  <2> QED BY <1>1, <2>8, Open DEF OutcomeInv
<1> QED BY <1>12, <1>13

(* The merge is over: what was found of the fields is what was recorded.   *)
LEMMA CallEnds ==
  ASSUME HeapInv, HeapInv', RecordedOK, RangeOK, stack # <<>>, stack' = <<>>,
         UNCHANGED <<heap, before>>,
         failed' <=> \E f \in Field : Given(f) # Unset /\ Stuck(f)
  PROVE  OutcomeInv'
<1>1. before # NoCall /\ fields' = fields /\ reps' = reps /\ elems' = elems /\ frozen' = frozen
  BY TopFacts DEF heap
<1>2. RecordedOK' /\ RangeOK'
  BY <1>1, RecordedStays DEF RangeOK
<1>3. \A f \in Field : Stuck(f)' <=> Stuck(f)
  BY <1>1, StuckStays DEF HeapInv
<1>4. before.dst \notin frozen
  <2>1. Len(stack) \in Nat \ {0} /\ \A i \in 1..Len(stack) : FrameOK(stack[i], i = Len(stack))
    BY TopFacts
  <2>2. FrameOK(Outermost, Len(stack) = Len(stack))
    BY <2>1 DEF Outermost
  <2> QED BY <2>2 DEF FrameOK
<1>5. \A f : Given(f)' = Given(f)
  BY DEF Given
<1>6. (failed <=> \/ before.dst \in frozen
                  \/ \E f \in Field : Given(f) # Unset /\ Stuck(f))'
  BY <1>1, <1>3, <1>4, <1>5
<1>7. OutcomeDetermined'
  BY <1>6 DEF OutcomeDetermined, Given, Stuck, Was
<1> QED BY <1>2, <1>7 DEF OutcomeInv

LEMMA FieldFailsOutcome ==
  ASSUME OutcomeInv, stack # <<>>, NEW f \in Field, FieldFails(f)
  PROVE  OutcomeInv'
<1>1. HeapInv /\ RecordedOK /\ RangeOK /\ HeapInv'
  BY FieldFailsKeeps DEF OutcomeInv
<1>2. /\ Len(stack) \in Nat \ {0} /\ Top = stack[1] /\ Top \in Frames
      /\ \A i \in 1..Len(stack) : FrameOK(stack[i], i = Len(stack))
  BY <1>1, TopFacts
<1>3. f \in Top.todo /\ Unmergeable(Old(f), New(f)) /\ UNCHANGED <<heap, before>>
  BY DEF FieldFails
<1>4. CASE Len(stack) = 1
  <2>1. stack' = <<>> /\ failed' = TRUE
    BY <1>4 DEF FieldFails
  <2>2. Stuck(f)
    BY <1>1, <1>3, <1>4, Judged
  <2>3. Outermost = Top
    BY <1>2, <1>4 DEF Outermost
  <2>4. Given(f) # Unset
    BY <1>1, <1>3, <2>3 DEF RangeOK
  <2> QED BY <1>1, <1>3, <2>1, <2>2, <2>4, CallEnds
<1>5. CASE Len(stack) # 1
  <2>1. PICK c : c = [Top EXCEPT !.todo = {}]
    OBVIOUS
  <2>2. stack' = <<c>> \o Tail(stack)
    BY <1>5, <2>1 DEF FieldFails
  <2>3. c \in Frames /\ c.to = Top.to /\ c.sources = Top.sources /\ c.field = Top.field
    BY <1>2, <2>1 DEF Frames
  <2>4. FrameOK(Top, 1 = Len(stack))
    <3>1. 1 \in 1..Len(stack)
      BY <1>2
    <3> QED BY <1>2, <3>1
  <2>5. FrameOK(c, 1 = Len(stack))
    BY <2>3, <2>4 DEF FrameOK
  <2>6. Len(stack) > 1
    <3>1. \A n \in Nat \ {0} : n # 1 => n > 1
      OBVIOUS
    <3> QED BY <1>2, <1>5, <3>1, Zenon
  <2> QED BY <1>1, <1>3, <2>2, <2>3, <2>5, <2>6, OuterBelow
<1> QED BY <1>4, <1>5

LEMMA MergeReturnsOutcome ==
  ASSUME OutcomeInv, stack # <<>>, MergeReturns
  PROVE  OutcomeInv'
<1>1. HeapInv /\ RecordedOK /\ RangeOK /\ HeapInv'
  BY MergeReturnsKeeps DEF OutcomeInv
<1>2. Top.todo = {} /\ Len(stack) = 1 /\ stack' = <<>> /\ failed' = FALSE
      /\ UNCHANGED <<heap, before>>
  BY DEF MergeReturns
<1>3. Outermost = Top
  BY <1>1, <1>2, TopFacts DEF Outermost
<1>4. \A f \in Field : Given(f) # Unset => ~Stuck(f)
  BY <1>1, <1>2, <1>3 DEF RangeOK
<1> QED BY <1>1, <1>2, <1>4, CallEnds

LEMMA MergeStepOutcome ==
  ASSUME OutcomeInv, stack # <<>>, MergeStep
  PROVE  OutcomeInv'
BY ReplaceOutcome, FieldFailsOutcome, ConcatenateOutcome, DescendOutcome, MergeSourceOutcome,
   FieldMergedOutcome, MergeReturnsOutcome DEF MergeStep

(* The program calls proto.merge: it is refused at once if the destination *)
(* is frozen, else every field of the source is still to be met.           *)
LEMMA CallOutcome ==
  ASSUME OutcomeInv, NEW d \in Msg, NEW s \in Msg, Merge(d, s)
  PROVE  OutcomeInv'
<1>1. HeapInv /\ HeapInv' /\ IInv /\ before' # NoCall /\ stack = <<>>
  BY CallKeeps DEF OutcomeInv, HeapInv, BeforeOK, Merge
<1>2. /\ fields' = fields /\ elems' = elems /\ reps' = reps /\ frozen' = frozen
      /\ before'.dst = d /\ before'.src = s /\ before'.fields = fields /\ before'.lists = Used
  <2>1. UNCHANGED heap
    BY DEF Merge, Refused
  <2>2. PICK b : b = [dst |-> d, src |-> s, fields |-> fields, elems |-> elems, lists |-> Used,
                      msgs |-> {d, s} \cup {m \in Msg : ~Unused(m)}]
    OBVIOUS
  <2>3. before' = b
    BY <2>2 DEF Merge
  <2> QED BY <2>1, <2>2, <2>3 DEF heap
<1>3. RecordedOK'
  <2>1. ASSUME NEW m \in Msg
        PROVE  /\ MapOK(fields[m])
               /\ \A f \in ListField : fields[m][f] # Unset => fields[m][f].list \in Used
    <3>1. MapOK(fields[m])
      BY <1>1, MapsOK
    <3> QED BY <3>1, SortFacts DEF MapOK, Used
  <2> QED BY <1>2, <2>1 DEF RecordedOK, MapOK
<1>4. CASE Mutable(d) /\ stack' = <<Frame(d, <<s>>, Unset)>>
  <2>1. PICK c : c = Frame(d, <<s>>, Unset)
    OBVIOUS
  <2>2. c.todo = {f \in Field : fields[s][f] # Unset}
    BY <2>1 DEF Frame, Set
  <2>3. PICK t : t = <<c>>
    OBVIOUS
  <2>4. Len(t) = 1 /\ t[1] = c /\ t # <<>>
    BY <2>3
  <2>5. stack' = t
    BY <1>4, <2>1, <2>3
  <2>6. Outermost' = c
    BY <2>4, <2>5 DEF Outermost
  <2>7. \A f : Given(f)' = fields[s][f] /\ Was(f)' = fields[d][f]
    BY <1>2 DEF Given, Was
  <2>8. ~(Len(stack') > 1)
    BY <2>4, <2>5
  <2>9. RangeOK'
    BY <1>2, <2>2, <2>6, <2>7, <2>8 DEF RangeOK
  <2> QED BY <1>1, <1>3, <2>4, <2>5, <2>9, Open DEF OutcomeInv
<1>5. CASE ~Mutable(d) /\ Refused /\ stack' = stack
  <2>1. RangeOK'
    BY <1>1, <1>5 DEF RangeOK
  <2>2. OutcomeDetermined'
    BY <1>2, <1>5 DEF OutcomeDetermined, Mutable, Refused
  <2> QED BY <1>1, <1>3, <2>1, <2>2 DEF OutcomeInv
<1> QED BY <1>4, <1>5 DEF Merge

LEMMA OutcomeNext ==
  ASSUME OutcomeInv, [MergeNext]_mergeVars
  PROVE  OutcomeInv'
<1>1. HeapInv /\ HeapInv' /\ RecordedOK /\ RangeOK /\ OutcomeDetermined
  BY MergeNextKeeps DEF OutcomeInv
<1>2. CASE UNCHANGED mergeVars
  <2>1. /\ fields' = fields /\ elems' = elems /\ reps' = reps /\ frozen' = frozen
        /\ failed' = failed /\ stack' = stack /\ before' = before
    BY <1>2 DEF mergeVars
  <2>2. \A f : Was(f)' = Was(f) /\ Given(f)' = Given(f) /\ (Stuck(f)' <=> Stuck(f))
    BY <2>1 DEF Was, Given, Stuck, Unmergeable, SameType
  <2>3. RecordedOK'
    BY <1>1, <2>1, RecordedStays
  <2>4. RangeOK'
    BY <1>1, <2>1, <2>2 DEF RangeOK, Outermost, CalledFor
  <2>5. OutcomeDetermined <=> (Ended => (failed <=>
          before.dst \in frozen \/ \E f \in Field : Given(f) # Unset /\ Stuck(f)))
    BY DEF OutcomeDetermined, Given, Stuck, Was
  <2>6. OutcomeDetermined' <=> (Ended => (failed <=>
          before.dst \in frozen \/ \E f \in Field : Given(f) # Unset /\ Stuck(f)))'
    BY DEF OutcomeDetermined, Given, Stuck, Was
  <2>7. OutcomeDetermined'
    BY <1>1, <2>1, <2>2, <2>5, <2>6 DEF Ended
  <2> QED BY <1>1, <2>3, <2>4, <2>7 DEF OutcomeInv
<1>3. CASE Program
  <2>1. before' = NoCall
    BY <1>3 DEF Program
  <2>2. stack' = <<>>
    BY <1>1, <2>1 DEF HeapInv, BeforeOK
  <2> QED BY <1>1, <2>1, <2>2 DEF OutcomeInv, RecordedOK, RangeOK, OutcomeDetermined, Ended
<1>4. CASE MergeNext /\ ~Program
  BY <1>4, CallOutcome, MergeStepOutcome DEF MergeNext
<1> QED BY <1>2, <1>3, <1>4

LEMMA OutcomeInit == MergeInit => OutcomeInv
BY MergeInitGood DEF MergeInit, OutcomeInv, RecordedOK, RangeOK, OutcomeDetermined, Ended

(* In whatever order Go's map is ranged over, and whatever becomes of the  *)
(* children, proto.merge fails if and only if its destination is frozen or *)
(* a field of the two messages it was given cannot be merged.              *)
THEOREM MergeOutcomeDetermined == MergeSpec => []OutcomeDetermined
<1>1. OutcomeInv /\ [MergeNext]_mergeVars => OutcomeInv'
  BY OutcomeNext
<1>2. OutcomeInv => OutcomeDetermined
  BY DEF OutcomeInv
<1> QED BY <1>1, <1>2, OutcomeInit, PTL DEF MergeSpec

-----------------------------------------------------------------------------
(* What a merge makes, if its values are mergeable and the messages of its *)
(* arguments are some D without the destination.                           *)

Held(m, f) == before.fields[m][f]

Apart(D) ==
  /\ D \subseteq before.msgs \ {before.dst}
  /\ before.src \in D
  /\ \A m \in D \cup {before.dst}, f \in Field : Held(m, f) \in Msg => Held(m, f) \in D

(* R has the message made of each two messages: x is what the field f was  *)
(* made of v and w.                                                        *)
Joined(x, v, w, f, R) ==
  IF v = Unset THEN x = w
  ELSE IF f \in ListField
         THEN x \in reps /\ elems[x.list] = before.elems[v.list] \o before.elems[w.list]
  ELSE IF {v, w} \subseteq Msg THEN x \in Msg /\ <<x, v, w>> \in R
  ELSE x = w

(* A call has still to meet todo of the fields that it merges into p.      *)
FieldPartly(x, p, q, f, todo, R) ==
  IF q[f] = Unset
    THEN /\ f \notin todo
         /\ x = IF f \in Oneof /\ (\E g \in Oneof \ todo : q[g] # Unset) THEN Unset ELSE p[f]
    ELSE IF f \in todo THEN x = p[f] ELSE Joined(x, p[f], q[f], f, R)

Partly(n, p, q, todo, R) ==
  \A f \in Field : FieldPartly(fields[n][f], p, q, f, todo, R)

(* Whoever refers to a list knows that it is used. *)
LEMMA JoinedStays ==
  ASSUME reps \subseteq reps', \A l \in Used : elems'[l] = elems[l], UNCHANGED before,
         NEW x, NEW v, NEW w, NEW f, NEW R, NEW S, <<x, v, w>> \in R => <<x, v, w>> \in S,
         Joined(x, v, w, f, R)
  PROVE  Joined(x, v, w, f, S)'
<1>1. x \in reps => elems'[x.list] = elems[x.list]
  BY DEF Used
<1> QED BY <1>1 DEF Joined

LEMMA FieldPartlyStays ==
  ASSUME reps \subseteq reps', \A l \in Used : elems'[l] = elems[l], UNCHANGED before,
         NEW x, NEW p, NEW q, NEW f, NEW todo, NEW R, NEW S,
         \A v, w : <<x, v, w>> \in R => <<x, v, w>> \in S,
         FieldPartly(x, p, q, f, todo, R)
  PROVE  FieldPartly(x, p, q, f, todo, S)'
<1>1. Joined(x, p[f], q[f], f, R) => Joined(x, p[f], q[f], f, S)'
  BY JoinedStays
<1> QED BY <1>1 DEF FieldPartly

(* A call whose message a step leaves alone. *)
LEMMA PartlyStays ==
  ASSUME reps \subseteq reps', \A l \in Used : elems'[l] = elems[l], UNCHANGED before,
         NEW n, fields'[n] = fields[n], NEW p, NEW q, NEW todo, NEW R, NEW S,
         \A f \in Field : \A v, w : <<fields[n][f], v, w>> \in R => <<fields[n][f], v, w>> \in S,
         Partly(n, p, q, todo, R)
  PROVE  Partly(n, p, q, todo, S)'
<1>1. ASSUME NEW f \in Field PROVE FieldPartly(fields[n][f], p, q, f, todo, S)'
  <2>1. PICK x : x = fields[n][f]
    OBVIOUS
  <2>2. FieldPartly(x, p, q, f, todo, R) /\ \A v, w : <<x, v, w>> \in R => <<x, v, w>> \in S
    BY <2>1 DEF Partly
  <2>3. FieldPartly(x, p, q, f, todo, S)'
    BY <2>2, FieldPartlyStays
  <2> QED BY <2>1, <2>3 DEF FieldPartly, Joined
<1> QED BY <1>1 DEF Partly

(* A call that stores what it made of the field f. *)
LEMMA PartlyStored ==
  ASSUME reps \subseteq reps', \A l \in Used : elems'[l] = elems[l], UNCHANGED before,
         NEW n \in Msg, fields \in [Msg -> [Field -> Element \cup Repeated \cup {Unset}]],
         NEW p, NEW q, MapOK(q), NEW todo, NEW f \in todo \cap Field, NEW R, NEW S, R \subseteq S,
         Partly(n, p, q, todo, R),
         NEW x, Put(n, f, x), Joined(x, p[f], q[f], f, S)'
  PROVE  Partly(n, p, q, todo \ {f}, S)'
<1>1. \A g \in Field :
        fields'[n][g] = IF g = f THEN x ELSE IF {f, g} \subseteq Oneof THEN Unset ELSE fields[n][g]
  BY DEF Put
<1>2. q[f] # Unset
  BY DEF Partly, FieldPartly
<1>3. \A g \in Oneof : f \in Oneof /\ q[g] # Unset => g = f
  BY <1>2 DEF MapOK
<1>4. ASSUME NEW g \in Field PROVE FieldPartly(fields[n][g], p, q, g, todo \ {f}, S)'
  <2>1. FieldPartly(fields[n][g], p, q, g, todo, R)
    BY DEF Partly
  <2>2. CASE g = f
    BY <1>1, <1>2, <2>2 DEF FieldPartly
  <2>3. CASE g # f /\ {f, g} \subseteq Oneof
    <3>1. fields'[n][g] = Unset /\ q[g] = Unset
      BY <1>1, <1>3, <2>3
    <3>2. g \notin todo
      BY <2>1, <3>1 DEF FieldPartly
    <3>3. f \in Oneof \ (todo \ {f})
      BY <2>3
    <3> QED BY <1>2, <2>3, <3>1, <3>2, <3>3 DEF FieldPartly
  <2>4. CASE g # f /\ ~({f, g} \subseteq Oneof)
    <3>1. PICK y : y = fields[n][g] /\ y = fields'[n][g]
      BY <1>1, <2>4
    <3>2. FieldPartly(y, p, q, g, todo, S)'
      BY <2>1, <3>1, FieldPartlyStays
    <3>3. g \in todo \ {f} <=> g \in todo
      BY <2>4
    <3>4. g \in Oneof => \A h \in Oneof : h \in todo \ {f} <=> h \in todo
      BY <2>4
    <3>5. FieldPartly(y, p, q, g, todo \ {f}, S)'
      BY <3>2, <3>3, <3>4 DEF FieldPartly
    <3> QED BY <3>1, <3>5 DEF FieldPartly, Joined
  <2> QED BY <2>2, <2>3, <2>4
<1> QED BY <1>4 DEF Partly

(* The merges of two messages that are over, each in a message of its own. *)
Finished(D, R) ==
  \A n, a, b : <<n, a, b>> \in R =>
    /\ n \in Msg \ before.msgs /\ a \in D /\ b \in D
    /\ \A i \in 1..Len(stack) : stack[i].to # n
    /\ Partly(n, before.fields[a], before.fields[b], {}, R)

(* The call c merges b into what a was: it goes through a first if its     *)
(* message is a new one.                                                   *)
Blank == [f \in Field |-> Unset]

Merges(c, a, b, R) ==
  \/ c.sources = <<b>> /\ Partly(c.to, before.fields[a], before.fields[b], c.todo, R)
  \/ c.sources = <<a, b>> /\ Partly(c.to, Blank, before.fields[a], c.todo, R)

(* The calls in progress merge B[i] into A[i], and were made in the order  *)
(* in which these messages contain each other.                             *)
CalledBy(i, A, B, D) ==
  /\ A[i] \in D
  /\ stack[i].field \in stack[i + 1].todo
  /\ A[i] = Held(A[i + 1], stack[i].field)
  /\ B[i] = Held(B[i + 1], stack[i].field)

Calls(A, B, D, R) ==
  \A i \in 1..Len(stack) :
    /\ A[i] \in D \cup {before.dst} /\ B[i] \in D
    /\ Merges(stack[i], A[i], B[i], R)
    /\ i # 1 => Len(stack[i].sources) = 1
    /\ IF i = Len(stack) THEN A[i] = before.dst /\ B[i] = before.src
                         ELSE CalledBy(i, A, B, D)
    /\ \A j \in 1..Len(stack) : stack[i].to = stack[j].to => i = j

(* The messages of the arguments, of which the destination alone changes.  *)
LEMMA ApartFacts ==
  ASSUME HeapInv, RecordedOK, before # NoCall, NEW D, Apart(D), NEW m \in D \cup {before.dst}
  PROVE  /\ m \in Msg /\ m \in before.msgs /\ MapOK(before.fields[m])
         /\ m \in D => fields[m] = before.fields[m] /\ m # before.dst
<1>1. before.dst \in before.msgs /\ before.msgs \subseteq Msg
  BY DEF HeapInv, BeforeOK, Snapshot
<1>2. m \in before.msgs /\ m \in Msg
  BY <1>1 DEF Apart
<1>3. MapOK(before.fields[m])
  BY <1>2 DEF RecordedOK
<1>4. m \in D => m \in before.msgs \ {before.dst}
  BY DEF Apart
<1>5. m \in D => fields[m] = before.fields[m]
  BY <1>4 DEF HeapInv, OnlyDestination
<1> QED BY <1>2, <1>3, <1>4, <1>5

(* What the innermost call merges, and what it finds in the fields that it *)
(* has still to meet.                                                      *)
Finds(p, q, A, R) ==
  /\ MapOK(q) /\ q = before.fields[Head(Top.sources)]
  /\ IF Len(Top.sources) = 1 THEN p = before.fields[A[1]] ELSE p = Blank
  /\ Partly(Top.to, p, q, Top.todo, R)
  /\ \A f \in Top.todo : f \in Field /\ Old(f) = p[f] /\ New(f) = q[f] /\ q[f] # Unset

LEMMA TopCall ==
  ASSUME HeapInv, RecordedOK, stack # <<>>, NEW D, Apart(D), NEW A, NEW B, NEW R,
         Calls(A, B, D, R)
  PROVE  /\ \E p, q : Finds(p, q, A, R)
         /\ Head(Top.sources) \in D /\ Top.to # Head(Top.sources)
<1>1. /\ Len(stack) \in Nat \ {0} /\ Top = stack[1] /\ before # NoCall
      /\ Top.to \in Msg /\ Top.sources \in Seq(Msg) /\ Top.todo \subseteq Field
      /\ \A i \in 1..Len(stack) : FrameOK(stack[i], i = Len(stack))
  BY TopFacts
<1>2. 1 \in 1..Len(stack)
  BY <1>1
<1>3. FrameOK(Top, 1 = Len(stack))
  BY <1>1, <1>2
<1>4. PICK a, b, c : a = A[1] /\ b = B[1] /\ c = Top.sources
  OBVIOUS
<1>5. /\ a \in D \cup {before.dst} /\ b \in D /\ Merges(Top, a, b, R)
      /\ 1 # Len(stack) => a \in D
  BY <1>1, <1>2, <1>4 DEF Calls, CalledBy
<1>6. PICK p, q : /\ q = before.fields[Head(c)] /\ Head(c) \in D
                  /\ IF Len(c) = 1 THEN p = before.fields[a] ELSE p = Blank
                  /\ Partly(Top.to, p, q, Top.todo, R)
  <2>1. CASE c = <<b>> /\ Partly(Top.to, before.fields[a], before.fields[b], Top.todo, R)
    <3>1. Len(c) = 1 /\ Head(c) = b
      BY <2>1
    <3> QED BY <1>5, <2>1, <3>1
  <2>2. CASE c = <<a, b>> /\ Partly(Top.to, Blank, before.fields[a], Top.todo, R)
    <3>1. Len(c) = 2 /\ Len(c) # 1 /\ Head(c) = a
      BY <2>2
    <3>2. Len(<<before.src>>) = 1
      OBVIOUS
    <3>3. 1 # Len(stack)
      BY <1>3, <1>4, <3>1, <3>2 DEF FrameOK
    <3> QED BY <1>5, <2>2, <3>1, <3>3
  <2> QED BY <1>4, <1>5, <2>1, <2>2 DEF Merges
<1>7. PICK m \in D : m = Head(c)
  BY <1>6
<1>8. /\ m \in Msg /\ m \in before.msgs /\ MapOK(before.fields[m])
      /\ fields[m] = before.fields[m] /\ m # before.dst
  BY <1>1, <1>7, ApartFacts
<1>9. Top.to # m
  BY <1>3, <1>8 DEF FrameOK
<1>10. ASSUME NEW f \in Top.todo
       PROVE  f \in Field /\ Old(f) = p[f] /\ New(f) = q[f] /\ q[f] # Unset
  <2>1. f \in Field /\ FieldPartly(fields[Top.to][f], p, q, f, Top.todo, R)
    BY <1>1, <1>6 DEF Partly
  <2>2. q[f] # Unset /\ fields[Top.to][f] = p[f]
    BY <2>1 DEF FieldPartly
  <2>3. New(f) = q[f]
    BY <1>4, <1>6, <1>7, <1>8 DEF New
  <2> QED BY <2>1, <2>2, <2>3 DEF Old
<1>11. Finds(p, q, A, R)
  BY <1>4, <1>6, <1>7, <1>8, <1>10 DEF Finds
<1> QED BY <1>4, <1>7, <1>9, <1>11

(* A call merges what it merged before, if its message and the others are  *)
(* what they were.                                                         *)
LEMMA MergesStays ==
  ASSUME reps \subseteq reps', \A l \in Used : elems'[l] = elems[l], UNCHANGED before,
         NEW c, fields'[c.to] = fields[c.to], NEW a, NEW b, NEW R, NEW S,
         \A f \in Field : \A v, w :
           <<fields[c.to][f], v, w>> \in R => <<fields[c.to][f], v, w>> \in S,
         Merges(c, a, b, R)
  PROVE  Merges(c, a, b, S)'
<1>1. PICK n, k, x, y : n = c.to /\ k = c.todo /\ x = before.fields[a] /\ y = before.fields[b]
  OBVIOUS
<1>2. /\ Partly(n, x, y, k, R) => Partly(n, x, y, k, S)'
      /\ Partly(n, Blank, x, k, R) => Partly(n, Blank, x, k, S)'
  BY <1>1, PartlyStays
<1>3. /\ Partly(c.to, before.fields[a], before.fields[b], c.todo, S)' <=> Partly(n, x, y, k, S)'
      /\ Partly(c.to, Blank, before.fields[a], c.todo, S)' <=> Partly(n, Blank, x, k, S)'
  BY <1>1 DEF Partly, FieldPartly, Joined, Blank
<1> QED BY <1>1, <1>2, <1>3 DEF Merges

(* So is a merge that is over. *)
LEMMA FinishedStays ==
  ASSUME reps \subseteq reps', \A l \in Used : elems'[l] = elems[l], UNCHANGED before,
         NEW D, NEW R, Finished(D, R), NEW S, NEW n, NEW a, NEW b,
         <<n, a, b>> \in R, fields'[n] = fields[n],
         \A f \in Field : \A v, w : <<fields[n][f], v, w>> \in R => <<fields[n][f], v, w>> \in S
  PROVE  Partly(n, before.fields[a], before.fields[b], {}, S)'
<1>1. PICK x, y : x = before.fields[a] /\ y = before.fields[b]
  OBVIOUS
<1>2. Partly(n, x, y, {}, R)
  BY <1>1 DEF Finished
<1>3. Partly(n, x, y, {}, S)'
  BY <1>2, PartlyStays
<1> QED BY <1>1, <1>3 DEF Partly, FieldPartly, Joined

(* A field of the innermost call was made what it should be. *)
LEMMA StoredExact ==
  ASSUME OutcomeInv, stack # <<>>, UNCHANGED before, reps \subseteq reps',
         \A l \in Used : elems'[l] = elems[l],
         NEW D, Apart(D), NEW A, NEW B, NEW R, Finished(D, R), Calls(A, B, D, R),
         NEW f \in Top.todo, Done(f, stack),
         NEW x, NEW v, NEW w, v = Old(f), w = New(f), Put(Top.to, f, x), Joined(x, v, w, f, R)'
  PROVE  Finished(D, R)' /\ Calls(A, B, D, R)'
<1>1. /\ Len(stack) \in Nat \ {0} /\ Top = stack[1] /\ stack \in Seq(Frames)
      /\ Top.to \in Msg /\ before # NoCall /\ Top.todo \subseteq Field
      /\ HeapInv /\ RecordedOK /\ FieldsOK
  BY TopFacts DEF OutcomeInv, HeapInv, IInv
<1>2. Top.to # Head(Top.sources) /\ \E p, q : Finds(p, q, A, R)
  BY <1>1, TopCall
<1>3. PICK p, q : Finds(p, q, A, R)
  BY <1>2
<1>4. PICK n, k : n = Top.to /\ k = Top.todo
  OBVIOUS
<1>5. /\ Len(stack') = Len(stack)
      /\ \A i \in 2..Len(stack) : stack'[i] = stack[i]
      /\ stack'[1].to = n /\ stack'[1].sources = stack[1].sources
      /\ stack'[1].field = stack[1].field /\ stack'[1].todo = k \ {f}
  BY <1>1, <1>2, <1>4, DoneFacts
<1>6. Partly(n, p, q, k \ {f}, R)'
  <2>1. f \in k \cap Field /\ n \in Msg /\ Put(n, f, x)
    BY <1>1, <1>4
  <2>2. MapOK(q) /\ Partly(n, p, q, k, R) /\ p[f] = v /\ q[f] = w
    BY <1>3, <1>4 DEF Finds
  <2>3. Joined(x, p[f], q[f], f, R)'
    BY <2>2 DEF Joined
  <2>4. fields \in [Msg -> [Field -> Element \cup Repeated \cup {Unset}]]
    BY <1>1 DEF FieldsOK
  <2> QED BY <2>1, <2>2, <2>3, <2>4, PartlyStored
<1>7. \A m \in Msg \ {n} : fields'[m] = fields[m]
  BY <1>1, <1>4 DEF Put, FieldsOK
<1>8. 1 \in 1..Len(stack) /\ \A i \in 1..Len(stack) : i # 1 => i \in 2..Len(stack)
  BY <1>1
<1>9. \A i \in 1..Len(stack) :
        stack'[i].to = stack[i].to /\ stack'[i].sources = stack[i].sources
        /\ stack'[i].field = stack[i].field
  BY <1>1, <1>4, <1>5, <1>8
<1>10. Finished(D, R)'
  <2>1. ASSUME NEW m, NEW a, NEW b, <<m, a, b>> \in R
        PROVE  /\ m \in Msg \ before.msgs /\ a \in D /\ b \in D
               /\ \A i \in 1..Len(stack) : stack[i].to # m
               /\ Partly(m, before.fields[a], before.fields[b], {}, R)'
    <3>1. /\ m \in Msg \ before.msgs /\ a \in D /\ b \in D
          /\ \A i \in 1..Len(stack) : stack[i].to # m
      BY <2>1 DEF Finished
    <3>2. m # n
      BY <1>1, <1>4, <1>8, <3>1
    <3>3. fields'[m] = fields[m]
      BY <1>7, <3>1, <3>2
    <3>4. Partly(m, before.fields[a], before.fields[b], {}, R)'
      BY <2>1, <3>3, FinishedStays
    <3> QED BY <3>1, <3>4
  <2> QED BY <1>5, <1>9, <2>1 DEF Finished
<1>11. ASSUME NEW i \in 1..Len(stack) PROVE Merges(stack[i], A[i], B[i], R)'
  <2>1. Merges(stack[i], A[i], B[i], R)
    BY DEF Calls
  <2>2. CASE i = 1
    <3>1. PICK c, a, b : c = stack'[1] /\ a = A[1] /\ b = B[1]
      OBVIOUS
    <3>2. \/ stack[1].sources = <<b>> /\ Len(stack[1].sources) = 1
          \/ stack[1].sources = <<a, b>> /\ Len(stack[1].sources) # 1
      <4>1. Len(<<b>>) = 1 /\ Len(<<a, b>>) # 1
        OBVIOUS
      <4> QED BY <2>1, <2>2, <3>1, <4>1 DEF Merges
    <3>3. /\ stack[1].sources = <<b>> => p = before.fields[a] /\ q = before.fields[b]
          /\ stack[1].sources = <<a, b>> => p = Blank /\ q = before.fields[a]
      <4>1. Head(<<b>>) = b /\ Head(<<a, b>>) = a /\ Len(<<b>>) = 1 /\ Len(<<a, b>>) # 1
        OBVIOUS
      <4> QED BY <1>1, <1>3, <3>1, <4>1 DEF Finds
    <3>4. c.to = n /\ c.todo = k \ {f} /\ c.sources = stack[1].sources
      BY <1>5, <3>1
    <3>5. CASE stack[1].sources = <<b>>
      <4>1. Partly(c.to, before.fields[a], before.fields[b], c.todo, R)'
        BY <1>6, <3>3, <3>4, <3>5
      <4> QED BY <2>2, <3>1, <3>4, <3>5, <4>1 DEF Merges
    <3>6. CASE stack[1].sources = <<a, b>>
      <4>1. Partly(c.to, Blank, before.fields[a], c.todo, R)'
        BY <1>6, <3>3, <3>4, <3>6
      <4> QED BY <2>2, <3>1, <3>4, <3>6, <4>1 DEF Merges
    <3> QED BY <3>2, <3>5, <3>6
  <2>3. CASE i # 1
    <3>1. PICK c, a, b : c = stack[i] /\ a = A[i] /\ b = B[i]
      OBVIOUS
    <3>2. stack[i].to # n /\ c.to \in Msg
      BY <1>1, <1>4, <1>8, <2>3, <3>1, TopFacts DEF Calls
    <3>3. Merges(c, a, b, R)'
      BY <1>7, <2>1, <3>1, <3>2, MergesStays
    <3>4. stack'[i] = c
      BY <1>5, <1>8, <2>3, <3>1
    <3> QED BY <3>1, <3>3, <3>4
  <2> QED BY <2>2, <2>3
<1>12. ASSUME NEW i \in 1..Len(stack), i # Len(stack) PROVE CalledBy(i, A, B, D)'
  <2>1. i + 1 \in 2..Len(stack) /\ CalledBy(i, A, B, D)
    BY <1>1, <1>12 DEF Calls
  <2> QED BY <1>5, <1>9, <2>1 DEF CalledBy, Held
<1>13. Calls(A, B, D, R)'
  BY <1>5, <1>9, <1>11, <1>12 DEF Calls
<1> QED BY <1>10, <1>13

(* The value w of a field of the messages, and the values that it meets.   *)
LEMMA MergeableOf ==
  ASSUME HeapInv, RecordedOK, before # NoCall, Mergeable,
         NEW m \in Msg, NEW f \in Field, NEW w, w = Held(m, f), w # Unset
  PROVE  /\ \A a \in Msg : Held(a, f) # Unset => ~Unmergeable(Held(a, f), w)
         /\ f \in ListField =>
              /\ w \in reps /\ elems[w.list] = before.elems[w.list]
              /\ ToSet(elems[w.list]) \subseteq Fits[f]
         /\ f \notin ListField => w \in Fits[f] \cap Element
<1>1. \A a \in Msg : Held(a, f) # Unset =>
        /\ ~Unmergeable(Held(a, f), w)
        /\ f \in ListField => ToSet(before.elems[Held(a, f).list]) \subseteq Fits[f]
  BY DEF Mergeable, Held
<1>2. MapOK(before.fields[m]) /\ (f \in ListField => w.list \in before.lists)
  BY DEF RecordedOK, Held
<1>3. f \in ListField => w \in reps /\ elems[w.list] = before.elems[w.list]
  BY <1>2 DEF MapOK, Held, HeapInv, OnlyDestination
<1>4. f \notin ListField => w \in Fits[f] /\ w \in Element
  BY <1>2 DEF MapOK, Held
<1> QED BY <1>1, <1>3, <1>4

LEMMA FoundMergeable ==
  ASSUME HeapInv, RecordedOK, stack # <<>>, NEW D, Apart(D), Mergeable,
         NEW A, NEW B, NEW R, Calls(A, B, D, R), NEW f \in Top.todo, NEW v, v = Old(f),
         NEW w, w = New(f)
  PROVE  /\ w # Unset /\ ~Unmergeable(v, w)
         /\ f \in ListField =>
              /\ w \in reps /\ elems[w.list] = before.elems[w.list]
              /\ ToSet(elems[w.list]) \subseteq Fits[f]
              /\ v # Unset => /\ v \in reps /\ elems[v.list] = before.elems[v.list]
                              /\ ToSet(elems[v.list]) \subseteq Fits[f]
         /\ f \notin ListField => w \in Fits[f] \cap Element /\ v \in Element \cup {Unset}
         /\ v # Unset => Len(Top.sources) = 1 /\ v = Held(A[1], f)
         /\ w = Held(Head(Top.sources), f)
<1>1. /\ Len(stack) \in Nat \ {0} /\ before # NoCall /\ Top.todo \subseteq Field
  BY TopFacts
<1>2. Head(Top.sources) \in D /\ \E p, q : Finds(p, q, A, R)
  BY TopCall
<1>3. PICK p, q : Finds(p, q, A, R)
  BY <1>2
<1>4. PICK m : m = Head(Top.sources) /\ m \in D
  BY <1>2
<1>5. m \in Msg
  BY <1>1, <1>4, ApartFacts
<1>6. f \in Field /\ w # Unset /\ w = Held(m, f) /\ v = p[f]
  BY <1>3, <1>4 DEF Finds, Held
<1>7. /\ \A a \in Msg : Held(a, f) # Unset => ~Unmergeable(Held(a, f), w)
      /\ f \in ListField =>
           /\ w \in reps /\ elems[w.list] = before.elems[w.list]
           /\ ToSet(elems[w.list]) \subseteq Fits[f]
      /\ f \notin ListField => w \in Fits[f] \cap Element
  BY <1>1, <1>5, <1>6, MergeableOf
<1>8. CASE v = Unset
  <2>1. v \notin reps
    BY <1>8, SortFacts DEF HeapInv, IInv, ListsOK
  <2>2. ~Unmergeable(v, w)
    BY <1>8, <2>1 DEF Unmergeable
  <2> QED BY <1>4, <1>6, <1>7, <1>8, <2>2
<1>9. CASE v # Unset
  <2>1. Len(Top.sources) = 1 /\ v = Held(A[1], f)
    BY <1>3, <1>6, <1>9 DEF Finds, Blank, Held
  <2>2. 1 \in 1..Len(stack)
    BY <1>1
  <2>3. PICK a : a = A[1] /\ a \in D \cup {before.dst}
    BY <2>2 DEF Calls
  <2>4. a \in Msg
    BY <1>1, <2>3, ApartFacts
  <2>5. /\ f \in ListField =>
             /\ v \in reps /\ elems[v.list] = before.elems[v.list]
             /\ ToSet(elems[v.list]) \subseteq Fits[f]
        /\ f \notin ListField => v \in Fits[f] \cap Element
    BY <1>1, <1>6, <1>9, <2>1, <2>3, <2>4, MergeableOf
  <2> QED BY <1>4, <1>6, <1>7, <1>9, <2>1, <2>3, <2>4, <2>5
<1> QED BY <1>8, <1>9

(* What holds of the merges in progress, action by action. *)
LEMMA ReplaceExact ==
  ASSUME OutcomeInv, stack # <<>>, NEW D, Apart(D), Mergeable,
         NEW A, NEW B, NEW R, Finished(D, R), Calls(A, B, D, R), NEW f \in Field, Replace(f)
  PROVE  Finished(D, R)' /\ Calls(A, B, D, R)'
<1>1. PICK v, w : v = Old(f) /\ w = New(f)
  OBVIOUS
<1>2. /\ f \in Top.todo
      /\ v = Unset \/ (v \in Scalar /\ SameType(v, w))
      /\ Store(Top.to, f, w) /\ Done(f, stack) /\ UNCHANGED <<elems, reps, before>>
  BY <1>1 DEF Replace
<1>3. /\ w # Unset
      /\ f \in ListField => w \in reps /\ ToSet(elems[w.list]) \subseteq Fits[f]
      /\ f \notin ListField => w \in Fits[f] \cap Element
      /\ f \in ListField /\ v # Unset => v \in reps
  BY <1>1, <1>2, FoundMergeable DEF OutcomeInv
<1>4. reps \subseteq Repeated
  BY DEF OutcomeInv, HeapInv, IInv, ListsOK
<1>5. Converted(f, w) = w
  BY MessageAssumption DEF Converted
<1>6. Conforms(f, w)
  BY <1>3 DEF Conforms
<1>7. Put(Top.to, f, w)
  BY <1>2, <1>5, <1>6 DEF Store
<1>8. f \in ListField => v = Unset
  BY <1>2, <1>3, <1>4, SortFacts
<1>9. v \in Msg => v = Unset
  BY <1>2, SortsAssumption
<1>10. Joined(w, v, w, f, R)'
  BY <1>8, <1>9 DEF Joined
<1> QED BY <1>1, <1>2, <1>7, <1>10, StoredExact

LEMMA ConcatenateExact ==
  ASSUME OutcomeInv, stack # <<>>, NEW D, Apart(D), Mergeable,
         NEW A, NEW B, NEW R, Finished(D, R), Calls(A, B, D, R),
         NEW f \in ListField, NEW l \in List, Concatenate(f, l)
  PROVE  Finished(D, R)' /\ Calls(A, B, D, R)'
<1>1. PICK v, w : v = Old(f) /\ w = New(f)
  OBVIOUS
<1>2. PICK s, x : s = elems[v.list] \o elems[w.list] /\ x = [desc |-> v.desc, list |-> l]
  OBVIOUS
<1>3. Both(f) = s
  BY <1>1, <1>2 DEF Both
<1>4. /\ f \in Top.todo /\ v \in reps /\ w \in reps
      /\ elems' = [elems EXCEPT ![l] = s] /\ reps' = reps \cup {x}
      /\ IF ToSet(s) \subseteq Fits[f] THEN Put(Top.to, f, x) ELSE UNCHANGED fields
      /\ Done(f, stack) /\ UNCHANGED before
  BY <1>1, <1>2, <1>3 DEF Concatenate
<1>5. HeapInv /\ \A k \in Used : elems'[k] = elems[k]
  BY ConcatenateGood DEF OutcomeInv
<1>6. v # Unset
  BY <1>4, <1>5, SortFacts DEF HeapInv, IInv, ListsOK
<1>7. /\ elems[v.list] = before.elems[v.list] /\ elems[w.list] = before.elems[w.list]
      /\ ToSet(elems[v.list]) \subseteq Fits[f] /\ ToSet(elems[w.list]) \subseteq Fits[f]
  BY <1>1, <1>4, <1>6, FoundMergeable DEF OutcomeInv
<1>8. elems \in [List -> Seq(Element)] /\ v.list \in List /\ w.list \in List
  BY <1>4, <1>5 DEF HeapInv, IInv, ListsOK
<1>9. ToSet(s) \subseteq Fits[f]
  <2>1. PICK s1 \in Seq(Element), s2 \in Seq(Element) : s1 = elems[v.list] /\ s2 = elems[w.list]
    BY <1>8
  <2>2. \A i \in 1..Len(s1 \o s2) : \/ i \in 1..Len(s1) /\ (s1 \o s2)[i] = s1[i]
                                   \/ /\ i - Len(s1) \in 1..Len(s2)
                                      /\ (s1 \o s2)[i] = s2[i - Len(s1)]
    OBVIOUS
  <2>3. ToSet(s1 \o s2) \subseteq ToSet(s1) \cup ToSet(s2)
    BY <2>2 DEF ToSet
  <2> QED BY <1>2, <1>7, <2>1, <2>3
<1>10. Put(Top.to, f, x)
  BY <1>4, <1>9
<1>11. Joined(x, v, w, f, R)'
  <2>1. elems'[l] = s /\ x.list = l /\ x \in reps'
    BY <1>2, <1>4, <1>8
  <2> QED BY <1>2, <1>4, <1>6, <1>7, <2>1 DEF Joined
<1>12. reps \subseteq reps'
  BY <1>4
<1> QED BY <1>1, <1>4, <1>5, <1>10, <1>11, <1>12, StoredExact

(* Nobody refers to a message that NewMessage returns. *)
LEMMA FreshFacts ==
  ASSUME HeapInv, NEW n \in Msg, Fresh(n)
  PROVE  /\ n \notin before.msgs
         /\ \A i \in 1..Len(stack) : stack[i].to # n
         /\ \A g \in Field : fields[n][g] = Unset
         /\ \A m \in Msg, g \in Field : fields[m][g] # n
<1>1. FieldsOK /\ reps \subseteq Repeated /\ stack \in Seq(Frames)
  BY DEF HeapInv, IInv, ListsOK, StackOK
<1>2. \A m \in Msg, g \in Field \ ListField : fields[m][g] # n
  BY DEF Fresh, Unused, Children, MsgChildren
<1>3. \A m \in Msg, g \in ListField : fields[m][g] # n
  BY <1>1, SortFacts, SortsAssumption DEF FieldsOK
<1>4. DOMAIN stack = 1..Len(stack)
  BY <1>1
<1> QED BY <1>2, <1>3, <1>4 DEF Fresh, Unused, Set

(* A new call merges the first message into an empty one. *)
LEMMA BlankPartly ==
  ASSUME NEW n, \A g \in Field : fields[n][g] = Unset, NEW q, NEW R
  PROVE  Partly(n, Blank, q, {g \in Field : q[g] # Unset}, R)
BY DEF Partly, FieldPartly, Blank

LEMMA DescendExact ==
  ASSUME OutcomeInv, stack # <<>>, NEW D, Apart(D), Mergeable,
         NEW A, NEW B, NEW R, Finished(D, R), Calls(A, B, D, R),
         NEW f \in Field, NEW n \in Msg, Descend(f, n)
  PROVE  \E A2, B2, R2 : Finished(D, R2)' /\ Calls(A2, B2, D, R2)'
<1>1. /\ Len(stack) \in Nat \ {0} /\ Top = stack[1] /\ stack \in Seq(Frames) /\ before # NoCall
      /\ HeapInv /\ RecordedOK
      /\ \A i \in 1..Len(stack) : stack[i].to \in Msg
  BY TopFacts DEF OutcomeInv
<1>2. PICK v, w : v = Old(f) /\ w = New(f)
  OBVIOUS
<1>3. PICK c : c = Frame(n, <<v, w>>, f)
  OBVIOUS
<1>4. /\ f \in Top.todo /\ v \in Msg /\ w \in Msg /\ Fresh(n)
      /\ stack' = <<c>> \o stack /\ UNCHANGED <<heap, before>>
  BY <1>2, <1>3 DEF Descend
<1>5. /\ n \notin before.msgs
      /\ \A i \in 1..Len(stack) : stack[i].to # n
      /\ \A g \in Field : fields[n][g] = Unset
      /\ \A m \in Msg, g \in Field : fields[m][g] # n
  BY <1>1, <1>4, FreshFacts
<1>6. c \in Frames
  <2>1. Frame(n, <<Old(f), New(f)>>, f) \in Frames
    BY <1>1, <1>2, <1>4, FieldsOfMessages
  <2> QED BY <1>2, <1>3, <2>1
<1>7. /\ Len(stack') = Len(stack) + 1 /\ stack'[1] = c
      /\ \A i \in 2..Len(stack') : stack'[i] = stack[i - 1]
  BY <1>1, <1>4, <1>6, Pushed
<1>8. PICK k \in Nat \ {0} : k = Len(stack)
  BY <1>1
<1>9. 1 \in 1..k /\ k \in 1..k
  OBVIOUS
<1>10. PICK a, b : /\ a = A[1] /\ b = B[1] /\ a \in D \cup {before.dst} /\ b \in D
                   /\ Merges(Top, a, b, R)
  BY <1>1, <1>8, <1>9 DEF Calls
<1>11. /\ Len(Top.sources) = 1 /\ v = Held(a, f) /\ w = Held(b, f)
  <2>1. v # Unset
    BY <1>4, SortFacts
  <2>2. Len(Top.sources) = 1 /\ v = Held(a, f) /\ w = Held(Head(Top.sources), f)
    BY <1>1, <1>2, <1>4, <1>10, <2>1, FoundMergeable
  <2>3. Head(<<b>>) = b /\ Len(<<a, b>>) # 1
    OBVIOUS
  <2>4. Head(Top.sources) = b
    BY <1>10, <2>2, <2>3 DEF Merges
  <2> QED BY <2>2, <2>4
<1>12. v \in D /\ w \in D
  BY <1>4, <1>10, <1>11 DEF Apart
<1>13. fields[v] = before.fields[v] /\ fields' = fields /\ elems' = elems /\ reps' = reps
  BY <1>1, <1>4, <1>12, ApartFacts DEF heap
<1>14. PICK S : S = {t \in R : \A x, y : t # <<n, x, y>>}
  OBVIOUS
<1>15. /\ \A m, x, y : <<m, x, y>> \in S => <<m, x, y>> \in R /\ m # n
       /\ \A m, x, y : <<m, x, y>> \in R /\ m # n => <<m, x, y>> \in S
  BY <1>14
<1>16. /\ c.to = n /\ c.sources = <<v, w>> /\ c.field = f
       /\ c.todo = {g \in Field : before.fields[v][g] # Unset}
  <2>1. Head(<<v, w>>) = v
    OBVIOUS
  <2> QED BY <1>3, <1>13, <2>1 DEF Frame, Set
<1>17. PICK A2, B2 : /\ A2 = [i \in 1..k + 1 |-> IF i = 1 THEN v ELSE A[i - 1]]
                     /\ B2 = [i \in 1..k + 1 |-> IF i = 1 THEN w ELSE B[i - 1]]
  OBVIOUS
<1>18. /\ 1 \in 1..k + 1 /\ A2[1] = v /\ B2[1] = w /\ 1 # k + 1 /\ 1 + 1 \in 2..k + 1
       /\ \A i \in 2..k + 1 : /\ A2[i] = A[i - 1] /\ B2[i] = B[i - 1]
                              /\ i - 1 \in 1..k /\ i # 1 /\ (i - 1 = k <=> i = k + 1)
       /\ \A i \in 1..k : i # k => i + 1 \in 1..k
       /\ \A i \in 1..k + 1 : i # 1 => i \in 2..k + 1
       /\ \A i \in 1..k + 1 : i # k + 1 => i + 1 \in 2..k + 1
       /\ \A i \in 2..k + 1 : i + 1 - 1 = i /\ i - 1 + 1 = i
       /\ A2[1 + 1] = A[1] /\ B2[1 + 1] = B[1] /\ 1 + 1 - 1 = 1
  BY <1>17
<1>19. Finished(D, S)'
  <2>1. ASSUME NEW m, NEW x, NEW y, <<m, x, y>> \in S
        PROVE  /\ m \in Msg \ before.msgs /\ x \in D /\ y \in D
               /\ \A i \in 1..k + 1 : stack'[i].to # m
               /\ Partly(m, before.fields[x], before.fields[y], {}, S)'
    <3>1. <<m, x, y>> \in R /\ m # n
      BY <1>15, <2>1
    <3>2. /\ m \in Msg \ before.msgs /\ x \in D /\ y \in D
          /\ \A i \in 1..k : stack[i].to # m
      BY <1>8, <3>1 DEF Finished
    <3>3. \A i \in 1..k + 1 : stack'[i].to # m
      BY <1>7, <1>8, <1>16, <1>18, <3>1, <3>2
    <3>4. \A g \in Field : \A x1, y1 :
            <<fields[m][g], x1, y1>> \in R => <<fields[m][g], x1, y1>> \in S
      BY <1>5, <1>15, <3>2
    <3>5. Partly(m, before.fields[x], before.fields[y], {}, S)'
      BY <1>4, <1>13, <3>1, <3>4, FinishedStays
    <3> QED BY <3>2, <3>3, <3>5
  <2> QED BY <1>4, <1>7, <1>8, <2>1 DEF Finished
<1>20. Merges(c, v, w, S)'
  <2>1. PICK q : q = before.fields[v]
    OBVIOUS
  <2>2. Partly(n, Blank, q, {g \in Field : q[g] # Unset}, S)
    BY <1>5, BlankPartly
  <2>3. PICK todo : todo = {g \in Field : q[g] # Unset}
    OBVIOUS
  <2>4. Partly(n, Blank, q, todo, S)
    BY <2>2, <2>3
  <2>5. Partly(n, Blank, q, todo, S)'
    BY <1>4, <1>13, <2>4, PartlyStays
  <2>6. c.todo = todo
    BY <1>16, <2>1, <2>3
  <2>7. Partly(c.to, Blank, before.fields[v], c.todo, S)'
    BY <1>4, <1>16, <2>1, <2>5, <2>6
  <2> QED BY <1>16, <2>7 DEF Merges
<1>21. ASSUME NEW i \in 2..k + 1
       PROVE  Merges(stack[i], A2[i], B2[i], S)' /\ Len(stack'[i].sources) = 1
  <2>1. PICK j \in 1..k : j = i - 1
    BY <1>18
  <2>2. PICK d, x, y : d = stack[j] /\ x = A[j] /\ y = B[j]
    OBVIOUS
  <2>3. Merges(d, x, y, R) /\ d.to \in Msg
    BY <1>1, <1>8, <2>2 DEF Calls
  <2>4. \A g \in Field : \A x1, y1 :
          <<fields[d.to][g], x1, y1>> \in R => <<fields[d.to][g], x1, y1>> \in S
    BY <1>5, <1>15, <2>3
  <2>5. Merges(d, x, y, S)'
    BY <1>4, <1>13, <2>3, <2>4, MergesStays
  <2>6. stack'[i] = d /\ A2[i] = x /\ B2[i] = y
    BY <1>7, <1>8, <1>18, <2>1, <2>2
  <2>7. Len(d.sources) = 1
    BY <1>1, <1>8, <1>11, <2>2 DEF Calls
  <2> QED BY <2>5, <2>6, <2>7
<1>22. \A i \in 2..k + 1 : /\ A2[i] \in D \cup {before.dst} /\ B2[i] \in D
                           /\ i = k + 1 => A2[i] = before.dst /\ B2[i] = before.src
  BY <1>8, <1>18 DEF Calls
<1>23. ASSUME NEW i \in 2..k + 1, i # k + 1 PROVE CalledBy(i, A2, B2, D)'
  <2>1. PICK j \in 1..k : j = i - 1 /\ j # k /\ j + 1 = i /\ i + 1 \in 2..k + 1
    BY <1>18, <1>23
  <2>2. CalledBy(j, A, B, D)
    BY <1>8, <2>1 DEF Calls
  <2>3. /\ stack'[i] = stack[j] /\ stack'[i + 1] = stack[j + 1]
        /\ A2[i] = A[j] /\ A2[i + 1] = A[j + 1] /\ B2[i] = B[j] /\ B2[i + 1] = B[j + 1]
    <3>1. PICK h \in 2..k + 1 : h = i + 1 /\ h - 1 = j + 1 /\ i - 1 = j
      BY <2>1
    <3>2. \A x \in 2..k + 1 : A2[x] = A[x - 1] /\ B2[x] = B[x - 1]
      BY <1>18
    <3>3. \A x \in 2..k + 1 : stack'[x] = stack[x - 1]
      BY <1>7, <1>8, <1>18
    <3>4. stack'[i] = stack[j] /\ A2[i] = A[j] /\ B2[i] = B[j]
      BY <3>1, <3>2, <3>3
    <3>5. stack'[h] = stack[j + 1] /\ A2[h] = A[j + 1] /\ B2[h] = B[j + 1]
      BY <3>1, <3>2, <3>3
    <3> QED BY <3>1, <3>4, <3>5
  <2> QED BY <1>4, <2>2, <2>3 DEF CalledBy, Held
<1>24. CalledBy(1, A2, B2, D)'
  <2>1. stack'[1] = c /\ stack'[1 + 1] = stack[1]
    BY <1>7, <1>8, <1>18
  <2> QED BY <1>1, <1>4, <1>10, <1>11, <1>12, <1>16, <1>18, <2>1 DEF CalledBy, Held
<1>25. ASSUME NEW i \in 1..k + 1, NEW j \in 1..k + 1, stack'[i].to = stack'[j].to PROVE i = j
  <2>1. \A x, y \in 1..k : stack[x].to = stack[y].to => x = y
    BY <1>8 DEF Calls
  <2>2. \A x \in 2..k + 1 : stack'[x] = stack[x - 1] /\ x - 1 \in 1..k
    BY <1>7, <1>8, <1>18
  <2>3. \A x \in 2..k + 1 : stack'[x].to # stack'[1].to
    BY <1>5, <1>7, <1>8, <1>16, <2>2
  <2>4. CASE i # 1 /\ j # 1
    <3>1. i \in 2..k + 1 /\ j \in 2..k + 1
      BY <1>18, <2>4
    <3>2. i - 1 = j - 1
      BY <1>25, <2>1, <2>2, <3>1
    <3> QED BY <3>1, <3>2
  <2> QED BY <1>18, <1>25, <2>3, <2>4
<1>26. Calls(A2, B2, D, S)'
  <2>1. ASSUME NEW i \in 1..k + 1
        PROVE  /\ A2[i] \in D \cup {before.dst} /\ B2[i] \in D
               /\ Merges(stack[i], A2[i], B2[i], S)'
               /\ i # 1 => Len(stack'[i].sources) = 1
               /\ i = k + 1 => A2[i] = before.dst /\ B2[i] = before.src
               /\ i # k + 1 => CalledBy(i, A2, B2, D)'
    <3>1. CASE i = 1
      <4>1. Merges(stack[1], A2[1], B2[1], S)'
        BY <1>7, <1>18, <1>20
      <4> QED BY <1>12, <1>18, <1>24, <3>1, <4>1
    <3>2. CASE i \in 2..k + 1
      BY <1>21, <1>22, <1>23, <3>2
    <3> QED BY <1>18, <3>1, <3>2
  <2>2. Len(stack') = k + 1 /\ before' = before
    BY <1>4, <1>7, <1>8
  <2> QED BY <1>25, <2>1, <2>2 DEF Calls
<1> QED BY <1>19, <1>26

(* The first message was merged into an empty one: that is a copy of it,   *)
(* into which the second is merged.                                        *)
LEMMA CopyPartly ==
  ASSUME NEW n, NEW p, NEW q, NEW R, Partly(n, Blank, p, {}, R)
  PROVE  Partly(n, p, q, {g \in Field : q[g] # Unset}, R)
<1>1. ASSUME NEW f \in Field PROVE fields[n][f] = p[f]
  <2>1. FieldPartly(fields[n][f], Blank, p, f, {}, R) /\ Blank[f] = Unset
    BY DEF Partly, Blank
  <2> QED BY <2>1 DEF FieldPartly, Joined
<1>2. \A g \in Oneof \ {h \in Field : q[h] # Unset} : q[g] = Unset
  BY SortFacts
<1> QED BY <1>1, <1>2 DEF Partly, FieldPartly

LEMMA MergeSourceExact ==
  ASSUME OutcomeInv, stack # <<>>, NEW D, Apart(D),
         NEW A, NEW B, NEW R, Finished(D, R), Calls(A, B, D, R), MergeSource
  PROVE  Finished(D, R)' /\ Calls(A, B, D, R)'
<1>1. /\ Len(stack) \in Nat \ {0} /\ Top = stack[1] /\ stack \in Seq(Frames) /\ before # NoCall
      /\ HeapInv /\ RecordedOK /\ \A i \in 1..Len(stack) : stack[i].to \in Msg
  BY TopFacts DEF OutcomeInv
<1>2. PICK k \in Nat \ {0} : k = Len(stack)
  BY <1>1
<1>3. /\ 1 \in 1..k /\ \A i \in 1..k : i # 1 => i \in 2..k
      /\ \A i \in 1..k : i # k => i + 1 \in 2..k
  OBVIOUS
<1>4. PICK a, b : /\ a = A[1] /\ b = B[1] /\ b \in D
                  /\ Merges(Top, a, b, R)
  BY <1>1, <1>2, <1>3 DEF Calls
<1>5. Top.todo = {} /\ Len(Top.sources) > 1 /\ UNCHANGED <<heap, before>>
  BY DEF MergeSource
<1>6. Top.sources = <<a, b>> /\ Partly(Top.to, Blank, before.fields[a], {}, R)
  <2>1. ~(Len(<<b>>) > 1)
    OBVIOUS
  <2> QED BY <1>4, <1>5, <2>1 DEF Merges
<1>7. PICK c : c = Frame(Top.to, <<b>>, Top.field)
  OBVIOUS
<1>8. stack' = <<c>> \o Tail(stack)
  <2>1. Tail(<<a, b>>) = <<b>>
    OBVIOUS
  <2> QED BY <1>6, <1>7, <2>1 DEF MergeSource
<1>9. c \in Frames
  <2>1. PICK d \in Frames : stack' = <<d>> \o Tail(stack)
    BY <1>1, NextSource DEF MergeSource
  <2>2. c = d
    BY <1>1, <1>8, <2>1
  <2> QED BY <2>2
<1>10. PICK n, p, q : n = Top.to /\ p = before.fields[a] /\ q = before.fields[b]
  OBVIOUS
<1>11. /\ c.to = n /\ c.sources = <<b>> /\ c.field = Top.field
       /\ c.todo = {g \in Field : q[g] # Unset}
  <2>1. fields[b] = before.fields[b]
    BY <1>1, <1>4, ApartFacts
  <2>2. Head(<<b>>) = b
    OBVIOUS
  <2> QED BY <1>7, <1>10, <2>1, <2>2 DEF Frame, Set
<1>12. /\ Len(stack') = k /\ stack'[1] = c /\ \A i \in 2..k : stack'[i] = stack[i]
  BY <1>1, <1>2, <1>8, <1>9, Replaced
<1>13. fields' = fields /\ elems' = elems /\ reps' = reps /\ before' = before
  BY <1>5 DEF heap
<1>14. \A i \in 1..k : stack'[i].to = stack[i].to /\ stack'[i].field = stack[i].field
  BY <1>1, <1>3, <1>10, <1>11, <1>12
<1>15. Finished(D, R)'
  <2>1. ASSUME NEW m, NEW x, NEW y, <<m, x, y>> \in R
        PROVE  /\ m \in Msg \ before.msgs /\ x \in D /\ y \in D
               /\ \A i \in 1..k : stack[i].to # m
               /\ Partly(m, before.fields[x], before.fields[y], {}, R)'
    <3>1. Partly(m, before.fields[x], before.fields[y], {}, R)'
      BY <1>13, <2>1, FinishedStays
    <3> QED BY <1>2, <2>1, <3>1 DEF Finished
  <2> QED BY <1>12, <1>13, <1>14, <2>1 DEF Finished
<1>16. Merges(c, a, b, R)'
  <2>1. PICK todo : todo = {g \in Field : q[g] # Unset}
    OBVIOUS
  <2>2. Partly(n, Blank, p, {}, R)
    BY <1>6, <1>10
  <2>3. Partly(n, p, q, todo, R)
    BY <2>1, <2>2, CopyPartly
  <2>4. Partly(n, p, q, todo, R)'
    BY <1>13, <2>3, PartlyStays
  <2>5. Partly(c.to, before.fields[a], before.fields[b], c.todo, R)'
    BY <1>10, <1>11, <1>13, <2>1, <2>4
  <2> QED BY <1>11, <2>5 DEF Merges
<1>17. ASSUME NEW i \in 1..k PROVE Merges(stack[i], A[i], B[i], R)'
  <2>1. CASE i = 1
    BY <1>4, <1>12, <1>16, <2>1
  <2>2. CASE i # 1
    <3>1. PICK d, x, y : d = stack[i] /\ x = A[i] /\ y = B[i]
      OBVIOUS
    <3>2. Merges(d, x, y, R)
      BY <1>2, <3>1 DEF Calls
    <3>3. Merges(d, x, y, R)'
      BY <1>13, <3>2, MergesStays
    <3>4. stack'[i] = d
      BY <1>3, <1>12, <2>2, <3>1
    <3> QED BY <3>1, <3>3, <3>4
  <2> QED BY <2>1, <2>2
<1>18. \A i \in 1..k : i # 1 => Len(stack'[i].sources) = 1
  BY <1>2, <1>3, <1>12 DEF Calls
<1>19. ASSUME NEW i \in 1..k, i # k PROVE CalledBy(i, A, B, D)'
  <2>1. i + 1 \in 2..k /\ CalledBy(i, A, B, D)
    BY <1>2, <1>3, <1>19 DEF Calls
  <2> QED BY <1>12, <1>13, <1>14, <2>1 DEF CalledBy, Held
<1>20. Calls(A, B, D, R)'
  BY <1>2, <1>12, <1>13, <1>14, <1>17, <1>18, <1>19 DEF Calls
<1> QED BY <1>15, <1>20

(* The merge of two children returns: its message is what was made of them.*)
LEMMA FieldMergedExact ==
  ASSUME OutcomeInv, stack # <<>>, NEW D, Apart(D), Mergeable,
         NEW A, NEW B, NEW R, Finished(D, R), Calls(A, B, D, R), FieldMerged
  PROVE  \E A2, B2, R2 : Finished(D, R2)' /\ Calls(A2, B2, D, R2)'
<1>1. /\ Len(stack) \in Nat \ {0} /\ Top = stack[1] /\ stack \in Seq(Frames) /\ before # NoCall
      /\ HeapInv /\ RecordedOK /\ FieldsOK
      /\ \A i \in 1..Len(stack) : FrameOK(stack[i], i = Len(stack)) /\ stack[i].to \in Msg
  BY TopFacts DEF OutcomeInv, HeapInv, IInv
<1>2. /\ Top.todo = {} /\ Len(Top.sources) = 1 /\ Len(stack) > 1
      /\ Store(stack[2].to, Top.field, Top.to) /\ Done(Top.field, Tail(stack))
      /\ UNCHANGED <<elems, frozen, raw, reps, failed, before>>
  BY DEF FieldMerged
<1>3. PICK k \in Nat \ {0} : Len(stack) = k + 1
  <2>1. \A n \in Nat : n > 1 => \E m \in Nat \ {0} : n = m + 1
    <3> SUFFICES ASSUME NEW n \in Nat, n > 1 PROVE \E m \in Nat \ {0} : n = m + 1
      OBVIOUS
    <3>1. n - 1 \in Nat \ {0} /\ n = (n - 1) + 1
      OBVIOUS
    <3> QED BY <3>1
  <2> QED BY <1>1, <1>2, <2>1
<1>4. /\ 1 \in 1..k + 1 /\ 2 \in 1..k + 1 /\ 1 # k + 1 /\ 1 \in 1..k /\ 1 + 1 = 2
      /\ \A i \in 1..k : i + 1 \in 1..k + 1 /\ i + 1 # 1 /\ (i + 1 = k + 1 <=> i = k)
      /\ \A i \in 1..k : i # 1 => i \in 2..k
      /\ \A i \in 1..k : i # k => i + 1 \in 2..k
  OBVIOUS
<1>5. PICK n, f, a, b, t, a2, b2 :
        /\ n = Top.to /\ f = Top.field /\ a = A[1] /\ b = B[1]
        /\ t = stack[2] /\ a2 = A[2] /\ b2 = B[2]
  OBVIOUS
<1>6. /\ a \in D /\ b \in D /\ Merges(Top, a, b, R)
      /\ f \in t.todo /\ a = Held(a2, f) /\ b = Held(b2, f)
      /\ a2 \in D \cup {before.dst} /\ b2 \in D /\ Merges(t, a2, b2, R)
      /\ Len(t.sources) = 1 /\ n # t.to
  <2>1. CalledBy(1, A, B, D)
    BY <1>3, <1>4 DEF Calls
  <2>2. a \in D /\ f \in t.todo /\ a = Held(a2, f) /\ b = Held(b2, f)
    BY <1>1, <1>4, <1>5, <2>1 DEF CalledBy
  <2>3. b \in D /\ Merges(Top, a, b, R)
    BY <1>1, <1>3, <1>4, <1>5 DEF Calls
  <2>4. /\ a2 \in D \cup {before.dst} /\ b2 \in D /\ Merges(t, a2, b2, R)
        /\ Len(t.sources) = 1
    BY <1>3, <1>4, <1>5 DEF Calls
  <2>5. n # t.to
    BY <1>1, <1>3, <1>4, <1>5 DEF Calls
  <2> QED BY <2>2, <2>3, <2>4, <2>5
<1>7. /\ n \in Msg \ before.msgs /\ t.to \in Msg /\ f \in Field /\ t.to # b2
  <2>1. FrameOK(Top, FALSE) /\ FrameOK(t, 2 = Len(stack)) /\ n \in Msg /\ t.to \in Msg
    BY <1>1, <1>3, <1>4, <1>5
  <2>2. b2 \in before.msgs /\ b2 # before.dst
    BY <1>1, <1>6, ApartFacts
  <2> QED BY <1>5, <2>1, <2>2 DEF FrameOK
<1>8. a \in Msg /\ b \in Msg /\ a # Unset /\ f \notin ListField /\ n \in Fits[f]
  <2>1. a \in Msg /\ b \in Msg
    BY <1>1, <1>6, ApartFacts
  <2>2. a # Unset /\ a \notin reps
    BY <1>1, <2>1, SortFacts DEF HeapInv, IInv, ListsOK
  <2>3. MapOK(before.fields[a2])
    BY <1>1, <1>6, ApartFacts
  <2>4. f \notin ListField /\ a \in Fits[f]
    BY <1>6, <1>7, <2>2, <2>3 DEF MapOK, Held
  <2>5. Fits[f] \cap Msg = Msg
    BY <1>7, <2>1, <2>4, MessageAssumption
  <2> QED BY <1>7, <2>1, <2>2, <2>4, <2>5
<1>9. Put(t.to, f, n)
  <2>1. Converted(f, n) = n /\ Conforms(f, n)
    BY <1>7, <1>8, SortsAssumption DEF Converted, Conforms
  <2> QED BY <1>2, <1>5, <2>1 DEF Store
<1>10. \A m \in Msg \ {t.to} : fields'[m] = fields[m]
  BY <1>1, <1>7, <1>9 DEF Put, FieldsOK
<1>11. PICK S : S = R \cup {<<n, a, b>>}
  OBVIOUS
<1>12. /\ <<n, a, b>> \in S /\ R \subseteq S
       /\ \A m, x, y : <<m, x, y>> \in S => <<m, x, y>> \in R \/ (m = n /\ x = a /\ y = b)
  BY <1>11
<1>13. Head(<<b>>) = b /\ Head(<<b2>>) = b2 /\ Len(<<a, b>>) # 1 /\ Len(<<a2, b2>>) # 1
  OBVIOUS
<1>14. Partly(n, before.fields[a], before.fields[b], {}, S)'
  <2>1. PICK p, q : p = before.fields[a] /\ q = before.fields[b]
    OBVIOUS
  <2>2. Partly(n, p, q, {}, R)
    BY <1>2, <1>5, <1>6, <1>13, <2>1 DEF Merges
  <2>3. fields'[n] = fields[n]
    BY <1>6, <1>7, <1>10
  <2>4. Partly(n, p, q, {}, S)'
    BY <1>2, <1>12, <2>2, <2>3, PartlyStays
  <2> QED BY <1>2, <2>1, <2>4
<1>15. PICK s : s = Tail(stack)
  OBVIOUS
<1>16. /\ s \in Seq(Frames) /\ s # <<>> /\ Len(s) = k
       /\ \A i \in 1..k : s[i] = stack[i + 1]
  <2>1. \A i \in Nat : i + 1 - 1 = i
    OBVIOUS
  <2> QED BY <1>1, <1>2, <1>3, <1>15, <2>1, CallersOK
<1>17. t.sources = <<b2>> /\ Head(t.sources) = b2 /\ s[1] = t
  BY <1>4, <1>5, <1>6, <1>13, <1>16 DEF Merges
<1>18. /\ Len(stack') = k
       /\ \A i \in 2..k : stack'[i] = stack[i + 1]
       /\ stack'[1].to = t.to /\ stack'[1].sources = <<b2>>
       /\ stack'[1].field = t.field /\ stack'[1].todo = t.todo \ {f}
  <2>1. Done(f, s)
    BY <1>2, <1>5, <1>15
  <2>2. /\ Len(stack') = Len(s) /\ \A i \in 2..Len(s) : stack'[i] = s[i]
        /\ stack'[1].to = t.to /\ stack'[1].sources = t.sources
        /\ stack'[1].field = t.field /\ stack'[1].todo = t.todo \ {f}
    BY <1>7, <1>16, <1>17, <2>1, DoneFacts
  <2>3. \A i \in 2..k : i \in 1..k
    OBVIOUS
  <2> QED BY <1>16, <1>17, <2>2, <2>3
<1>19. \A i \in 1..k : stack'[i].to = stack[i + 1].to /\ stack'[i].field = stack[i + 1].field
  BY <1>4, <1>5, <1>18
<1>20. Finished(D, S)'
  <2>1. ASSUME NEW m, NEW x, NEW y, <<m, x, y>> \in S
        PROVE  /\ m \in Msg \ before.msgs /\ x \in D /\ y \in D
               /\ \A i \in 1..k : stack'[i].to # m
               /\ Partly(m, before.fields[x], before.fields[y], {}, S)'
    <3>1. CASE <<m, x, y>> \in R
      <4>1. /\ m \in Msg \ before.msgs /\ x \in D /\ y \in D
            /\ \A i \in 1..k + 1 : stack[i].to # m
        BY <1>3, <3>1 DEF Finished
      <4>2. fields'[m] = fields[m]
        BY <1>4, <1>5, <1>10, <4>1
      <4>3. Partly(m, before.fields[x], before.fields[y], {}, S)'
        BY <1>2, <1>12, <3>1, <4>2, FinishedStays
      <4> QED BY <1>4, <1>19, <4>1, <4>3
    <3>2. CASE m = n /\ x = a /\ y = b
      <4>1. \A i \in 1..k : stack[i + 1].to # n
        BY <1>1, <1>3, <1>4, <1>5 DEF Calls
      <4> QED BY <1>6, <1>7, <1>14, <1>19, <3>2, <4>1
    <3> QED BY <1>12, <2>1, <3>1, <3>2
  <2> QED BY <1>2, <1>18, <2>1 DEF Finished
<1>21. PICK A2, B2 : A2 = [i \in 1..k |-> A[i + 1]] /\ B2 = [i \in 1..k |-> B[i + 1]]
  OBVIOUS
<1>22. /\ \A i \in 1..k : A2[i] = A[i + 1] /\ B2[i] = B[i + 1]
       /\ A2[1] = a2 /\ B2[1] = b2
  BY <1>4, <1>5, <1>21
<1>23. Merges(stack[1], a2, b2, S)'
  <2>1. PICK p, q, todo : p = before.fields[a2] /\ q = before.fields[b2] /\ todo = t.todo
    OBVIOUS
  <2>2. Partly(t.to, p, q, todo, R)
    BY <1>6, <1>13, <2>1 DEF Merges
  <2>3. MapOK(q)
    BY <1>1, <1>6, <2>1, ApartFacts
  <2>4. p[f] = a /\ q[f] = b
    BY <1>6, <2>1 DEF Held
  <2>5. Joined(n, a, b, f, S)'
    BY <1>7, <1>8, <1>12 DEF Joined
  <2>6. PICK m \in Msg : m = t.to
    BY <1>7
  <2>7. Partly(m, p, q, todo \ {f}, S)'
    <3>1. fields \in [Msg -> [Field -> Element \cup Repeated \cup {Unset}]]
      BY <1>1 DEF FieldsOK
    <3>2. f \in todo \cap Field /\ Partly(m, p, q, todo, R) /\ Put(m, f, n)
      BY <1>6, <1>7, <1>9, <2>1, <2>2, <2>6
    <3>3. Joined(n, p[f], q[f], f, S)'
      BY <2>4, <2>5
    <3> QED BY <1>2, <1>12, <2>3, <3>1, <3>2, <3>3, PartlyStored
  <2>8. PICK c : c = stack'[1] /\ c.to = m /\ c.sources = <<b2>> /\ c.todo = todo \ {f}
    BY <1>18, <2>1, <2>6
  <2>9. Partly(c.to, before.fields[a2], before.fields[b2], c.todo, S)'
    BY <1>2, <2>1, <2>7, <2>8
  <2>10. Merges(c, a2, b2, S)'
    BY <2>8, <2>9 DEF Merges
  <2> QED BY <2>8, <2>10
<1>24. ASSUME NEW i \in 2..k PROVE Merges(stack[i], A2[i], B2[i], S)'
  <2>1. PICK j \in 1..k + 1 : j = i + 1 /\ j # 2 /\ i \in 1..k
    OBVIOUS
  <2>2. PICK d, x, y : d = stack[j] /\ x = A[j] /\ y = B[j]
    OBVIOUS
  <2>3. Merges(d, x, y, R) /\ d.to \in Msg /\ d.to # t.to
    BY <1>1, <1>3, <1>4, <1>5, <2>1, <2>2 DEF Calls
  <2>4. Merges(d, x, y, S)'
    BY <1>2, <1>10, <1>12, <2>3, MergesStays
  <2>5. stack'[i] = d /\ A2[i] = x /\ B2[i] = y
    BY <1>18, <1>22, <2>1, <2>2
  <2> QED BY <2>4, <2>5
<1>25. \A i \in 1..k : /\ A2[i] \in D \cup {before.dst} /\ B2[i] \in D
                       /\ i # 1 => Len(stack'[i].sources) = 1
                       /\ i = k => A2[i] = before.dst /\ B2[i] = before.src
  <2>1. ASSUME NEW i \in 1..k
        PROVE  /\ A2[i] \in D \cup {before.dst} /\ B2[i] \in D
               /\ i # 1 => Len(stack'[i].sources) = 1
               /\ i = k => A2[i] = before.dst /\ B2[i] = before.src
    <3>1. PICK j \in 1..k + 1 : j = i + 1 /\ j # 1 /\ (j = k + 1 <=> i = k)
      BY <1>4
    <3>2. /\ A[j] \in D \cup {before.dst} /\ B[j] \in D /\ Len(stack[j].sources) = 1
          /\ j = k + 1 => A[j] = before.dst /\ B[j] = before.src
      BY <1>3, <3>1 DEF Calls
    <3>3. i # 1 => stack'[i] = stack[j]
      BY <1>4, <1>18, <3>1
    <3> QED BY <1>22, <3>1, <3>2, <3>3
  <2> QED BY <2>1
<1>26. ASSUME NEW i \in 1..k, i # k PROVE CalledBy(i, A2, B2, D)'
  <2>1. PICK j \in 1..k + 1 : j = i + 1 /\ j # k + 1 /\ j \in 2..k
    BY <1>4, <1>26
  <2>2. CalledBy(j, A, B, D)
    BY <1>3, <2>1 DEF Calls
  <2>3. stack'[j] = stack[j + 1]
    BY <1>18, <2>1
  <2>4. j \in 1..k /\ i \in 1..k
    BY <2>1
  <2>5. A2[i] = A[j] /\ A2[j] = A[j + 1] /\ B2[i] = B[j] /\ B2[j] = B[j + 1]
    BY <1>22, <2>1, <2>4
  <2>6. stack'[i].field = stack[j].field
    BY <1>19, <2>1, <2>4
  <2> QED BY <1>2, <2>1, <2>2, <2>3, <2>5, <2>6 DEF CalledBy, Held
<1>27. ASSUME NEW i \in 1..k, NEW j \in 1..k, stack'[i].to = stack'[j].to PROVE i = j
  <2>1. stack[i + 1].to = stack[j + 1].to /\ i + 1 \in 1..k + 1 /\ j + 1 \in 1..k + 1
    BY <1>4, <1>19, <1>27
  <2>2. i + 1 = j + 1
    BY <1>3, <2>1 DEF Calls
  <2> QED BY <2>2
<1>28. Calls(A2, B2, D, S)'
  <2>1. ASSUME NEW i \in 1..k PROVE Merges(stack[i], A2[i], B2[i], S)'
    <3>1. i = 1 => Merges(stack[1], A2[1], B2[1], S)'
      BY <1>22, <1>23
    <3> QED BY <1>4, <1>24, <3>1
  <2> QED BY <1>2, <1>18, <1>25, <1>26, <1>27, <2>1 DEF Calls
<1> QED BY <1>20, <1>28

(* What holds while proto.merge has not failed.                            *)
Exact(D) ==
  \E R : /\ Finished(D, R)
         /\ IF stack = <<>>
              THEN Partly(before.dst, before.fields[before.dst], before.fields[before.src], {}, R)
              ELSE \E A, B : Calls(A, B, D, R)

Due == before # NoCall /\ Mergeable /\ (stack = <<>> => ~failed)

AllExact == \A D : Due /\ Apart(D) => Exact(D)

ExactInv == OutcomeInv /\ AllExact

(* A step of a merge makes lists, and leaves those that are used alone.    *)
LEMMA MergeStepLists ==
  ASSUME HeapInv, stack # <<>>, MergeStep
  PROVE  before' = before /\ reps \subseteq reps' /\ \A l \in Used : elems'[l] = elems[l]
<1>1. ASSUME NEW f \in ListField, NEW l \in List, Concatenate(f, l)
      PROVE  before' = before /\ reps \subseteq reps' /\ \A k \in Used : elems'[k] = elems[k]
  <2>1. before' = before /\ reps \subseteq reps'
    BY <1>1 DEF Concatenate
  <2> QED BY <1>1, <2>1, ConcatenateGood
<1>2. CASE \E f \in Field : Replace(f)
  BY <1>2 DEF Replace
<1>3. CASE (\E f \in Field : FieldFails(f)) \/ MergeSource \/ MergeReturns
           \/ \E f \in Field, n \in Msg : Descend(f, n)
  BY <1>3 DEF FieldFails, MergeSource, MergeReturns, Descend, heap
<1>4. CASE FieldMerged
  BY <1>4 DEF FieldMerged
<1> QED BY <1>1, <1>2, <1>3, <1>4 DEF MergeStep

(* Values that turn out mergeable were so all the time. *)
LEMMA MergeableWas ==
  ASSUME OutcomeInv, OutcomeInv', before # NoCall, UNCHANGED before, reps \subseteq reps',
         \A l \in Used : elems'[l] = elems[l], Mergeable'
  PROVE  Mergeable
<1>1. HeapInv /\ RecordedOK /\ IInv /\ IInv'
  BY DEF OutcomeInv, HeapInv
<1> SUFFICES ASSUME NEW a \in Msg, NEW b \in Msg, NEW f \in Field, NEW v, NEW w,
                    v = before.fields[a][f], w = before.fields[b][f], v # Unset, w # Unset
             PROVE  /\ ~Unmergeable(v, w)
                    /\ f \in ListField => ToSet(before.elems[v.list]) \subseteq Fits[f]
  BY DEF Mergeable
<1>2. /\ v \in {Unset} \cup Element \cup {r \in reps : r.list \in Used}
      /\ w \in {Unset} \cup Element \cup {r \in reps : r.list \in Used}
  BY <1>1, RecordedOf
<1>3. Unmergeable(v, w)' <=> Unmergeable(v, w)
  BY <1>1, <1>2, UnmergeableStays
<1>4. /\ ~Unmergeable(v, w)'
      /\ f \in ListField => ToSet(before.elems[v.list]) \subseteq Fits[f]
  BY DEF Mergeable
<1> QED BY <1>3, <1>4

(* With mergeable values no merge in progress fails. *)
LEMMA NothingFails ==
  ASSUME OutcomeInv, stack # <<>>, NEW D, Apart(D), Mergeable,
         NEW A, NEW B, NEW R, Calls(A, B, D, R), NEW f, FieldFails(f)
  PROVE  FALSE
<1>1. PICK v, w : v = Old(f) /\ w = New(f)
  OBVIOUS
<1>2. f \in Top.todo /\ Unmergeable(v, w)
  BY <1>1 DEF FieldFails
<1>3. ~Unmergeable(v, w)
  BY <1>1, <1>2, FoundMergeable DEF OutcomeInv
<1> QED BY <1>2, <1>3

LEMMA MergeReturnsExact ==
  ASSUME OutcomeInv, stack # <<>>, NEW D, Apart(D),
         NEW A, NEW B, NEW R, Finished(D, R), Calls(A, B, D, R), MergeReturns
  PROVE  Exact(D)'
<1>1. /\ Top.todo = {} /\ Len(stack) = 1 /\ stack' = <<>> /\ UNCHANGED <<heap, before>>
      /\ Top = stack[1] /\ FrameOK(stack[1], 1 = Len(stack))
  <2>1. Top.todo = {} /\ Len(stack) = 1 /\ stack' = <<>> /\ UNCHANGED <<heap, before>>
    BY DEF MergeReturns
  <2>2. 1 \in 1..Len(stack)
    BY <2>1
  <2> QED BY <2>1, <2>2, TopFacts DEF OutcomeInv
<1>2. Top.to = before.dst /\ Top.sources = <<before.src>>
  BY <1>1 DEF FrameOK
<1>3. PICK a, b : /\ a = before.dst /\ b = before.src
                  /\ Merges(Top, a, b, R)
  <2>1. 1 \in 1..Len(stack)
    BY <1>1
  <2> QED BY <1>1, <2>1 DEF Calls
<1>4. PICK p, q : p = before.fields[a] /\ q = before.fields[b]
  OBVIOUS
<1>5. Partly(a, p, q, {}, R)
  <2>1. Len(<<b>>) = 1 /\ Len(<<a, b>>) # 1
    OBVIOUS
  <2> QED BY <1>1, <1>2, <1>3, <1>4, <2>1 DEF Merges
<1>6. fields' = fields /\ elems' = elems /\ reps' = reps /\ before' = before
  BY <1>1 DEF heap
<1>7. Partly(a, p, q, {}, R)'
  BY <1>5, <1>6, PartlyStays
<1>8. Partly(before.dst, before.fields[before.dst], before.fields[before.src], {}, R)'
  BY <1>3, <1>4, <1>6, <1>7
<1>9. Finished(D, R)'
  <2>1. ASSUME NEW m, NEW x, NEW y, <<m, x, y>> \in R
        PROVE  /\ m \in Msg \ before.msgs /\ x \in D /\ y \in D
               /\ Partly(m, before.fields[x], before.fields[y], {}, R)'
    <3>1. Partly(m, before.fields[x], before.fields[y], {}, R)'
      BY <1>6, <2>1, FinishedStays
    <3> QED BY <2>1, <3>1 DEF Finished
  <2>2. \A i \in 1..Len(stack') : FALSE
    BY <1>1
  <2> QED BY <1>6, <2>1, <2>2 DEF Finished
<1> QED BY <1>1, <1>8, <1>9 DEF Exact

(* A step of a merge. *)
LEMMA GoesOn ==
  ASSUME NEW D, stack' # <<>>, \E A, B, R : Finished(D, R)' /\ Calls(A, B, D, R)'
  PROVE  Exact(D)'
BY DEF Exact

LEMMA MergeStepExact ==
  ASSUME OutcomeInv, OutcomeInv', stack # <<>>, AllExact, MergeStep
  PROVE  AllExact'
<1>1. /\ HeapInv /\ before # NoCall /\ Len(stack) \in Nat \ {0} /\ stack \in Seq(Frames)
  BY TopFacts DEF OutcomeInv
<1>2. before' = before /\ reps \subseteq reps' /\ \A l \in Used : elems'[l] = elems[l]
  BY <1>1, MergeStepLists
<1> SUFFICES ASSUME NEW D, Due', Apart(D)' PROVE Exact(D)'
  BY DEF AllExact
<1>3. Apart(D) /\ Mergeable
  <2>1. Apart(D)
    BY <1>2 DEF Apart, Held
  <2>2. Mergeable'
    BY DEF Due
  <2> QED BY <1>1, <1>2, <2>1, <2>2, MergeableWas
<1>4. Exact(D)
  BY <1>1, <1>3 DEF AllExact, Due
<1>5. PICK R, A, B : Finished(D, R) /\ Calls(A, B, D, R)
  BY <1>4 DEF Exact
<1>6. \A f, calls : calls \in Seq(Frames) /\ calls # <<>> /\ Done(f, calls) => stack' # <<>>
  <2> SUFFICES ASSUME NEW f, NEW calls \in Seq(Frames), calls # <<>>, Done(f, calls)
               PROVE  stack' # <<>>
    OBVIOUS
  <2>1. Len(stack') = Len(calls) /\ Len(calls) # 0
    BY DoneFacts
  <2>2. Len(<<>>) = 0
    OBVIOUS
  <2> QED BY <2>1, <2>2
<1>7. ASSUME NEW f \in Field, Replace(f) PROVE Exact(D)'
  <2>1. stack' # <<>>
    BY <1>1, <1>6, <1>7 DEF Replace
  <2> QED BY <1>3, <1>5, <1>7, <2>1, ReplaceExact, GoesOn
<1>8. ASSUME NEW f \in ListField, NEW l \in List, Concatenate(f, l) PROVE Exact(D)'
  <2>1. stack' # <<>>
    BY <1>1, <1>6, <1>8 DEF Concatenate
  <2> QED BY <1>3, <1>5, <1>8, <2>1, ConcatenateExact, GoesOn
<1>9. ASSUME NEW f \in Field, NEW n \in Msg, Descend(f, n) PROVE Exact(D)'
  <2>1. stack' # <<>>
    BY <1>1, <1>9 DEF Descend
  <2>2. \E A2, B2, R2 : Finished(D, R2)' /\ Calls(A2, B2, D, R2)'
    BY <1>3, <1>5, <1>9, DescendExact
  <2> QED BY <2>1, <2>2, GoesOn
<1>10. ASSUME MergeSource PROVE Exact(D)'
  <2>1. stack' # <<>>
    BY <1>1, <1>10 DEF MergeSource
  <2> QED BY <1>3, <1>5, <1>10, <2>1, MergeSourceExact, GoesOn
<1>11. ASSUME FieldMerged PROVE Exact(D)'
  <2>1. stack' # <<>>
    BY <1>1, <1>6, <1>11, CallersOK DEF FieldMerged
  <2>2. \E A2, B2, R2 : Finished(D, R2)' /\ Calls(A2, B2, D, R2)'
    BY <1>3, <1>5, <1>11, FieldMergedExact
  <2> QED BY <2>1, <2>2, GoesOn
<1>12. ASSUME MergeReturns PROVE Exact(D)'
  BY <1>3, <1>5, <1>12, MergeReturnsExact
<1>13. ASSUME NEW f \in Field, FieldFails(f) PROVE FALSE
  BY <1>3, <1>5, <1>13, NothingFails
<1> QED BY <1>7, <1>8, <1>9, <1>10, <1>11, <1>12, <1>13 DEF MergeStep

(* The program calls proto.merge: nothing is merged yet. *)
LEMMA CallExact ==
  ASSUME OutcomeInv, NEW d \in Msg, NEW s \in Msg, Merge(d, s)
  PROVE  AllExact'
<1> SUFFICES ASSUME NEW D, Due', Apart(D)' PROVE Exact(D)'
  BY DEF AllExact
<1>1. stack = <<>>
  BY DEF OutcomeInv, HeapInv, BeforeOK, Merge
<1>2. stack' = <<Frame(d, <<s>>, Unset)>> /\ UNCHANGED heap
  <2>1. CASE Refused /\ UNCHANGED stack
    BY <1>1, <2>1 DEF Refused, Due
  <2> QED BY <2>1 DEF Merge
<1>3. /\ fields' = fields /\ elems' = elems /\ reps' = reps
      /\ before'.dst = d /\ before'.src = s /\ before'.fields = fields
  <2>1. PICK b : b = [dst |-> d, src |-> s, fields |-> fields, elems |-> elems, lists |-> Used,
                      msgs |-> {d, s} \cup {m \in Msg : ~Unused(m)}]
    OBVIOUS
  <2>2. before' = b
    BY <2>1 DEF Merge
  <2> QED BY <1>2, <2>1, <2>2 DEF heap
<1>4. PICK c : /\ c = Frame(d, <<s>>, Unset)
               /\ c.to = d /\ c.sources = <<s>> /\ c.todo = {g \in Field : fields[s][g] # Unset}
  <2>1. PICK c : c = Frame(d, <<s>>, Unset)
    OBVIOUS
  <2>2. Head(<<s>>) = s
    OBVIOUS
  <2>3. c.to = d /\ c.sources = <<s>> /\ c.todo = {g \in Field : fields[s][g] # Unset}
    BY <2>1, <2>2 DEF Frame, Set
  <2> QED BY <2>1, <2>3
<1>5. Len(stack') = 1 /\ stack'[1] = c /\ stack' # <<>>
  <2>1. PICK t : t = <<c>>
    OBVIOUS
  <2>2. Len(t) = 1 /\ t[1] = c /\ t # <<>>
    BY <2>1
  <2>3. stack' = t
    BY <1>2, <1>4, <2>1
  <2> QED BY <2>2, <2>3
<1>6. PICK A, B : A = [i \in 1..1 |-> d] /\ B = [i \in 1..1 |-> s]
  OBVIOUS
<1>7. A[1] = d /\ B[1] = s /\ \A i \in 1..1 : i = 1
  BY <1>6
<1>8. Partly(d, before.fields[d], before.fields[s], c.todo, {})'
  BY <1>3, <1>4, SortFacts DEF Partly, FieldPartly
<1>9. Merges(c, d, s, {})'
  BY <1>4, <1>8 DEF Merges
<1>10. s \in D
  BY <1>3 DEF Apart
<1>11. Merges(stack[1], A[1], B[1], {})'
  BY <1>5, <1>7, <1>9
<1>12. Calls(A, B, D, {})'
  BY <1>3, <1>5, <1>7, <1>10, <1>11 DEF Calls
<1>13. Finished(D, {})'
  BY DEF Finished
<1> QED BY <1>5, <1>12, <1>13, GoesOn

LEMMA ExactNext ==
  ASSUME ExactInv, [MergeNext]_mergeVars
  PROVE  ExactInv'
<1>1. OutcomeInv /\ OutcomeInv' /\ AllExact
  BY OutcomeNext DEF ExactInv
<1>2. CASE UNCHANGED mergeVars
  <2>1. /\ fields' = fields /\ elems' = elems /\ reps' = reps /\ failed' = failed
        /\ stack' = stack /\ before' = before
    BY <1>2 DEF mergeVars
  <2> SUFFICES ASSUME NEW D, Due', Apart(D)' PROVE Exact(D)'
    BY <1>1 DEF ExactInv, AllExact
  <2>2. Due /\ Apart(D)
    <3>1. before # NoCall /\ (stack = <<>> => ~failed)
      BY <2>1 DEF Due
    <3>2. Mergeable
      BY <1>1, <2>1, <3>1, MergeableWas DEF Due
    <3> QED BY <2>1, <3>1, <3>2 DEF Due, Apart, Held
  <2>3. PICK R : /\ Finished(D, R)
                 /\ IF stack = <<>>
                      THEN Partly(before.dst, before.fields[before.dst],
                                  before.fields[before.src], {}, R)
                      ELSE \E A, B : Calls(A, B, D, R)
    BY <1>1, <2>2 DEF AllExact, Exact
  <2>4. Finished(D, R)'
    <3>1. ASSUME NEW m, NEW x, NEW y, <<m, x, y>> \in R
          PROVE  /\ m \in Msg \ before.msgs /\ x \in D /\ y \in D
                 /\ \A i \in 1..Len(stack) : stack[i].to # m
                 /\ Partly(m, before.fields[x], before.fields[y], {}, R)'
      <4>1. Partly(m, before.fields[x], before.fields[y], {}, R)'
        BY <2>1, <2>3, <3>1, FinishedStays
      <4> QED BY <2>3, <3>1, <4>1 DEF Finished
    <3> QED BY <2>1, <3>1 DEF Finished
  <2>5. CASE stack = <<>>
    <3>1. PICK n, p, q : /\ n = before.dst /\ p = before.fields[before.dst]
                         /\ q = before.fields[before.src]
      OBVIOUS
    <3>2. Partly(n, p, q, {}, R)
      BY <2>3, <2>5, <3>1
    <3>3. Partly(n, p, q, {}, R)'
      BY <2>1, <3>2, PartlyStays
    <3>4. Partly(before.dst, before.fields[before.dst], before.fields[before.src], {}, R)'
      BY <2>1, <3>1, <3>3
    <3> QED BY <2>1, <2>4, <2>5, <3>4 DEF Exact
  <2>6. CASE stack # <<>>
    <3>1. PICK A, B : Calls(A, B, D, R)
      BY <2>3, <2>6
    <3>2. ASSUME NEW i \in 1..Len(stack) PROVE Merges(stack[i], A[i], B[i], R)'
      <4>1. PICK c, a, b : c = stack[i] /\ a = A[i] /\ b = B[i]
        OBVIOUS
      <4>2. Merges(c, a, b, R)
        BY <3>1, <4>1 DEF Calls
      <4>3. Merges(c, a, b, R)'
        BY <2>1, <4>2, MergesStays
      <4> QED BY <2>1, <4>1, <4>3
    <3>3. ASSUME NEW i \in 1..Len(stack), i # Len(stack) PROVE CalledBy(i, A, B, D)'
      BY <2>1, <3>1, <3>3 DEF Calls, CalledBy, Held
    <3>4. Calls(A, B, D, R)'
      BY <2>1, <3>1, <3>2, <3>3 DEF Calls
    <3> QED BY <2>1, <2>4, <2>6, <3>4, GoesOn
  <2> QED BY <2>5, <2>6
<1>3. CASE Program
  BY <1>1, <1>3 DEF Program, ExactInv, AllExact, Due
<1>4. CASE \E d, s \in Msg : Merge(d, s)
  BY <1>1, <1>4, CallExact DEF ExactInv
<1>5. CASE stack # <<>> /\ MergeStep
  BY <1>1, <1>5, MergeStepExact DEF ExactInv
<1> QED BY <1>2, <1>3, <1>4, <1>5 DEF MergeNext

LEMMA ExactInit == MergeInit => ExactInv
BY OutcomeInit DEF MergeInit, ExactInv, AllExact, Due

-----------------------------------------------------------------------------
(* The trees of what a merge makes.                                        *)

(* T has the trees down to the depths up to n, M the merges. *)
Level(k, fs, es, below) ==
  [m \in Msg |-> IF k = 0 THEN Unset
                 ELSE [f \in Field |-> ValueTree(fs[m][f], f, es, below)]]

Levels(T, fs, es, n) == T = [k \in 0..n |-> Level(k, fs, es, T[k - 1])]

MergedLevel(k, below, merged) ==
  [p \in Msg \X Msg |-> IF k = 0 THEN Unset ELSE MergedTree(p[1], p[2], below, merged)]

MergedLevels(M, T, n) == M = [k \in 0..n |-> MergedLevel(k, T[k - 1], M[k - 1])]

(* The recursive definitions of Trees and Merged define functions. *)
LEMMA LevelsExist ==
  ASSUME NEW fs, NEW es, NEW n \in Nat
  PROVE  \E T : Levels(T, fs, es, n)
<1> DEFINE S == {k \in Nat : \E T : Levels(T, fs, es, k)}
<1>1. 0 \in S
  <2>1. PICK x : \A below : Level(0, fs, es, below) = x
    BY DEF Level
  <2>2. PICK T : T = [i \in 0..0 |-> x]
    OBVIOUS
  <2>3. T = [i \in 0..0 |-> Level(i, fs, es, T[i - 1])]
    <3>1. \A i \in 0..0 : i = 0
      OBVIOUS
    <3> QED BY <2>1, <2>2, <3>1
  <2> QED BY <2>3 DEF Levels
<1>2. ASSUME NEW k \in S PROVE k + 1 \in S
  <2>1. PICK T : Levels(T, fs, es, k)
    OBVIOUS
  <2>2. PICK x : x = Level(k + 1, fs, es, T[k])
    OBVIOUS
  <2>3. PICK U : U = [i \in 0..k + 1 |-> IF i = k + 1 THEN x ELSE T[i]]
    OBVIOUS
  <2>4. k \in Nat
    OBVIOUS
  <2>5. \A i \in 0..k : i \in 0..k + 1 /\ U[i] = T[i]
    BY <2>3, <2>4
  <2>6. U[k + 1] = x /\ k + 1 - 1 = k /\ k \in 0..k
    BY <2>3, <2>4
  <2>7. \A i \in 0..k : T[i] = Level(i, fs, es, T[i - 1])
    BY <2>1 DEF Levels
  <2>8. ASSUME NEW i \in 0..k + 1 PROVE U[i] = Level(i, fs, es, U[i - 1])
    <3>1. CASE i = k + 1
      BY <2>2, <2>5, <2>6, <3>1
    <3>2. CASE i # k + 1 /\ i # 0
      <4>1. i \in 0..k /\ i - 1 \in 0..k
        BY <2>4, <3>2
      <4> QED BY <2>5, <2>7, <4>1
    <3>3. CASE i = 0
      <4>1. 0 \in 0..k /\ U[0] = T[0]
        BY <2>4, <2>5
      <4>2. T[0] = Level(0, fs, es, T[0 - 1])
        BY <2>7, <4>1
      <4>3. \A x1, x2 : Level(0, fs, es, x1) = Level(0, fs, es, x2)
        BY DEF Level
      <4> QED BY <3>3, <4>1, <4>2, <4>3
    <3> QED BY <3>1, <3>2, <3>3
  <2>9. U = [i \in 0..k + 1 |-> U[i]]
    BY <2>3
  <2>10. U = [i \in 0..k + 1 |-> Level(i, fs, es, U[i - 1])]
    BY <2>8, <2>9
  <2>11. Levels(U, fs, es, k + 1)
    BY <2>10 DEF Levels
  <2> QED BY <2>4, <2>11
<1>3. S \in SUBSET Nat
  OBVIOUS
<1>4. S = Nat
  <2> HIDE DEF S
  <2> QED BY <1>1, <1>2, <1>3, SetInduction
<1> QED BY <1>4

LEMMA MergedLevelsExist ==
  ASSUME NEW T, NEW n \in Nat
  PROVE  \E M : MergedLevels(M, T, n)
<1> DEFINE S == {k \in Nat : \E M : MergedLevels(M, T, k)}
<1>1. 0 \in S
  <2>1. PICK x : \A merged : MergedLevel(0, T[0 - 1], merged) = x
    BY DEF MergedLevel
  <2>2. PICK M : M = [i \in 0..0 |-> x]
    OBVIOUS
  <2>3. M = [i \in 0..0 |-> MergedLevel(i, T[i - 1], M[i - 1])]
    <3>1. \A i \in 0..0 : i = 0
      OBVIOUS
    <3> QED BY <2>1, <2>2, <3>1
  <2> QED BY <2>3 DEF MergedLevels
<1>2. ASSUME NEW k \in S PROVE k + 1 \in S
  <2>1. PICK M : MergedLevels(M, T, k)
    OBVIOUS
  <2>2. PICK x : x = MergedLevel(k + 1, T[k + 1 - 1], M[k])
    OBVIOUS
  <2>3. PICK U : U = [i \in 0..k + 1 |-> IF i = k + 1 THEN x ELSE M[i]]
    OBVIOUS
  <2>4. k \in Nat
    OBVIOUS
  <2>5. \A i \in 0..k : i \in 0..k + 1 /\ U[i] = M[i]
    BY <2>3, <2>4
  <2>6. U[k + 1] = x /\ k + 1 - 1 = k /\ k \in 0..k
    BY <2>3, <2>4
  <2>7. \A i \in 0..k : M[i] = MergedLevel(i, T[i - 1], M[i - 1])
    BY <2>1 DEF MergedLevels
  <2>8. ASSUME NEW i \in 0..k + 1 PROVE U[i] = MergedLevel(i, T[i - 1], U[i - 1])
    <3>1. CASE i = k + 1
      BY <2>2, <2>5, <2>6, <3>1
    <3>2. CASE i # k + 1 /\ i # 0
      <4>1. i \in 0..k /\ i - 1 \in 0..k
        BY <2>4, <3>2
      <4> QED BY <2>5, <2>7, <4>1
    <3>3. CASE i = 0
      <4>1. 0 \in 0..k /\ U[0] = M[0]
        BY <2>4, <2>5
      <4>2. M[0] = MergedLevel(0, T[0 - 1], M[0 - 1])
        BY <2>7, <4>1
      <4>3. \A x1, x2 : MergedLevel(0, T[0 - 1], x1) = MergedLevel(0, T[0 - 1], x2)
        BY DEF MergedLevel
      <4> QED BY <3>3, <4>1, <4>2, <4>3
    <3> QED BY <3>1, <3>2, <3>3
  <2>9. U = [i \in 0..k + 1 |-> U[i]]
    BY <2>3
  <2>10. U = [i \in 0..k + 1 |-> MergedLevel(i, T[i - 1], U[i - 1])]
    BY <2>8, <2>9
  <2>11. MergedLevels(U, T, k + 1)
    BY <2>10 DEF MergedLevels
  <2> QED BY <2>4, <2>11
<1>3. S \in SUBSET Nat
  OBVIOUS
<1>4. S = Nat
  <2> HIDE DEF S
  <2> QED BY <1>1, <1>2, <1>3, SetInduction
<1> QED BY <1>4

(* Trees and Merged are such functions. *)
LEMMA DepthFacts == Depth \in Nat \ {0}
BY MessageAssumption, FS_CardinalityType DEF Depth

LEMMA TreesFacts ==
  ASSUME NEW fs, NEW es
  PROVE  Levels(Trees(fs, es), fs, es, Depth)
<1>1. PICK U : Levels(U, fs, es, Depth)
  BY DepthFacts, LevelsExist
<1>2. PICK T : T = CHOOSE V : Levels(V, fs, es, Depth)
  OBVIOUS
<1>3. Levels(T, fs, es, Depth)
  BY <1>1, <1>2
<1>4. Trees(fs, es) = T
  BY <1>2 DEF Trees, Levels, Level
<1> QED BY <1>3, <1>4

LEMMA MergedFacts ==
  \E M : /\ MergedLevels(M, Trees(before.fields, before.elems), Depth)
         /\ Merged = M[Depth][<<before.dst, before.src>>]
<1>1. PICK T : T = Trees(before.fields, before.elems)
  OBVIOUS
<1>2. PICK U : MergedLevels(U, T, Depth)
  BY DepthFacts, MergedLevelsExist
<1>3. PICK M : M = CHOOSE V : MergedLevels(V, T, Depth)
  OBVIOUS
<1>4. MergedLevels(M, T, Depth)
  BY <1>2, <1>3
<1>5. Merged = M[Depth][<<before.dst, before.src>>]
  BY <1>1, <1>3 DEF Merged, MergedLevels, MergedLevel
<1> QED BY <1>1, <1>4, <1>5

(* The trees of the messages of the arguments, and of what was made of     *)
(* each two of them.                                                       *)
SameTrees(D, now, then) == \A x \in D : now[x] = then[x]

MadeTrees(R, now, merged) == \A x, v, w : <<x, v, w>> \in R => now[x] = merged[<<v, w>>]

(* The value of a field of the arguments is what it was if the messages    *)
(* below are.                                                              *)
LEMMA ValueStays ==
  ASSUME HeapInv, RecordedOK, before # NoCall, NEW D, Apart(D), NEW m \in D \cup {before.dst},
         NEW f \in Field, NEW v, v = Held(m, f),
         NEW now, NEW then, SameTrees(D, now, then)
  PROVE  ValueTree(v, f, elems, now) = ValueTree(v, f, before.elems, then)
<1>1. m \in Msg /\ MapOK(before.fields[m])
  BY ApartFacts
<1>2. f \in ListField /\ v # Unset => elems[v.list] = before.elems[v.list]
  BY <1>1 DEF RecordedOK, Held, HeapInv, OnlyDestination
<1>3. v \in Msg => v \in D
  BY DEF Apart
<1> QED BY <1>2, <1>3 DEF ValueTree, SameTrees

(* The tree of what a field was made is what the documentation says. *)
LEMMA FieldTree ==
  ASSUME HeapInv, RecordedOK, before # NoCall, NEW D, Apart(D),
         NEW a \in D \cup {before.dst}, NEW b \in D, NEW f \in Field, NEW x, NEW R,
         FieldPartly(x, before.fields[a], before.fields[b], f, {}, R),
         NEW now, NEW then, SameTrees(D, now, then), NEW merged, MadeTrees(R, now, merged)
  PROVE  ValueTree(x, f, elems, now) = MergedTree(a, b, then, merged)[f]
<1>1. PICK v, w : v = Held(a, f) /\ w = Held(b, f)
  OBVIOUS
<1>2. PICK vt, wt : /\ vt = ValueTree(v, f, before.elems, then)
                    /\ wt = ValueTree(w, f, before.elems, then)
  OBVIOUS
<1>3. ValueTree(v, f, elems, now) = vt /\ ValueTree(w, f, elems, now) = wt
  <2>1. ValueTree(v, f, elems, now) = ValueTree(v, f, before.elems, then)
    BY <1>1, ValueStays
  <2>2. b \in D \cup {before.dst}
    OBVIOUS
  <2>3. ValueTree(w, f, elems, now) = ValueTree(w, f, before.elems, then)
    BY <1>1, <2>2, ValueStays
  <2> QED BY <1>2, <2>1, <2>3
<1>4. PICK displaced : /\ displaced \in BOOLEAN
                       /\ displaced <=> f \in Oneof /\ \E g \in Oneof : Held(b, g) # Unset
  OBVIOUS
<1>5. MergedTree(a, b, then, merged)[f] =
        IF w = Unset THEN IF displaced THEN Unset ELSE vt
        ELSE IF v = Unset THEN wt
        ELSE IF f \in ListField THEN vt \o wt
        ELSE IF {v, w} \subseteq Msg THEN merged[<<v, w>>]
        ELSE wt
  BY <1>1, <1>2, <1>4 DEF MergedTree, Held
<1>6. CASE w = Unset
  <2>1. x = IF displaced THEN Unset ELSE v
    BY <1>1, <1>4, <1>6 DEF FieldPartly, Held
  <2>2. displaced => ValueTree(x, f, elems, now) = Unset
    BY <2>1 DEF ValueTree
  <2>3. ~displaced => x = v
    BY <2>1
  <2> QED BY <1>3, <1>4, <1>5, <1>6, <2>2, <2>3
<1>7. CASE w # Unset
  <2>1. Joined(x, v, w, f, R)
    BY <1>1, <1>7 DEF FieldPartly, Held
  <2>2. CASE v = Unset
    BY <1>3, <1>5, <1>7, <2>1, <2>2 DEF Joined
  <2>3. CASE v # Unset /\ f \in ListField
    <3>1. x \in reps /\ elems[x.list] = before.elems[v.list] \o before.elems[w.list]
      BY <2>1, <2>3 DEF Joined
    <3>2. x # Unset
      BY <3>1, SortFacts DEF HeapInv, IInv, ListsOK
    <3>3. ValueTree(x, f, elems, now) = before.elems[v.list] \o before.elems[w.list]
      BY <2>3, <3>1, <3>2 DEF ValueTree
    <3>4. vt = before.elems[v.list] /\ wt = before.elems[w.list]
      BY <1>2, <1>7, <2>3 DEF ValueTree
    <3> QED BY <1>5, <1>7, <2>3, <3>3, <3>4
  <2>4. CASE v # Unset /\ f \notin ListField /\ {v, w} \subseteq Msg
    <3>1. x \in Msg /\ <<x, v, w>> \in R
      BY <2>1, <2>4 DEF Joined
    <3>2. x # Unset
      BY <3>1, SortFacts
    <3>3. ValueTree(x, f, elems, now) = merged[<<v, w>>]
      BY <2>4, <3>1, <3>2 DEF ValueTree, MadeTrees
    <3> QED BY <1>5, <1>7, <2>4, <3>3
  <2>5. CASE v # Unset /\ f \notin ListField /\ ~({v, w} \subseteq Msg)
    <3>1. x = w
      BY <2>1, <2>5 DEF Joined
    <3> QED BY <1>3, <1>5, <1>7, <2>5, <3>1
  <2> QED BY <2>2, <2>3, <2>4, <2>5
<1> QED BY <1>6, <1>7

(* Down to every depth a merge made what the documentation says. *)
LEMMA ExactTrees ==
  ASSUME ExactInv, Ended, ~failed, Separate, Mergeable
  PROVE  Trees(fields, elems)[Depth][before.dst] = Merged
<1>1. HeapInv /\ RecordedOK /\ before # NoCall /\ stack = <<>>
  BY DEF ExactInv, OutcomeInv, Ended
<1>2. PICK D : Apart(D)
  BY DEF Separate, Apart, Held
<1>3. Exact(D)
  BY <1>1, <1>2 DEF ExactInv, AllExact, Due
<1>4. PICK d, s : d = before.dst /\ s = before.src
  OBVIOUS
<1>5. PICK R : Finished(D, R) /\ Partly(d, before.fields[d], before.fields[s], {}, R)
  BY <1>1, <1>3, <1>4 DEF Exact
<1>6. PICK S : S = R \cup {<<d, d, s>>}
  OBVIOUS
<1>7. ASSUME NEW n, NEW a, NEW b, <<n, a, b>> \in S
      PROVE  /\ n \in Msg /\ a \in D \cup {d} /\ a \in Msg /\ b \in D /\ b \in Msg
             /\ Partly(n, before.fields[a], before.fields[b], {}, R)
  <2>1. CASE <<n, a, b>> \in R
    <3>1. /\ n \in Msg /\ a \in D /\ b \in D
          /\ Partly(n, before.fields[a], before.fields[b], {}, R)
      BY <1>5, <2>1 DEF Finished
    <3> QED BY <1>1, <1>2, <3>1, ApartFacts
  <2>2. CASE n = d /\ a = d /\ b = s
    <3>1. s \in D /\ d \in D \cup {before.dst}
      BY <1>2, <1>4 DEF Apart
    <3>2. d \in Msg /\ s \in Msg
      BY <1>1, <1>2, <3>1, ApartFacts
    <3> QED BY <1>5, <2>2, <3>1, <3>2
  <2> QED BY <1>6, <1>7, <2>1, <2>2
<1>8. PICK T, U : T = Trees(before.fields, before.elems) /\ U = Trees(fields, elems)
  OBVIOUS
<1>9. Levels(T, before.fields, before.elems, Depth) /\ Levels(U, fields, elems, Depth)
  BY <1>8, TreesFacts
<1>10. PICK M : MergedLevels(M, T, Depth) /\ Merged = M[Depth][<<d, s>>]
  BY <1>4, <1>8, MergedFacts
<1> DEFINE Same(k) == /\ \A m \in D : U[k][m] = T[k][m]
                      /\ \A n, a, b : <<n, a, b>> \in S => U[k][n] = M[k][<<a, b>>]
           K == {k \in Nat : k <= Depth => Same(k)}
<1>11. Depth \in Nat
  BY DepthFacts
<1>12. \A m \in D : m \in Msg /\ fields[m] = before.fields[m]
  BY <1>1, <1>2, ApartFacts
<1>13. 0 \in K
  <2>1. 0 \in 0..Depth
    BY <1>11
  <2>2. \A m \in Msg : T[0][m] = Unset /\ U[0][m] = Unset
    BY <1>9, <2>1 DEF Levels, Level
  <2>3. \A a, b \in Msg : M[0][<<a, b>>] = Unset
    BY <1>10, <2>1 DEF MergedLevels, MergedLevel
  <2>4. Same(0)
    BY <1>7, <1>12, <2>2, <2>3
  <2> QED BY <2>4
<1>14. ASSUME NEW k \in K PROVE k + 1 \in K
  <2>1. k \in Nat
    OBVIOUS
  <2> SUFFICES ASSUME k + 1 <= Depth PROVE Same(k + 1)
    BY <2>1
  <2>2. Same(k) /\ k + 1 \in 0..Depth /\ k + 1 # 0 /\ k + 1 - 1 = k
    BY <1>11, <2>1
  <2>3. PICK j : j = k + 1 /\ j \in 0..Depth /\ j # 0 /\ j - 1 = k
    BY <2>2
  <2>4. PICK now, then, merged : now = U[k] /\ then = T[k] /\ merged = M[k]
    OBVIOUS
  <2>5. /\ \A m \in Msg : U[j][m] = [f \in Field |-> ValueTree(fields[m][f], f, elems, now)]
        /\ \A m \in Msg :
             T[j][m] = [f \in Field |-> ValueTree(before.fields[m][f], f, before.elems, then)]
    <3>1. U[j] = Level(j, fields, elems, now) /\ T[j] = Level(j, before.fields, before.elems, then)
      BY <1>9, <2>3, <2>4 DEF Levels
    <3> QED BY <2>3, <3>1 DEF Level
  <2>6. \A a, b \in Msg : M[j][<<a, b>>] = MergedTree(a, b, then, merged)
    <3>1. M[j] = MergedLevel(j, then, merged)
      BY <1>10, <2>3, <2>4 DEF MergedLevels
    <3> SUFFICES ASSUME NEW a \in Msg, NEW b \in Msg
                 PROVE  M[j][<<a, b>>] = MergedTree(a, b, then, merged)
      OBVIOUS
    <3>2. PICK p : p = <<a, b>>
      OBVIOUS
    <3>3. p \in Msg \X Msg /\ p[1] = a /\ p[2] = b
      BY <3>2
    <3> QED BY <2>3, <3>1, <3>2, <3>3 DEF MergedLevel
  <2>7. SameTrees(D, now, then) /\ MadeTrees(R, now, merged)
    BY <1>6, <2>2, <2>4 DEF SameTrees, MadeTrees
  <2>8. ASSUME NEW y \in D PROVE U[j][y] = T[j][y]
    <3>1. y \in Msg /\ fields[y] = before.fields[y]
      BY <1>12
    <3>2. ASSUME NEW f \in Field
          PROVE  ValueTree(fields[y][f], f, elems, now)
                   = ValueTree(before.fields[y][f], f, before.elems, then)
      <4>1. PICK v : v = Held(y, f)
        OBVIOUS
      <4>2. PICK a \in D \cup {before.dst} : a = y
        OBVIOUS
      <4>3. ValueTree(v, f, elems, now) = ValueTree(v, f, before.elems, then)
        BY <1>1, <1>2, <2>7, <4>1, <4>2, ValueStays
      <4> QED BY <3>1, <4>1, <4>3 DEF Held
    <3>3. T[j][y] = [f \in Field |-> ValueTree(fields[y][f], f, elems, now)]
      BY <2>5, <3>1, <3>2
    <3> QED BY <2>5, <3>1, <3>3
  <2>9. ASSUME NEW n, NEW a, NEW b, <<n, a, b>> \in S PROVE U[j][n] = M[j][<<a, b>>]
    <3>1. /\ n \in Msg /\ a \in D \cup {before.dst} /\ a \in Msg /\ b \in D /\ b \in Msg
          /\ Partly(n, before.fields[a], before.fields[b], {}, R)
      BY <1>4, <1>7, <2>9
    <3>2. ASSUME NEW f \in Field
          PROVE  ValueTree(fields[n][f], f, elems, now) = MergedTree(a, b, then, merged)[f]
      <4>1. PICK x : x = fields[n][f]
        OBVIOUS
      <4>2. FieldPartly(x, before.fields[a], before.fields[b], f, {}, R)
        BY <3>1, <4>1 DEF Partly
      <4>3. ValueTree(x, f, elems, now) = MergedTree(a, b, then, merged)[f]
        BY <1>1, <1>2, <2>7, <3>1, <4>2, FieldTree
      <4> QED BY <4>1, <4>3
    <3>3. U[j][n] = [f \in Field |-> MergedTree(a, b, then, merged)[f]]
      BY <2>5, <3>1, <3>2
    <3>4. MergedTree(a, b, then, merged) = [f \in Field |-> MergedTree(a, b, then, merged)[f]]
      BY DEF MergedTree
    <3> QED BY <2>6, <3>1, <3>3, <3>4
  <2> QED BY <2>3, <2>8, <2>9
<1>15. K = Nat
  <2>1. K \in SUBSET Nat
    OBVIOUS
  <2> HIDE DEF K
  <2> QED BY <1>13, <1>14, <2>1, SetInduction
<1>16. Same(Depth)
  <2>1. Depth \in K
    BY <1>11, <1>15
  <2> QED BY <1>11, <2>1
<1>17. <<d, d, s>> \in S
  BY <1>6
<1>18. U[Depth][d] = M[Depth][<<d, s>>]
  BY <1>16, <1>17
<1> QED BY <1>4, <1>8, <1>10, <1>18

(* In whatever order Go's map is ranged over, proto.merge makes of the     *)
(* destination what the documentation says, at every depth: if the values  *)
(* are mergeable and no argument contains the destination.                 *)
THEOREM MergeIsExact == MergeSpec => []MergeExact
<1>1. ExactInv /\ [MergeNext]_mergeVars => ExactInv'
  BY ExactNext
<1>2. ExactInv => MergeExact
  BY ExactTrees DEF MergeExact
<1> QED BY <1>1, <1>2, ExactInit, PTL DEF MergeSpec
=============================================================================
